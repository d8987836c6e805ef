-------------------------------- MODULE Log ---------------------------------
(***************************************************************************)
(* The write-ahead log of log.c, with the part of the buffer cache it      *)
(* relies on (a B_DIRTY buffer is not recycled), crashes and the recovery  *)
(* of the next boot.                                                       *)
(*                                                                         *)
(* Grain.  One disk write is one step: a block is one sector.  A critical  *)
(* section of log.lock is one step; the test of log_write() that precedes  *)
(* it is part of an earlier one, as the code makes it without the lock.    *)
(***************************************************************************)
EXTENDS Integers, Sequences, FiniteSets, Functions

CONSTANTS
    Proc,           \* the processes that make file system calls
    Block,          \* home blocks of the file system
    Data, FirstData,    \* contents of a block; what mkfs wrote
    Absent,         \* not in the buffer cache
    NoBlock,
    MAXOPBLOCKS, LOGSIZE,
    Size,           \* log.size, sb.nlog: the header and Size - 1 log blocks
    OpBlocks,       \* bound: blocks a call writes between begin_op and end_op
    MaxCrashes      \* bound

ASSUME LogAssumption ==
    /\ IsFiniteSet(Proc) /\ IsFiniteSet(Block)
    /\ FirstData \in Data /\ Absent \notin Data /\ NoBlock \notin Block
    /\ MAXOPBLOCKS \in Nat \ {0} /\ LOGSIZE \in Nat /\ MAXOPBLOCKS <= LOGSIZE
    /\ Size \in Nat /\ OpBlocks \in 0..MAXOPBLOCKS /\ MaxCrashes \in Nat

VARIABLES
    pc,             \* where each process is
    held,           \* the buffer a process has locked and modified
    wrote,          \* the blocks its call has logged
    outstanding, committing,
    lh,             \* log.lh: the sequence of its n block numbers
    phase, tail,    \* the step of commit() or of recover_from_log()
    cache,          \* data of the buffers
    dirty,          \* the home blocks whose buffer has B_DIRTY
    disk,           \* home blocks
    logdisk,        \* log blocks; those from Size on are not the log's
    hdr,            \* the header block
    panicked, crashes

mvars == <<pc, held, wrote, outstanding, committing>>
cvars == <<cache, dirty>>
dvars == <<disk, logdisk, hdr>>
vars == <<pc, held, wrote, outstanding, committing, lh, phase, tail, cache,
          dirty, disk, logdisk, hdr, panicked, crashes>>

Slots == 1..LOGSIZE

\* mkfs made the disk; the first boot is about to call initlog().
Init ==
    /\ pc = [p \in Proc |-> "out"]
    /\ held = [p \in Proc |-> NoBlock]
    /\ wrote = [p \in Proc |-> {}]
    /\ outstanding = 0 /\ committing = FALSE
    /\ lh = <<>> /\ hdr = <<>>
    /\ phase = "read_head" /\ tail = 1
    /\ cache = [b \in Block |-> Absent] /\ dirty = {}
    /\ disk = [b \in Block |-> FirstData]
    /\ logdisk = [i \in Slots |-> FirstData]
    /\ panicked = FALSE /\ crashes = 0

\* forkret() calls initlog() in the first process, before any other exists.
Recovering == phase # "idle" /\ ~committing

\* What bread(b) returns.
Bread(b) == IF cache[b] = Absent THEN disk[b] ELSE cache[b]

\* wakeup(&log)
Woken(pcs) == [q \in Proc |-> IF pcs[q] = "asleep" THEN "begin" ELSE pcs[q]]

----------------------------------------------------------------------------
(* begin_op(), log_write(), end_op()                                       *)

\* Variant: the reservation of the new call is forgotten.
Full_OffByOne == Len(lh) + outstanding * MAXOPBLOCKS > LOGSIZE

\* This call might exhaust the log.
Full == Len(lh) + (outstanding + 1) * MAXOPBLOCKS > LOGSIZE

\* One turn of the loop of begin_op().
BeginOp(p) ==
    /\ ~panicked /\ ~Recovering /\ pc[p] \in {"out", "begin"}
    /\ \/ /\ committing \/ Full
          /\ pc' = [pc EXCEPT ![p] = "asleep"]
          /\ UNCHANGED <<wrote, outstanding>>
       \/ /\ ~committing /\ ~Full
          /\ outstanding' = outstanding + 1
          /\ pc' = [pc EXCEPT ![p] = "in"]
          /\ wrote' = [wrote EXCEPT ![p] = {}]
    /\ UNCHANGED <<held, committing, lh, phase, tail, cvars, dvars, panicked,
                   crashes>>

\* The call reads block b, changes its buffer and enters log_write(), which
\* tests for room before it takes log.lock.
Modify(p, b, v) ==
    /\ ~panicked /\ pc[p] = "in"
    /\ \A q \in Proc : held[q] # b
    /\ Cardinality(wrote[p] \cup {b}) <= OpBlocks
    /\ cache' = [cache EXCEPT ![b] = v]
    /\ \/ /\ Len(lh) >= LOGSIZE \/ Len(lh) >= Size - 1
          /\ panicked' = TRUE
          /\ UNCHANGED <<pc, held>>
       \/ /\ Len(lh) < LOGSIZE /\ Len(lh) < Size - 1
          /\ pc' = [pc EXCEPT ![p] = "log_write"]
          /\ held' = [held EXCEPT ![p] = b]
          /\ UNCHANGED panicked
    /\ UNCHANGED <<wrote, outstanding, committing, lh, phase, tail, dirty,
                   dvars, crashes>>

\* Variant: the buffer is not marked B_DIRTY.
Record_NoPin(p) ==
    LET b == held[p] IN
    /\ ~panicked /\ pc[p] = "log_write"
    /\ lh' = IF b \in Range(lh) THEN lh ELSE Append(lh, b)
    /\ wrote' = [wrote EXCEPT ![p] = @ \cup {b}]
    /\ pc' = [pc EXCEPT ![p] = "in"]
    /\ held' = [held EXCEPT ![p] = NoBlock]
    /\ UNCHANGED <<outstanding, committing, phase, tail, cvars, dvars,
                   panicked, crashes>>

\* The critical section of log_write(), with absorption, and brelse().
Record(p) ==
    LET b == held[p] IN
    /\ ~panicked /\ pc[p] = "log_write"
    /\ lh' = IF b \in Range(lh) THEN lh ELSE Append(lh, b)
    /\ dirty' = dirty \cup {b}
    /\ wrote' = [wrote EXCEPT ![p] = @ \cup {b}]
    /\ pc' = [pc EXCEPT ![p] = "in"]
    /\ held' = [held EXCEPT ![p] = NoBlock]
    /\ UNCHANGED <<outstanding, committing, phase, tail, cache, dvars,
                   panicked, crashes>>

\* Variants: end_op() wakes nobody unless it commits; it forgets to count.
EndOp_NoWake(p) ==
    /\ ~panicked /\ pc[p] = "in"
    /\ outstanding' = outstanding - 1
    /\ \/ /\ outstanding = 1
          /\ committing' = TRUE
          /\ pc' = [pc EXCEPT ![p] = "commit"]
          /\ phase' = IF lh = <<>> THEN "wake" ELSE "write_log"
          /\ tail' = 1
       \/ /\ outstanding # 1
          /\ pc' = [pc EXCEPT ![p] = "out"]
          /\ UNCHANGED <<committing, phase, tail>>
    /\ UNCHANGED <<held, wrote, lh, cvars, dvars, panicked, crashes>>

EndOp_NoCount(p) ==
    /\ ~panicked /\ pc[p] = "in"
    /\ pc' = [Woken(pc) EXCEPT ![p] = "out"]
    /\ UNCHANGED <<held, wrote, outstanding, committing, lh, phase, tail, cvars,
                   dvars, panicked, crashes>>

\* end_op() up to the first step of commit(), which does nothing when no
\* block was logged.
EndOp(p) ==
    /\ ~panicked /\ pc[p] = "in"
    /\ outstanding' = outstanding - 1
    /\ \/ /\ outstanding = 1
          /\ committing' = TRUE
          /\ pc' = [pc EXCEPT ![p] = "commit"]
          /\ phase' = IF lh = <<>> THEN "wake" ELSE "write_log"
          /\ tail' = 1
       \/ /\ outstanding # 1
          /\ pc' = [Woken(pc) EXCEPT ![p] = "out"]
          /\ UNCHANGED <<committing, phase, tail>>
    /\ UNCHANGED <<held, wrote, lh, cvars, dvars, panicked, crashes>>

----------------------------------------------------------------------------
(* commit(), one disk write at a time                                      *)

\* The loops of write_log() and install_trans() go on, or end.
NextTail(after) ==
    IF tail < Len(lh) THEN tail' = tail + 1 /\ UNCHANGED phase
                      ELSE tail' = 1 /\ phase' = after

\* One turn of write_log().
WriteLog ==
    LET b == lh[tail] IN
    /\ ~panicked /\ phase = "write_log"
    /\ logdisk' = [logdisk EXCEPT ![tail] = Bread(b)]
    /\ cache' = [cache EXCEPT ![b] = Bread(b)]
    /\ NextTail("write_head")
    /\ UNCHANGED <<mvars, lh, dirty, disk, hdr, panicked, crashes>>

\* write_head(): the transaction commits.
WriteHead ==
    /\ ~panicked /\ phase = "write_head"
    /\ hdr' = lh
    /\ phase' = "install"
    /\ UNCHANGED <<mvars, lh, tail, cvars, disk, logdisk, panicked, crashes>>

\* One turn of install_trans(), of commit() or of recovery.  The write
\* clears B_DIRTY.
Install ==
    LET b == lh[tail] IN
    /\ ~panicked /\ phase = "install"
    /\ disk' = [disk EXCEPT ![b] = logdisk[tail]]
    /\ cache' = [cache EXCEPT ![b] = logdisk[tail]]
    /\ dirty' = dirty \ {b}
    /\ NextTail("erase")
    /\ UNCHANGED <<mvars, lh, logdisk, hdr, panicked, crashes>>

\* log.lh.n = 0 and write_head().
Erase ==
    /\ ~panicked /\ phase = "erase"
    /\ lh' = <<>> /\ hdr' = <<>>
    /\ phase' = IF committing THEN "wake" ELSE "idle"
    /\ UNCHANGED <<mvars, tail, cvars, disk, logdisk, panicked, crashes>>

\* Variant: the waiters are not woken.
Wake_Silent(p) ==
    /\ ~panicked /\ phase = "wake" /\ pc[p] = "commit"
    /\ committing' = FALSE
    /\ phase' = "idle"
    /\ pc' = [pc EXCEPT ![p] = "out"]
    /\ UNCHANGED <<held, wrote, outstanding, lh, tail, cvars, dvars, panicked,
                   crashes>>

\* The end of end_op() after commit().
Wake(p) ==
    /\ ~panicked /\ phase = "wake" /\ pc[p] = "commit"
    /\ committing' = FALSE
    /\ phase' = "idle"
    /\ pc' = [Woken(pc) EXCEPT ![p] = "out"]
    /\ UNCHANGED <<held, wrote, outstanding, lh, tail, cvars, dvars, panicked,
                   crashes>>

----------------------------------------------------------------------------
(* The buffer cache, crashes, recovery                                     *)

\* A reader outside of any transaction: bread() and brelse().
Read(b) ==
    /\ ~panicked /\ ~Recovering
    /\ \A q \in Proc : held[q] # b
    /\ cache[b] = Absent
    /\ cache' = [cache EXCEPT ![b] = disk[b]]
    /\ UNCHANGED <<mvars, lh, phase, tail, dirty, dvars, panicked, crashes>>

\* bget() recycles the buffer of b.
Evict(b) ==
    /\ ~panicked
    /\ cache[b] # Absent /\ b \notin dirty
    /\ \A q \in Proc : held[q] # b
    /\ cache' = [cache EXCEPT ![b] = Absent]
    /\ UNCHANGED <<mvars, lh, phase, tail, dirty, dvars, panicked, crashes>>

\* Power failure or, after a panic, the reset button: the disk remains.
Crash ==
    /\ crashes < MaxCrashes
    /\ crashes' = crashes + 1
    /\ pc' = [p \in Proc |-> "out"]
    /\ held' = [p \in Proc |-> NoBlock]
    /\ wrote' = [p \in Proc |-> {}]
    /\ outstanding' = 0 /\ committing' = FALSE
    /\ lh' = <<>>
    /\ phase' = "read_head" /\ tail' = 1
    /\ cache' = [b \in Block |-> Absent] /\ dirty' = {}
    /\ panicked' = FALSE
    /\ UNCHANGED dvars

\* recover_from_log() up to its call of install_trans().
ReadHead ==
    /\ ~panicked /\ phase = "read_head"
    /\ lh' = hdr
    /\ phase' = IF hdr = <<>> THEN "erase" ELSE "install"
    /\ UNCHANGED <<mvars, tail, cvars, dvars, panicked, crashes>>

----------------------------------------------------------------------------
Call(p) ==
    \/ BeginOp(p) \/ Record(p) \/ EndOp(p) \/ Wake(p)
    \/ \E b \in Block, v \in Data : Modify(p, b, v)

DiskStep == WriteLog \/ WriteHead \/ Install \/ Erase \/ ReadHead

\* After a panic only the reset button works.
Halted == panicked /\ UNCHANGED vars

Next ==
    \/ \E p \in Proc : Call(p)
    \/ DiskStep
    \/ \E b \in Block : Read(b) \/ Evict(b)
    \/ Crash \/ Halted

Spec == Init /\ [][Next]_vars

----------------------------------------------------------------------------
(* Properties                                                              *)

\* The home blocks after a crash now and the recovery of the next boot.
Recovered ==
    [b \in Block |-> IF b \in Range(hdr)
                     THEN logdisk[CHOOSE i \in DOMAIN hdr : hdr[i] = b]
                     ELSE disk[b]]

\* The home blocks as bread() shows them to the system calls, which do not
\* run before recovery is over.
View == IF Recovering THEN Recovered ELSE [b \in Block |-> Bread(b)]

Active == {p \in Proc : pc[p] \in {"in", "log_write"}}

\* The log implements a disk on which a crash undoes whole transactions only,
\* whenever it happens: in the middle of a system call, of write_log(), of
\* install_trans() or of a recovery.
Atomic == INSTANCE AtomicDisk WITH mem <- View, durable <- Recovered,
                                   active <- Active
ImplementsAtomicDisk == Atomic!Spec

\* When the last outstanding end_op() has returned, everything written so far
\* survives a crash.
IdleMeansDurable == phase = "idle" /\ Active = {} => Recovered = View

\* A process sleeps in begin_op() only while a commit is under way or the log
\* is short of space: no wakeup(&log) is lost or missing.
SleepersHaveReason ==
    \A p \in Proc : pc[p] = "asleep" => committing \/ Full

\* The reservation of begin_op(): the calls admitted so far, each with the
\* blocks it may still log, fit in lh.block[LOGSIZE].
Left(S) == MAXOPBLOCKS * Cardinality(S)
LoggedBy == {x \in Proc \X Block : x[1] \in Active /\ x[2] \in wrote[x[1]]}
ReservationHolds ==
    Len(lh) + Left(Active) - Cardinality(LoggedBy) <= LOGSIZE

\* The log never outgrows its blocks on the disk, which is what log_write()
\* tests: write_log() never writes past the end of the log, onto the inodes.
LogFits == Len(lh) <= Size - 1

\* Processes go on executing, file system calls end and disk writes complete.
Fairness ==
    /\ \A p \in Proc :
        /\ WF_vars(pc[p] # "out" /\ BeginOp(p)) /\ WF_vars(Record(p))
        /\ SF_vars(EndOp(p)) /\ WF_vars(Wake(p))
    /\ WF_vars(DiskStep)

FairSpec == Spec /\ Fairness

\* A process that sleeps in begin_op() does not sleep for ever, unless the
\* kernel panics.
SleepersWake ==
    \A p \in Proc : pc[p] = "asleep" ~> pc[p] # "asleep" \/ panicked
====
