------------------------------- MODULE Bcache -------------------------------
(***************************************************************************)
(* The buffer cache of bio.c, its sleep locks (sleeplock.c) and the disk   *)
(* drivers below it: ide.c, with its request queue and its interrupt, and  *)
(* memide.c, which copies at once.                                         *)
(*                                                                         *)
(* Grain.  A step is what runs under one spin lock: bcache.lock in bget()  *)
(* and brelse(), the lock inside a sleep lock, idelock in iderw() and      *)
(* ideintr().  A process in sleep() is "..._sleep" and runs again only     *)
(* after a wakeup() on its channel.                                        *)
(***************************************************************************)
EXTENDS Integers, Sequences, FiniteSets

CONSTANTS
    Thread,             \* processes that use the cache
    NBUF,
    Block,              \* block numbers of the disk
    Sector,             \* contents of a block
    Stores(_),          \* bound: the contents a block may get
    Nil

Buf == 1..NBUF

ASSUME BcacheAssumption ==
    /\ NBUF \in Nat /\ IsFiniteSet(Thread)
    /\ Nil \notin Thread /\ Nil \notin Block /\ Nil \notin Buf
    /\ \A n \in Block : Stores(n) \subseteq Sector

VARIABLES
    driver,             \* "ide" or "mem": the driver of this kernel
    buf,                \* blockno, flags, refcnt and data of each buffer
    lock,               \* who holds the sleep lock of each buffer
    mru,                \* the list from bcache.head.next to head.prev
    idequeue,
    disk,
    doing, want, has,   \* of each process: step, block asked for, buffer
    nobuffers           \* panic("bget: no buffers")

bcacheVars == <<driver, buf, lock, mru, idequeue, disk, doing, want, has, nobuffers>>

Buffers == [blockno : Block \cup {Nil}, valid : BOOLEAN, dirty : BOOLEAN,
            refcnt : Nat, data : Sector]

BcachePoints == {"idle", "lock", "lock_sleep", "bread", "io", "io_sleep", "using",
                 "drop"}

BcacheTypeOK ==
    /\ driver \in {"ide", "mem"}
    /\ buf \in [Buf -> Buffers]
    /\ lock \in [Buf -> Thread \cup {Nil}]
    /\ mru \in [Buf -> Buf] /\ idequeue \in Seq(Buf)
    /\ disk \in [Block -> Sector]
    /\ doing \in [Thread -> BcachePoints]
    /\ want \in [Thread -> Block \cup {Nil}]
    /\ has \in [Thread -> Buf \cup {Nil}]
    /\ nobuffers \in BOOLEAN

\* binit(): each buffer goes to the front of the list.
BcacheInit ==
    \E d \in Sector :
        /\ driver \in {"ide", "mem"}
        /\ buf = [b \in Buf |-> [blockno |-> Nil, valid |-> FALSE,
                                 dirty |-> FALSE, refcnt |-> 0, data |-> d]]
        /\ lock = [b \in Buf |-> Nil]
        /\ mru = [i \in Buf |-> NBUF + 1 - i]
        /\ idequeue = <<>>
        /\ disk \in [Block -> Sector] /\ \A n \in Block : disk[n] \in Stores(n)
        /\ doing = [p \in Thread |-> "idle"]
        /\ want = [p \in Thread |-> Nil] /\ has = [p \in Thread |-> Nil]
        /\ nobuffers = FALSE

\* wakeup() of the processes that sleep on buffer b at this point.
Wake(pcs, b, from, to) ==
    [p \in Thread |-> IF pcs[p] = from /\ has[p] = b THEN to ELSE pcs[p]]

----------------------------------------------------------------------------
(* bget()                                                                  *)

Cached(n) == {b \in Buf : buf[b].blockno = n}

\* Variant: a dirty buffer is recycled too.
Recyclable_Dirty == {i \in Buf : buf[mru[i]].refcnt = 0}

\* Positions in the list of the buffers bget() may recycle; it takes the one
\* nearest the end.  Dirty ones wait for the log.
Recyclable == {i \in Buf : buf[mru[i]].refcnt = 0 /\ ~buf[mru[i]].dirty}

\* Variant: the buffer found is not counted.
BgetHit_NoRef(p, n) ==
    \E b \in Cached(n) :
        /\ has' = [has EXCEPT ![p] = b]
        /\ doing' = [doing EXCEPT ![p] = "lock"]
        /\ UNCHANGED <<buf, nobuffers>>

\* The first loop of bget(): the block is cached.
BgetHit(p, n) ==
    \E b \in Cached(n) :
        /\ buf' = [buf EXCEPT ![b].refcnt = @ + 1]
        /\ has' = [has EXCEPT ![p] = b]
        /\ doing' = [doing EXCEPT ![p] = "lock"]
        /\ UNCHANGED nobuffers

\* The second loop, and the panic after it.
BgetMiss(p, n) ==
    /\ Cached(n) = {}
    /\ \/ \E i \in Recyclable :
            /\ \A j \in Recyclable : j <= i
            /\ buf' = [buf EXCEPT ![mru[i]] =
                        [blockno |-> n, valid |-> FALSE, dirty |-> FALSE,
                         refcnt |-> 1, data |-> @.data]]
            /\ has' = [has EXCEPT ![p] = mru[i]]
            /\ doing' = [doing EXCEPT ![p] = "lock"]
            /\ UNCHANGED nobuffers
       \/ Recyclable = {} /\ nobuffers' = TRUE /\ UNCHANGED <<buf, has, doing>>

Bget(p, n) ==
    /\ doing[p] = "idle"
    /\ want' = [want EXCEPT ![p] = n]
    /\ BgetHit(p, n) \/ BgetMiss(p, n)
    /\ UNCHANGED <<driver, lock, mru, idequeue, disk>>

----------------------------------------------------------------------------
(* sleeplock.c                                                             *)

\* One turn of the loop of acquiresleep().
Acquiresleep(p) ==
    LET b == has[p] IN
    /\ doing[p] = "lock"
    /\ \/ /\ lock[b] = Nil
          /\ lock' = [lock EXCEPT ![b] = p]
          /\ doing' = [doing EXCEPT ![p] = "bread"]
       \/ /\ lock[b] # Nil
          /\ doing' = [doing EXCEPT ![p] = "lock_sleep"]
          /\ UNCHANGED lock
    /\ UNCHANGED <<driver, buf, mru, idequeue, disk, want, has, nobuffers>>

\* Variant: nobody is woken.
Releasesleep_NoWake(p) ==
    /\ lock' = [lock EXCEPT ![has[p]] = Nil]
    /\ doing' = [doing EXCEPT ![p] = "drop"]

Releasesleep(p) ==
    /\ lock' = [lock EXCEPT ![has[p]] = Nil]
    /\ doing' = Wake([doing EXCEPT ![p] = "drop"], has[p], "lock_sleep", "lock")

----------------------------------------------------------------------------
(* The drivers                                                             *)

\* Buffer b after a transfer that found it as r, and the disk.
Done(r, d) == [r EXCEPT !.valid = TRUE, !.dirty = FALSE,
                        !.data = IF r.dirty THEN @ ELSE d[r.blockno]]
Stored(r, d) == IF r.dirty THEN [d EXCEPT ![r.blockno] = r.data] ELSE d

\* iderw() of ide.c, of a buffer that is r by now: it joins the queue.
IdeAppend(p, r) ==
    /\ driver = "ide"
    /\ buf' = [buf EXCEPT ![has[p]] = r]
    /\ idequeue' = Append(idequeue, has[p])
    /\ doing' = [doing EXCEPT ![p] = "io_sleep"]
    /\ UNCHANGED disk

\* iderw() of memide.c.
MemCopy(p, r) ==
    /\ driver = "mem"
    /\ buf' = [buf EXCEPT ![has[p]] = Done(r, disk)]
    /\ disk' = Stored(r, disk)
    /\ doing' = [doing EXCEPT ![p] = "using"]
    /\ UNCHANGED idequeue

Iderw(p, r) == IdeAppend(p, r) \/ MemCopy(p, r)

\* ideintr(): the disk is done with the first request.
Ideintr ==
    /\ idequeue # <<>> /\ ~nobuffers
    /\ LET b == Head(idequeue) IN
        /\ idequeue' = Tail(idequeue)
        /\ buf' = [buf EXCEPT ![b] = Done(@, disk)]
        /\ disk' = Stored(buf[b], disk)
        /\ doing' = Wake(doing, b, "io_sleep", "io")
    /\ UNCHANGED <<driver, lock, mru, want, has, nobuffers>>

\* Variant: it spins, and on the flag that ideintr() clears.
IderwLoop_Dirty(p) ==
    /\ doing[p] = "io"
    /\ doing' = [doing EXCEPT ![p] = IF buf[has[p]].dirty THEN "using" ELSE "io"]
    /\ UNCHANGED <<driver, buf, lock, mru, idequeue, disk, want, has, nobuffers>>

\* The test of the loop in iderw() after sleep().
IderwLoop(p) ==
    LET r == buf[has[p]] IN
    /\ doing[p] = "io"
    /\ doing' = [doing EXCEPT ![p] = IF r.valid /\ ~r.dirty THEN "using"
                               ELSE "io_sleep"]
    /\ UNCHANGED <<driver, buf, lock, mru, idequeue, disk, want, has, nobuffers>>

----------------------------------------------------------------------------
(* bread(), bwrite(), log_write(), brelse()                                *)

Bread(p) ==
    LET r == buf[has[p]] IN
    /\ doing[p] = "bread"
    /\ \/ /\ r.valid
          /\ doing' = [doing EXCEPT ![p] = "using"]
          /\ UNCHANGED <<buf, idequeue, disk>>
       \/ ~r.valid /\ Iderw(p, r)
    /\ UNCHANGED <<driver, lock, mru, want, has, nobuffers>>

\* The process stores v in the buffer and writes it to the disk.
Bwrite(p, v) ==
    /\ doing[p] = "using"
    /\ Iderw(p, [buf[has[p]] EXCEPT !.data = v, !.dirty = TRUE])
    /\ UNCHANGED <<driver, lock, mru, want, has, nobuffers>>

\* The process stores v and leaves the write to the log.
LogWrite(p, v) ==
    /\ doing[p] = "using"
    /\ buf' = [buf EXCEPT ![has[p]].data = v, ![has[p]].dirty = TRUE]
    /\ UNCHANGED <<driver, lock, mru, idequeue, disk, doing, want, has, nobuffers>>

\* The first half of brelse(), up to bcache.lock.
BrelseUnlock(p) ==
    /\ doing[p] = "using"
    /\ Releasesleep(p)
    /\ UNCHANGED <<driver, buf, mru, idequeue, disk, want, has, nobuffers>>

\* The list with buffer b moved to its head.
ToFront(b) ==
    LET k == CHOOSE j \in Buf : mru[j] = b IN
    [i \in Buf |-> IF i = 1 THEN b ELSE IF i <= k THEN mru[i - 1] ELSE mru[i]]

\* The second half: the last user moves the buffer to the head of the list.
Brelse(p) ==
    LET b == has[p] IN
    /\ doing[p] = "drop"
    /\ buf' = [buf EXCEPT ![b].refcnt = @ - 1]
    /\ mru' = IF buf[b].refcnt = 1 THEN ToFront(b) ELSE mru
    /\ doing' = [doing EXCEPT ![p] = "idle"]
    /\ want' = [want EXCEPT ![p] = Nil] /\ has' = [has EXCEPT ![p] = Nil]
    /\ UNCHANGED <<driver, lock, idequeue, disk, nobuffers>>

----------------------------------------------------------------------------
\* What a process does without choosing to.
Goes(p) ==
    ~nobuffers /\ (Acquiresleep(p) \/ Bread(p) \/ IderwLoop(p) \/ Brelse(p))

BcacheStep(p) ==
    \/ Goes(p)
    \/ /\ ~nobuffers
       /\ \/ \E n \in Block : Bget(p, n)
          \/ \E v \in Stores(want[p]) : Bwrite(p, v) \/ LogWrite(p, v)
          \/ BrelseUnlock(p)

BcacheHalted == nobuffers /\ UNCHANGED bcacheVars

BcacheNext == Ideintr \/ (\E p \in Thread : BcacheStep(p)) \/ BcacheHalted

\* The disk answers and runnable processes run.
BcacheFairness == WF_bcacheVars(Ideintr) /\ \A p \in Thread : WF_bcacheVars(Goes(p))

BcacheSpec == BcacheInit /\ [][BcacheNext]_bcacheVars
BcacheFairSpec == BcacheSpec /\ BcacheFairness

----------------------------------------------------------------------------
(* Properties                                                              *)

\* bget() never leaves two buffers for one block, whatever is recycled while
\* processes wait for buffers, and every reference is that of a process.
OneBufferPerBlock ==
    /\ \A b, c \in Buf : buf[b].blockno = buf[c].blockno
                         /\ buf[b].blockno # Nil => b = c
    /\ \A b \in Buf : buf[b].refcnt = Cardinality({p \in Thread : has[p] = b})

\* A process that waited for a buffer and uses it has it alone, finds in it
\* the block it asked for, and read from the disk.
GetsItsBlock ==
    \A p \in Thread :
        /\ doing[p] # "idle" => buf[has[p]].blockno = want[p]
        /\ doing[p] \in {"bread", "io", "io_sleep", "using"} => lock[has[p]] = p
        /\ doing[p] = "using" => buf[has[p]].valid

\* No wakeup() is lost: a process sleeps on a buffer's lock only while it is
\* held, and in iderw() only while its request is queued.
BufSleepersHaveReason ==
    \A p \in Thread :
        /\ doing[p] = "lock_sleep" => lock[has[p]] # Nil
        /\ doing[p] = "io_sleep" => \E i \in DOMAIN idequeue : idequeue[i] = has[p]

\* Who uses a block, and what its users find in it.
Holder == [n \in Block |->
    IF Cached(n) # {} THEN lock[CHOOSE b \in Cached(n) : TRUE] ELSE Nil]
Content == [n \in Block |->
    IF \E b \in Cached(n) : buf[b].valid
    THEN buf[CHOOSE b \in Cached(n) : TRUE].data ELSE disk[n]]
Store == INSTANCE BlockStore WITH
    Proc <- Thread, Data <- Sector, None <- Nil, holder <- Holder, content <- Content

\* The cache is a disk to its users, one per block at a time: recycling a
\* buffer, reading it again and the order of the requests never undo or mix up
\* what was stored.
ImplementsBlockStore == Store!Spec

\* Every request to the disk is answered, unless the kernel panics.
RequestsAnswered ==
    \A p \in Thread : doing[p] = "io_sleep" ~> doing[p] = "using" \/ nobuffers
====
