------------------------------ MODULE LogSteps -------------------------------
(***************************************************************************)
(* The inductive invariant of Log, and that it is preserved by the steps   *)
(* of commit() and recovery, of the buffers, of a crash, and of the calls  *)
(* up to log_write().                                                      *)
(*                                                                         *)
(* The argument: B_DIRTY buffers are those of the blocks in log.lh, so     *)
(* that all other buffers are copies of the disk; write_log() copies the   *)
(* dirty ones to the log before the header names them; install_trans()     *)
(* makes disk and log agree before the header is cleared; and the blocks   *)
(* that the admitted calls have reserved bound the length of log.lh.       *)
(***************************************************************************)
EXTENDS Log, Counting, TLAPS

\* The provers' time for each leaf.
USE SMTT(60), ZenonT(60)

LogPoints == {"out", "begin", "asleep", "in", "log_write", "commit"}
Commits == {"write_log", "write_head", "install", "erase", "wake"}
Recovers == {"read_head", "install", "erase"}

LogTypeOK ==
    /\ pc \in [Proc -> LogPoints]
    /\ held \in [Proc -> Block \cup {NoBlock}]
    /\ wrote \in [Proc -> SUBSET Block]
    /\ outstanding \in Nat /\ committing \in BOOLEAN
    /\ lh \in Seq(Block) /\ hdr \in Seq(Block)
    /\ phase \in Commits \cup Recovers \cup {"idle"} /\ tail \in Nat
    /\ cache \in [Block -> Data \cup {Absent}] /\ dirty \in SUBSET Block
    /\ disk \in [Block -> Data] /\ logdisk \in [Slots -> Data]
    /\ panicked \in BOOLEAN /\ crashes \in Nat

\* Who is where: recovery runs alone, a commit while no call is active.
Control ==
    /\ outstanding = Cardinality(Active)
    /\ committing => phase \in Commits /\ Active = {}
    /\ ~committing => phase \in Recovers \cup {"idle"}
    /\ Recovering => \A p \in Proc : pc[p] = "out"
    /\ \A p \in Proc : pc[p] = "commit" => committing
    /\ \A p, q \in Proc : pc[p] = "commit" /\ pc[q] = "commit" => p = q
    /\ panicked => Active # {}

\* The buffers that calls have locked.
Holding ==
    /\ \A p \in Proc : pc[p] = "log_write" <=> held[p] # NoBlock
    /\ \A p, q \in Proc : held[p] = held[q] /\ held[p] # NoBlock => p = q
    /\ \A p \in Proc : held[p] # NoBlock =>
        cache[held[p]] # Absent /\ Cardinality(wrote[p] \cup {held[p]}) <= MAXOPBLOCKS
    /\ \A p \in Active : wrote[p] \subseteq Range(lh)
                         /\ Cardinality(wrote[p]) <= MAXOPBLOCKS

\* The log in memory and its header, which names each block once.
Once(s) == \A i, j \in 1..Len(s) : s[i] = s[j] => i = j
Heads ==
    /\ Once(lh) /\ Once(hdr) /\ Len(hdr) <= LOGSIZE
    /\ phase \in {"idle", "write_log", "write_head", "wake"} => hdr = <<>>
    /\ phase \in {"install", "erase"} => hdr = lh
    /\ phase \in {"read_head", "wake"} => lh = <<>>
    /\ phase = "idle" /\ Active = {} => lh = <<>>
    /\ phase \in {"read_head", "write_head"} => tail = 1
    /\ phase \in {"write_log", "install"} => tail \in 1..Len(lh)
    /\ phase = "write_head" => lh # <<>>

\* Which buffers are dirty; the others, unless locked, are copies.
Dirty ==
    /\ \A b \in dirty : cache[b] # Absent /\ b \in Range(lh)
    /\ phase \in {"idle", "write_log", "write_head"} => Range(lh) \subseteq dirty
    /\ phase = "install" /\ committing => \A i \in tail..Len(lh) : lh[i] \in dirty
    /\ phase = "install" => \A i \in 1..(tail - 1) : lh[i] \notin dirty
    /\ phase = "erase" \/ Recovering => dirty = {}
    /\ ~panicked => \A b \in Block \ dirty :
        (\A p \in Proc : held[p] # b) => cache[b] \in {Absent, disk[b]}

\* How far write_log() and install_trans() are.
Written ==
    /\ phase = "write_log" => \A i \in 1..(tail - 1) : logdisk[i] = cache[lh[i]]
    /\ phase = "write_head" => \A i \in 1..Len(lh) : logdisk[i] = cache[lh[i]]
    /\ phase = "install" /\ committing =>
        \A i \in tail..Len(lh) : logdisk[i] = cache[lh[i]]
    /\ phase = "install" => \A i \in 1..(tail - 1) : logdisk[i] = disk[lh[i]]
    /\ phase = "erase" => \A i \in 1..Len(lh) : logdisk[i] = disk[lh[i]]

LogInv ==
    /\ LogTypeOK /\ Control /\ Holding /\ Heads /\ Dirty /\ Written
    /\ SleepersHaveReason /\ ReservationHolds

----------------------------------------------------------------------------
\* The sizes that the proofs compare.
LogCounts ==
    Counts(Proc) /\ Counts(Block) /\ Counts(Proc \X Block) /\ CountsRows(Proc, Block)

LEMMA CountNone ==
    ASSUME LogCounts
    PROVE  Cardinality({}) = 0
BY Zenon DEF LogCounts, Counts

\* Adding a process to a set of them and taking one away.
LEMMA CountCalls ==
    ASSUME LogCounts, NEW S \in SUBSET Proc
    PROVE  /\ Cardinality(S) \in Nat
           /\ Cardinality(S) = 0 <=> S = {}
           /\ \A p \in Proc : p \notin S => Cardinality(S \cup {p}) = Cardinality(S) + 1
           /\ \A p \in S : Cardinality(S \ {p}) = Cardinality(S) - 1
BY Zenon DEF LogCounts, Counts

\* The pairs of a call and a block it logged.
LEMMA CountLogged ==
    ASSUME LogCounts, NEW S \in SUBSET (Proc \X Block)
    PROVE  /\ Cardinality(S) \in Nat
           /\ \A x \in Proc \X Block :
                Cardinality(S \cup {x}) =
                    IF x \in S THEN Cardinality(S) ELSE Cardinality(S) + 1
<1>1. \A x \in S : S \cup {x} = S
  OBVIOUS
<1>2. QED
  BY Zenon, <1>1 DEF LogCounts, Counts

\* The blocks of a header.
LEMMA HeadBlocks ==
    ASSUME NEW s \in Seq(Block)
    PROVE  /\ Len(s) \in Nat /\ DOMAIN s = 1..Len(s)
           /\ \A i \in 1..Len(s) : s[i] \in Block /\ s[i] \in Range(s)
           /\ \A b : b \in Range(s) => b \in Block /\ \E i \in 1..Len(s) : s[i] = b
           /\ s = <<>> <=> Len(s) = 0
           /\ s = <<>> => Range(s) = {}
BY DEF Range

LEMMA NoHead == <<>> \in Seq(Block) /\ Len(<<>>) = 0 /\ Range(<<>>) = {} /\ Once(<<>>)
BY DEF Range, Once

\* mkfs leaves an empty log.
LEMMA LogStarts ==
    ASSUME LogCounts, Init
    PROVE  LogInv
<1>1. LogTypeOK
  <2>1. /\ pc \in [Proc -> LogPoints] /\ held \in [Proc -> Block \cup {NoBlock}]
        /\ wrote \in [Proc -> SUBSET Block] /\ outstanding \in Nat
        /\ lh \in Seq(Block) /\ hdr \in Seq(Block)
        /\ phase \in Commits \cup Recovers \cup {"idle"} /\ tail \in Nat
    BY DEF Init, LogPoints, Recovers
  <2>2. /\ cache \in [Block -> Data \cup {Absent}] /\ dirty \in SUBSET Block
        /\ disk \in [Block -> Data] /\ logdisk \in [Slots -> Data] /\ crashes \in Nat
    BY Zenon, LogAssumption DEF Init
  <2>3. QED
    BY Zenon, <2>1, <2>2 DEF Init, LogTypeOK
<1>2. Active = {} /\ Cardinality(Active) = 0
  BY Zenon, CountNone DEF Init, Active
<1>3. Control /\ Holding
  BY Zenon, <1>2 DEF Init, Control, Holding, Recovers
<1>4. Heads /\ Dirty /\ Written
  BY LogAssumption DEF Init, Heads, Once, Dirty, Written
<1>5. SleepersHaveReason /\ ReservationHolds
  <2>1. LoggedBy = {} /\ Cardinality(LoggedBy) = 0
    BY Zenon, <1>2 DEF LoggedBy
  <2>2. SleepersHaveReason
    BY Zenon DEF Init, SleepersHaveReason
  <2>3. QED
    BY <1>2, <2>1, <2>2, LogAssumption DEF Init, ReservationHolds, Left
<1>6. QED
  BY Zenon, <1>1, <1>3, <1>4, <1>5 DEF LogInv

----------------------------------------------------------------------------
(* The steps of commit() and of recovery.                                  *)

LEMMA SameCalls ==
    ASSUME UNCHANGED mvars
    PROVE  Active' = Active /\ LoggedBy' = LoggedBy
BY Zenon DEF mvars, Active, LoggedBy

\* While no call is active the reservation says that the log fits.
LEMMA QuietFits ==
    ASSUME LogCounts, LogInv, Active = {}
    PROVE  Len(lh) <= LOGSIZE
<1>1. LoggedBy = {}
  BY Zenon DEF LoggedBy
<1>2. Cardinality({}) = 0
  BY Zenon, CountNone
<1>3. Len(lh) \in Nat
  OBVIOUS
<1>4. QED
  BY <1>1, <1>2, LogAssumption DEF LogInv, ReservationHolds, Left

\* No call is active in a disk step, and no buffer is locked.
LEMMA Quiet ==
    ASSUME LogCounts, LogInv, phase # "idle"
    PROVE  Active = {} /\ Len(lh) <= LOGSIZE /\ \A p \in Proc : held[p] = NoBlock
<1>1. Active = {}
  BY Zenon DEF LogInv, Control, Recovering, Active
<1>2. \A p \in Proc : held[p] = NoBlock
  BY Zenon, <1>1 DEF LogInv, Holding, Active
<1>3. QED
  BY Zenon, <1>1, <1>2, QuietFits

\* What depends on the calls alone, when the log does not shrink.
LEMMA CallsKept ==
    ASSUME LogInv, UNCHANGED <<mvars, lh>>
    PROVE  SleepersHaveReason' /\ ReservationHolds' /\ outstanding' = Cardinality(Active)'
<1>1. Active' = Active /\ LoggedBy' = LoggedBy
  BY Zenon, SameCalls
<1>2. ReservationHolds'
  BY Zenon, <1>1 DEF LogInv, ReservationHolds
<1>3. SleepersHaveReason' /\ outstanding' = Cardinality(Active)'
  BY Zenon, <1>1 DEF LogInv, SleepersHaveReason, Full, Control, mvars
<1>4. QED
  BY Zenon, <1>2, <1>3

\* write_log() copies a dirty buffer; the buffer is there, so bread() does not
\* read the disk.
LEMMA WriteLogKeeps ==
    ASSUME LogCounts, LogInv, WriteLog
    PROVE  LogInv'
<1>0. /\ phase = "write_log" /\ ~panicked /\ NextTail("write_head")
      /\ UNCHANGED <<mvars, lh, dirty, disk, hdr, panicked, crashes>>
      /\ logdisk' = [logdisk EXCEPT ![tail] = Bread(lh[tail])]
      /\ cache' = [cache EXCEPT ![lh[tail]] = Bread(lh[tail])]
  BY Zenon DEF WriteLog
<1>1. /\ committing /\ Active = {} /\ Len(lh) \in Nat /\ Len(lh) <= LOGSIZE
      /\ \A p \in Proc : held[p] = NoBlock
  BY <1>0, Quiet DEF LogInv, Control, Recovers
<1>2. tail \in 1..Len(lh) /\ tail \in Slots /\ lh[tail] \in Block /\ lh[tail] \in dirty
  BY <1>0, <1>1, LogAssumption, HeadBlocks DEF LogInv, LogTypeOK, Heads, Dirty, Slots
<1>3. Bread(lh[tail]) = cache[lh[tail]] /\ cache[lh[tail]] \in Data
  BY Zenon, <1>2 DEF Bread, LogInv, LogTypeOK, Dirty
<1>4. UNCHANGED cache
  BY Zenon, <1>0, <1>3 DEF LogInv, LogTypeOK
<1>5. /\ logdisk' \in [Slots -> Data] /\ logdisk'[tail] = cache[lh[tail]]
      /\ \A i \in Slots \ {tail} : logdisk'[i] = logdisk[i]
  BY Zenon, <1>0, <1>2, <1>3 DEF LogInv, LogTypeOK
<1>6. \/ tail < Len(lh) /\ tail' = tail + 1 /\ phase' = "write_log"
      \/ tail = Len(lh) /\ tail' = 1 /\ phase' = "write_head"
  BY <1>0, <1>2 DEF NextTail
<1>7. LogTypeOK'
  BY <1>0, <1>5, <1>6, <1>2 DEF LogInv, LogTypeOK, mvars, Commits
<1>8. SleepersHaveReason' /\ ReservationHolds' /\ outstanding' = Cardinality(Active)'
  BY Zenon, <1>0, CallsKept
<1>9. Active' = {}
  BY Zenon, <1>0, <1>1, SameCalls
<1>10. Control'
  BY Zenon, <1>0, <1>1, <1>6, <1>9 DEF LogInv, Control, Recovering, Commits, mvars
<1>11. Holding'
  BY Zenon, <1>0, <1>4, <1>9 DEF LogInv, Holding, mvars
<1>12. Heads'
  BY <1>2, <1>0, <1>6 DEF LogInv, Heads
<1>13. Dirty'
  BY Zenon, <1>0, <1>4, <1>6 DEF LogInv, Dirty, Recovering, mvars
<1>14. Written'
  BY <1>0, <1>5, <1>2, <1>4, <1>6 DEF LogInv, Written, Slots
<1>15. QED
  BY Zenon, <1>7, <1>8, <1>10, <1>11, <1>12, <1>13, <1>14 DEF LogInv

\* write_head(): the header now names what write_log() has written.
LEMMA WriteHeadKeeps ==
    ASSUME LogCounts, LogInv, WriteHead
    PROVE  LogInv'
<1>0. /\ phase = "write_head" /\ phase' = "install" /\ hdr' = lh /\ ~panicked
      /\ UNCHANGED <<mvars, lh, tail, cache, dirty, disk, logdisk, panicked, crashes>>
  BY Zenon DEF WriteHead, cvars
<1>1. /\ committing /\ Active = {} /\ Len(lh) \in Nat \ {0} /\ Len(lh) <= LOGSIZE
      /\ tail = 1
  BY <1>0, Quiet DEF LogInv, Control, Recovers, Heads
<1>2. LogTypeOK'
  BY Zenon, <1>0 DEF LogInv, LogTypeOK, mvars, Commits
<1>3. SleepersHaveReason' /\ ReservationHolds' /\ outstanding' = Cardinality(Active)'
  BY Zenon, <1>0, CallsKept
<1>4. Active' = {}
  BY Zenon, <1>0, <1>1, SameCalls
<1>5. Control' /\ Holding'
  BY Zenon, <1>0, <1>1, <1>4 DEF LogInv, Control, Recovering, Commits, mvars, Holding
<1>6. Heads'
  BY <1>0, <1>1 DEF LogInv, Heads
<1>7. Dirty'
  BY <1>0, <1>1, HeadBlocks DEF LogInv, LogTypeOK, Dirty, Recovering, mvars
<1>8. Written'
  BY <1>0, <1>1 DEF LogInv, Written
<1>9. QED
  BY Zenon, <1>2, <1>3, <1>5, <1>6, <1>7, <1>8 DEF LogInv

\* install_trans() writes one block to its home, and its buffer with it.
LEMMA InstallKeeps ==
    ASSUME LogCounts, LogInv, Install
    PROVE  LogInv'
<1> DEFINE b == lh[tail]
<1>0. /\ phase = "install" /\ ~panicked /\ NextTail("erase")
      /\ UNCHANGED <<mvars, lh, logdisk, hdr, panicked, crashes>>
      /\ disk' = [disk EXCEPT ![b] = logdisk[tail]]
      /\ cache' = [cache EXCEPT ![b] = logdisk[tail]]
      /\ dirty' = dirty \ {b}
  BY Zenon DEF Install
<1>1. /\ Active = {} /\ Len(lh) \in Nat /\ Len(lh) <= LOGSIZE
      /\ \A p \in Proc : held[p] = NoBlock
  BY <1>0, Quiet
<1>2. tail \in 1..Len(lh) /\ tail \in Slots /\ b \in Block /\ logdisk[tail] \in Data
  BY <1>0, LogAssumption DEF LogInv, LogTypeOK, Heads, Slots
<1>3. /\ disk' \in [Block -> Data] /\ cache' \in [Block -> Data \cup {Absent}]
      /\ disk'[b] = logdisk[tail] /\ cache'[b] = logdisk[tail]
      /\ \A c \in Block \ {b} : disk'[c] = disk[c] /\ cache'[c] = cache[c]
  BY Zenon, <1>0, <1>2 DEF LogInv, LogTypeOK
<1>4. \A i \in 1..Len(lh) : i # tail => lh[i] \in Block \ {b}
  BY <1>2 DEF LogInv, LogTypeOK, Heads, Once
<1>5. \/ tail < Len(lh) /\ tail' = tail + 1 /\ phase' = "install"
      \/ tail = Len(lh) /\ tail' = 1 /\ phase' = "erase"
  BY <1>0, <1>2 DEF NextTail
<1> HIDE DEF b
<1>6. LogTypeOK'
  BY <1>0, <1>3, <1>5 DEF LogInv, LogTypeOK, mvars, Commits
<1>7. SleepersHaveReason' /\ ReservationHolds' /\ outstanding' = Cardinality(Active)'
  BY Zenon, <1>0, CallsKept
<1>8. Active' = {}
  BY Zenon, <1>0, <1>1, SameCalls
<1>9. Control'
  BY Zenon, <1>0, <1>5, <1>7, <1>8 DEF LogInv, Control, Recovering, Commits, Recovers, mvars
<1>10. Holding'
  BY Zenon, <1>0, <1>1, <1>8 DEF LogInv, Holding, mvars
<1>11. Heads'
  BY <1>0, <1>5 DEF LogInv, Heads
<1>12. \A i \in 1..tail : lh[i] \notin dirty'
  BY <1>0, <1>2 DEF LogInv, Dirty, b
<1>13. Dirty'
  <2>1. \A c \in dirty' : cache'[c] # Absent /\ c \in Range(lh)
    BY <1>0 DEF LogInv, Dirty
  <2>2. committing => \A i \in (tail + 1)..Len(lh) : lh[i] \in dirty'
    BY <1>0, <1>2, <1>4 DEF LogInv, Dirty
  <2>3. tail = Len(lh) => dirty' = {}
    BY <1>12, <2>1, HeadBlocks DEF LogInv, LogTypeOK
  <2>4. ~committing => dirty' = {}
    BY Zenon, <1>0 DEF LogInv, Dirty, Recovering
  <2>5. \A c \in Block \ dirty' : cache'[c] \in {Absent, disk'[c]}
    <3>1. ASSUME NEW c \in Block \ dirty', c # b PROVE cache'[c] \in {Absent, disk'[c]}
      BY Zenon, <1>0, <1>1, <3>1, LogAssumption, <1>3 DEF LogInv, Dirty
    <3>2. QED
      BY Zenon, <3>1, <1>3
  <2>6. QED
    BY <1>0, <1>2, <1>5, <1>12, <2>1, <2>2, <2>3, <2>4, <2>5 DEF Dirty, Recovering, mvars
<1>14. Written'
  <2>1. \A i \in 1..tail : logdisk[i] = disk'[lh[i]]
    <3>1. ASSUME NEW i \in 1..(tail - 1) PROVE logdisk[i] = disk'[lh[i]]
      BY <1>0, <1>2, <1>4 DEF LogInv, Written
    <3>2. QED
      BY <3>1, <1>2, <1>3 DEF b
  <2>2. committing => \A i \in (tail + 1)..Len(lh) : logdisk[i] = cache'[lh[i]]
    BY <1>0, <1>2, <1>4 DEF LogInv, Written
  <2>3. QED
    BY <1>0, <1>2, <1>5, <2>1, <2>2 DEF Written, mvars
<1>15. QED
  BY Zenon, <1>6, <1>7, <1>9, <1>10, <1>11, <1>13, <1>14 DEF LogInv

\* commit() or recovery clears the header.
LEMMA EraseKeeps ==
    ASSUME LogCounts, LogInv, Erase
    PROVE  LogInv'
<1>0. /\ phase = "erase" /\ ~panicked /\ lh' = <<>> /\ hdr' = <<>>
      /\ phase' = IF committing THEN "wake" ELSE "idle"
      /\ UNCHANGED <<mvars, tail, cache, dirty, disk, logdisk, panicked, crashes>>
  BY Zenon DEF Erase, cvars
<1>1. Active = {} /\ dirty = {} /\ \A p \in Proc : held[p] = NoBlock
  BY Zenon, <1>0, Quiet DEF LogInv, Dirty
<1>2. Active' = {} /\ LoggedBy' = {}
  BY Zenon, <1>0, <1>1, SameCalls DEF LoggedBy
<1>3. lh' \in Seq(Block) /\ hdr' \in Seq(Block) /\ Len(lh') = 0 /\ Range(lh') = {}
  BY Zenon, <1>0, NoHead
<1>4. LogTypeOK'
  BY <1>0 DEF LogInv, LogTypeOK, mvars, Commits
<1>5. Control'
  BY Zenon, <1>0, SameCalls, <1>2 DEF LogInv, Control, mvars, Recovering, Commits
<1>6. Holding'
  BY Zenon, <1>0, <1>2 DEF LogInv, Holding, mvars
<1>7. Heads'
  BY <1>0, LogAssumption DEF Heads, Once
<1>8. Dirty'
  BY Zenon, <1>0, <1>3 DEF LogInv, Dirty, mvars
<1>9. Written'
  BY Zenon, <1>0 DEF Written
<1>10. SleepersHaveReason'
  BY Zenon, <1>0 DEF LogInv, Control, Recovering, SleepersHaveReason, mvars
<1>11. ReservationHolds'
  BY CountNone, <1>2, <1>3, LogAssumption DEF ReservationHolds, Left
<1>12. QED
  BY Zenon, <1>4, <1>5, <1>6, <1>7, <1>8, <1>9, <1>10, <1>11 DEF LogInv

\* Recovery takes the header of the disk for its own.
LEMMA ReadHeadKeeps ==
    ASSUME LogCounts, LogInv, ReadHead
    PROVE  LogInv'
<1>0. /\ phase = "read_head" /\ ~panicked /\ lh' = hdr
      /\ phase' = IF hdr = <<>> THEN "erase" ELSE "install"
      /\ UNCHANGED <<mvars, tail, cache, dirty, disk, logdisk, hdr, panicked, crashes>>
  BY Zenon DEF ReadHead, cvars, dvars
<1>1. /\ ~committing /\ Active = {} /\ dirty = {} /\ tail = 1
      /\ \A p \in Proc : pc[p] = "out"
  BY Zenon, <1>0, Quiet DEF LogInv, Control, Commits, Dirty, Heads, Recovering
<1>2. Active' = {} /\ LoggedBy' = {}
  BY Zenon, <1>0, <1>1, SameCalls DEF LoggedBy
<1>3. hdr \in Seq(Block) /\ Len(hdr) \in Nat /\ Len(hdr) <= LOGSIZE
      /\ (hdr = <<>> <=> Len(hdr) = 0)
  BY DEF LogInv, LogTypeOK, Heads
<1>4. LogTypeOK'
  BY Zenon, <1>0 DEF LogInv, LogTypeOK, mvars, Commits
<1>5. Control'
  BY Zenon, <1>0, SameCalls, <1>1 DEF LogInv, Control, mvars, Recovers
<1>6. Holding'
  BY Zenon, <1>0, <1>2 DEF LogInv, Holding, mvars
<1>7. Heads'
  BY <1>0 DEF LogInv, Heads
<1>8. Dirty'
  BY Zenon, <1>0, <1>1 DEF LogInv, Dirty, mvars
<1>9. Written'
  BY <1>0, <1>1 DEF Written, mvars
<1>10. SleepersHaveReason'
  BY Zenon, <1>0, <1>1 DEF SleepersHaveReason, mvars
<1>11. ReservationHolds'
  BY CountNone, <1>0, <1>2, <1>3, LogAssumption DEF ReservationHolds, Left
<1>12. QED
  BY Zenon, <1>4, <1>5, <1>6, <1>7, <1>8, <1>9, <1>10, <1>11 DEF LogInv

\* A crash leaves the disk, and nothing in memory.
LEMMA CrashKeeps ==
    ASSUME LogCounts, LogInv, Crash
    PROVE  LogInv'
<1>0. /\ crashes' = crashes + 1 /\ outstanding' = 0 /\ ~committing' /\ committing' = FALSE
      /\ pc' = [p \in Proc |-> "out"] /\ held' = [p \in Proc |-> NoBlock]
      /\ wrote' = [p \in Proc |-> {}] /\ lh' = <<>> /\ phase' = "read_head"
      /\ tail' = 1 /\ cache' = [b \in Block |-> Absent] /\ dirty' = {}
      /\ panicked' = FALSE /\ ~panicked' /\ UNCHANGED <<disk, logdisk, hdr>>
  BY Zenon DEF Crash, dvars
<1>1. Active' = {} /\ LoggedBy' = {}
  BY Zenon, <1>0 DEF Active, LoggedBy
<1>2. Cardinality({}) = 0
  BY Zenon, CountNone
<1>3. lh' \in Seq(Block) /\ Len(lh') = 0 /\ Range(lh') = {} /\ Once(lh')
  BY Zenon, <1>0, NoHead
<1>4. LogTypeOK'
  <2>1. /\ pc' \in [Proc -> LogPoints] /\ held' \in [Proc -> Block \cup {NoBlock}]
        /\ wrote' \in [Proc -> SUBSET Block] /\ cache' \in [Block -> Data \cup {Absent}]
    BY Zenon, <1>0 DEF LogPoints
  <2>2. dirty' \in SUBSET Block /\ crashes' \in Nat /\ tail' \in Nat /\ outstanding' \in Nat
        /\ hdr' \in Seq(Block) /\ disk' \in [Block -> Data] /\ logdisk' \in [Slots -> Data]
    BY <1>0 DEF LogInv, LogTypeOK
  <2>3. QED
    BY Zenon, <1>0, <1>3, <2>1, <2>2 DEF LogTypeOK, Recovers
<1>5. Control'
  BY Zenon, <1>0, <1>1, <1>2 DEF Control, Recovers
<1>6. Holding'
  BY Zenon, <1>0, <1>1 DEF Holding
<1>7. Heads'
  BY Zenon, <1>0, <1>3 DEF LogInv, Heads
<1>8. Dirty'
  BY Zenon, <1>0 DEF Dirty
<1>9. Written'
  BY Zenon, <1>0 DEF Written
<1>10. SleepersHaveReason'
  BY Zenon, <1>0 DEF SleepersHaveReason
<1>11. ReservationHolds'
  BY <1>1, <1>2, <1>3, LogAssumption DEF ReservationHolds, Left
<1>12. QED
  BY Zenon, <1>4, <1>5, <1>6, <1>7, <1>8, <1>9, <1>10, <1>11 DEF LogInv

\* A buffer that is neither dirty nor locked is filled from the disk or
\* recycled.
LEMMA BufferKeeps ==
    ASSUME LogInv, ~panicked, NEW b \in Block, b \notin dirty,
           \A q \in Proc : held[q] # b, NEW v \in {Absent, disk[b]},
           cache' = [cache EXCEPT ![b] = v],
           UNCHANGED <<mvars, lh, phase, tail, dirty, disk, logdisk, hdr, panicked, crashes>>
    PROVE  LogInv'
<1>1. /\ cache' \in [Block -> Data \cup {Absent}] /\ cache'[b] \in {Absent, disk[b]}
      /\ \A c \in Block \ {b} : cache'[c] = cache[c]
  BY Zenon DEF LogInv, LogTypeOK
<1>2. LogTypeOK'
  BY Zenon DEF LogInv, LogTypeOK, mvars
<1>3. Active' = Active
  BY Zenon, SameCalls
<1>4. SleepersHaveReason' /\ ReservationHolds' /\ outstanding' = Cardinality(Active)'
  BY Zenon, CallsKept
<1>5. Control'
  BY Zenon, <1>3 DEF LogInv, Control, Recovering, mvars
<1>6. Holding'
  BY Zenon, <1>3 DEF LogInv, LogTypeOK, Holding, mvars
<1>7. Heads'
  BY Zenon, <1>3 DEF LogInv, Heads
<1>8. Dirty'
  BY <1>1 DEF LogInv, LogTypeOK, Dirty, Recovering, mvars
<1>9. Written'
  BY HeadBlocks DEF LogInv, LogTypeOK, Dirty, Heads, Written, mvars
<1>10. QED
  BY Zenon, <1>2, <1>4, <1>5, <1>6, <1>7, <1>8, <1>9 DEF LogInv

LEMMA ReadKeeps ==
    ASSUME LogInv, NEW b \in Block, Read(b)
    PROVE  LogInv'
<1>1. b \notin dirty
  BY Zenon DEF Read, LogInv, Dirty
<1>2. QED
  BY Zenon, <1>1, BufferKeeps DEF Read, dvars

LEMMA EvictKeeps ==
    ASSUME LogInv, NEW b \in Block, Evict(b)
    PROVE  LogInv'
BY Zenon, BufferKeeps DEF Evict, dvars

----------------------------------------------------------------------------
(* The steps of begin_op(), log_write() and end_op().                      *)

\* What a call that is active excludes.
LEMMA Working ==
    ASSUME LogInv, NEW p \in Proc, p \in Active
    PROVE  /\ ~committing /\ phase = "idle" /\ ~Recovering /\ hdr = <<>>
           /\ \A q \in Proc : pc[q] # "commit"
<1>1. ~committing
  BY Zenon DEF LogInv, Control
<1>2. pc[p] # "out"
  BY Zenon DEF Active
<1>3. ~Recovering
  BY Zenon, <1>2 DEF LogInv, Control
<1>4. phase = "idle"
  BY Zenon, <1>1, <1>3 DEF Recovering
<1>5. QED
  BY Zenon, <1>3, <1>4 DEF LogInv, Control, Heads

\* The end of end_op() after commit().
LEMMA WakeKeeps ==
    ASSUME LogCounts, LogInv, NEW p \in Proc, Wake(p)
    PROVE  LogInv'
<1>0. /\ phase = "wake" /\ pc[p] = "commit" /\ ~panicked /\ phase' = "idle"
      /\ committing' = FALSE /\ ~committing'
      /\ pc' = [Woken(pc) EXCEPT ![p] = "out"]
      /\ UNCHANGED <<held, wrote, outstanding, lh, tail, cache, dirty, disk, logdisk, hdr,
                     panicked, crashes>>
  BY Zenon DEF Wake, cvars, dvars
<1>1. committing /\ Active = {} /\ lh = <<>> /\ hdr = <<>> /\ dirty = {}
      /\ \A q \in Proc : held[q] = NoBlock
  BY Zenon, <1>0, Quiet, NoHead DEF LogInv, Control, Heads, Dirty
<1>2. /\ pc' \in [Proc -> LogPoints] /\ pc'[p] = "out"
      /\ \A q \in Proc \ {p} :
            pc'[q] = IF pc[q] = "asleep" THEN "begin" ELSE pc[q]
  BY Zenon, <1>0 DEF LogInv, LogTypeOK, LogPoints, Woken
<1>3. Active' = {} /\ LoggedBy' = {}
  BY Zenon, <1>1, <1>2 DEF Active, LoggedBy
<1>4. LogTypeOK'
  BY Zenon, <1>0, <1>2 DEF LogInv, LogTypeOK
<1>5. Control'
  BY Zenon, <1>0, <1>2, <1>3 DEF LogInv, Control, Recovering
<1>6. Holding'
  BY Zenon, <1>0, <1>2, <1>3 DEF LogInv, Holding
<1>7. Heads'
  BY Zenon, <1>0 DEF LogInv, Heads
<1>8. Dirty'
  BY Zenon, <1>0, <1>1, NoHead DEF LogInv, Dirty
<1>9. Written'
  BY Zenon, <1>0 DEF Written
<1>10. SleepersHaveReason'
  BY Zenon, <1>2 DEF SleepersHaveReason
<1>11. ReservationHolds'
  BY CountNone, <1>0, <1>1, <1>3, LogAssumption DEF ReservationHolds, Left
<1>12. QED
  BY Zenon, <1>4, <1>5, <1>6, <1>7, <1>8, <1>9, <1>10, <1>11 DEF LogInv

----------------------------------------------------------------------------
(* The steps of begin_op(), log_write() and end_op().                      *)

\* A turn of begin_op() puts the caller to sleep, or admits it when the log
\* has room for all it may write.
LEMMA BeginOpKeeps ==
    ASSUME LogCounts, LogInv, NEW p \in Proc, BeginOp(p)
    PROVE  LogInv'
<1>0. /\ ~panicked /\ ~Recovering /\ pc[p] \in {"out", "begin"}
      /\ UNCHANGED <<held, committing, lh, phase, tail, cache, dirty, disk, logdisk, hdr,
                     panicked, crashes>>
  BY Zenon DEF BeginOp, cvars, dvars
<1>1. p \notin Active /\ held[p] = NoBlock
  BY Zenon, <1>0 DEF Active, LogInv, Holding
<1>2. Len(lh) \in Nat /\ outstanding \in Nat /\ outstanding = Cardinality(Active)
      /\ MAXOPBLOCKS \in Nat /\ LOGSIZE \in Nat
  BY LogAssumption DEF LogInv, LogTypeOK, Control
<1>3. CASE (committing \/ Full) /\ pc' = [pc EXCEPT ![p] = "asleep"]
           /\ UNCHANGED <<wrote, outstanding>>
  <2>1. pc' \in [Proc -> LogPoints] /\ pc'[p] = "asleep" /\ \A q \in Proc \ {p} : pc'[q] = pc[q]
    BY Zenon, <1>3 DEF LogInv, LogTypeOK, LogPoints
  <2>2. Active' = Active
    BY Zenon, <2>1, <1>1 DEF Active
  <2>3. LoggedBy' = LoggedBy
    BY Zenon, <2>2, <1>3 DEF LoggedBy
  <2>4. LogTypeOK'
    BY Zenon, <1>0, <1>3, <2>1 DEF LogInv, LogTypeOK
  <2>5. Control'
    BY <1>0, <1>3, <2>2 DEF LogInv, Control, Recovering
  <2>6. Holding'
    BY <1>0, <1>3, <2>2 DEF LogInv, Holding
  <2>7. Heads' /\ Dirty' /\ Written'
    BY Zenon, <1>0, <2>2 DEF LogInv, Heads, Dirty, Written, Recovering
  <2>8. SleepersHaveReason'
    BY Zenon, <1>0, <1>3 DEF SleepersHaveReason, Full
  <2>9. ReservationHolds'
    BY Zenon, <1>0, <2>2, <2>3 DEF LogInv, ReservationHolds
  <2>10. QED
    BY Zenon, <2>4, <2>5, <2>6, <2>7, <2>8, <2>9 DEF LogInv
<1>4. CASE ~committing /\ ~Full /\ outstanding' = outstanding + 1
           /\ pc' = [pc EXCEPT ![p] = "in"] /\ wrote' = [wrote EXCEPT ![p] = {}]
  <2>1. /\ pc' \in [Proc -> LogPoints] /\ pc'[p] = "in" /\ \A q \in Proc \ {p} : pc'[q] = pc[q]
        /\ wrote' \in [Proc -> SUBSET Block] /\ wrote'[p] = {}
        /\ \A q \in Proc \ {p} : wrote'[q] = wrote[q]
    BY Zenon, <1>4 DEF LogInv, LogTypeOK, LogPoints
  <2>2. Active' = Active \cup {p} /\ phase = "idle"
    BY Zenon, <1>0, <1>4, <2>1 DEF Active, Recovering
  <2>3. LoggedBy' = LoggedBy
    BY Zenon, <2>1, <2>2, <1>1 DEF LoggedBy
  <2>4. Cardinality(Active') = Cardinality(Active) + 1
    BY Zenon, <1>1, <2>2, CountCalls DEF Active
  <2>5. LogTypeOK'
    BY <1>0, <1>4, <2>1 DEF LogInv, LogTypeOK
  <2>6. Control'
    BY <1>0, <1>4, <2>4 DEF LogInv, Control, Recovering
  <2>7. Holding'
    <3>1. Cardinality({}) = 0
      BY Zenon, CountNone
    <3>2. \A q \in Proc : held[q] # NoBlock => q # p
      BY Zenon, <1>1
    <3>3. \A q \in Active' : wrote'[q] \subseteq Range(lh) /\ Cardinality(wrote'[q]) <= MAXOPBLOCKS
      <4>1. ASSUME NEW q \in Active, q # p
            PROVE  wrote'[q] \subseteq Range(lh) /\ Cardinality(wrote'[q]) <= MAXOPBLOCKS
        BY Zenon, <2>1, <4>1 DEF Active, LogInv, Holding
      <4>2. wrote'[p] \subseteq Range(lh) /\ Cardinality(wrote'[p]) <= MAXOPBLOCKS
        BY <1>2, <2>1, <3>1
      <4>3. QED
        BY Zenon, <2>2, <4>1, <4>2
    <3>4. QED
      BY Zenon, <1>0, <2>1, <3>3 DEF LogInv, Holding
  <2>8. Heads' /\ Dirty' /\ Written'
    BY Zenon, <1>0, <2>2 DEF LogInv, Heads, Dirty, Written, Recovering
  <2>9. SleepersHaveReason'
    BY <1>4 DEF LogInv, SleepersHaveReason
  <2>10. ReservationHolds'
    <3>1. Cardinality(LoggedBy) \in Nat
      BY Zenon, CountLogged DEF LoggedBy
    <3>2. Len(lh) + (outstanding + 1) * MAXOPBLOCKS <= LOGSIZE
      BY <1>2, <1>4 DEF Full
    <3>3. (outstanding + 1) * MAXOPBLOCKS = MAXOPBLOCKS * Cardinality(Active')
      BY <1>2, <2>4
    <3>4. (outstanding + 1) * MAXOPBLOCKS \in Int
      BY <1>2
    <3>5. Len(lh) + MAXOPBLOCKS * Cardinality(Active') - Cardinality(LoggedBy) <= LOGSIZE
      <4> DEFINE k == (outstanding + 1) * MAXOPBLOCKS
      <4>1. k \in Int /\ Len(lh) + k <= LOGSIZE /\ k = MAXOPBLOCKS * Cardinality(Active')
        BY Zenon, <3>2, <3>3, <3>4
      <4> HIDE DEF k
      <4>2. Len(lh) + k - Cardinality(LoggedBy) <= LOGSIZE
        BY <4>1, <1>2, <3>1
      <4>3. QED
        BY Zenon, <4>1, <4>2
    <3>6. QED
      BY Zenon, <1>0, <2>3, <3>5 DEF ReservationHolds, Left
  <2>11. QED
    BY Zenon, <2>5, <2>6, <2>7, <2>8, <2>9, <2>10 DEF LogInv
<1>5. QED
  BY Zenon, <1>3, <1>4 DEF BeginOp

\* The blocks a call may write fit in what begin_op() reserved for it.
LEMMA OpFits ==
    ASSUME LogCounts, NEW S \in SUBSET Block, Cardinality(S) <= OpBlocks
    PROVE  Cardinality(S) <= MAXOPBLOCKS
  BY LogAssumption DEF LogCounts, Counts

\* log_write() up to its critical section: the caller locks and changes the
\* buffer, or panics because the log is full.
LEMMA ModifyKeeps ==
    ASSUME LogCounts, LogInv, NEW p \in Proc, NEW b \in Block, NEW v \in Data, Modify(p, b, v)
    PROVE  LogInv'
<1>0. /\ ~panicked /\ pc[p] = "in" /\ \A q \in Proc : held[q] # b
      /\ Cardinality(wrote[p] \cup {b}) <= OpBlocks
      /\ cache' = [cache EXCEPT ![b] = v]
      /\ UNCHANGED <<wrote, outstanding, committing, lh, phase, tail, dirty, disk, logdisk,
                     hdr, crashes>>
  BY Zenon DEF Modify, dvars
<1>1. p \in Active /\ held[p] = NoBlock /\ b # NoBlock
  BY Zenon, <1>0 DEF Active, LogInv, Holding
<1>2. ~committing /\ phase = "idle" /\ ~Recovering
  BY Zenon, <1>1, Working
<1>3. /\ cache' \in [Block -> Data \cup {Absent}] /\ cache'[b] = v /\ cache'[b] # Absent
      /\ \A c \in Block \ {b} : cache'[c] = cache[c]
  BY Zenon, <1>0, LogAssumption DEF LogInv, LogTypeOK
<1>4. \/ panicked' = TRUE /\ panicked' /\ UNCHANGED <<pc, held>>
      \/ /\ pc' = [pc EXCEPT ![p] = "log_write"] /\ held' = [held EXCEPT ![p] = b]
         /\ UNCHANGED panicked /\ ~panicked'
  BY Zenon DEF Modify
<1>5. LogTypeOK'
  <2>1. pc' \in [Proc -> LogPoints] /\ held' \in [Proc -> Block \cup {NoBlock}]
    BY Zenon, <1>4 DEF LogInv, LogTypeOK, LogPoints
  <2>2. panicked' \in BOOLEAN
    BY Zenon, <1>4 DEF LogInv, LogTypeOK
  <2>3. QED
    BY Zenon, <1>0, <2>1, <2>2 DEF LogInv, LogTypeOK
<1>6. \A q \in Proc : (q \in Active' <=> q \in Active) /\ (q # p => pc'[q] = pc[q])
                      /\ (pc'[q] = "commit" => pc[q] = "commit")
                      /\ (pc'[q] = "asleep" => pc[q] = "asleep")
  BY Zenon, <1>0, <1>4 DEF Active, LogInv, LogTypeOK
<1>7. Active' = Active
  BY Zenon, <1>6 DEF Active
<1>8. LoggedBy' = LoggedBy
  BY Zenon, <1>0, <1>7 DEF LoggedBy
<1>9. Control'
  BY Zenon, <1>0, <1>1, <1>6, <1>7 DEF LogInv, Control, Recovering
<1>10. \A q \in Proc : held[q] # NoBlock => held[q] \in Block \ {b}
  BY Zenon, <1>0 DEF LogInv, LogTypeOK
<1>11. Holding'
  <2>1. \A q \in Active : wrote[q] \subseteq Range(lh) /\ Cardinality(wrote[q]) <= MAXOPBLOCKS
    BY Zenon DEF LogInv, Holding
  <2>2. CASE UNCHANGED <<pc, held>>
    BY <1>0, <1>7, <2>2 DEF LogInv, Holding
  <2>3. CASE pc' = [pc EXCEPT ![p] = "log_write"] /\ held' = [held EXCEPT ![p] = b]
    <3>1. /\ pc'[p] = "log_write" /\ held'[p] = b
          /\ \A q \in Proc \ {p} : pc'[q] = pc[q] /\ held'[q] = held[q]
      BY Zenon, <2>3 DEF LogInv, LogTypeOK
    <3>2. Cardinality(wrote[p] \cup {b}) <= MAXOPBLOCKS
      BY Zenon, <1>0, OpFits DEF LogInv, LogTypeOK
    <3>3. \A q \in Proc : pc'[q] = "log_write" <=> held'[q] # NoBlock
      BY Zenon, <1>1, <3>1 DEF LogInv, Holding
    <3>4. \A q, r \in Proc : held'[q] = held'[r] /\ held'[q] # NoBlock => q = r
      BY <1>0, <3>1 DEF LogInv, Holding
    <3>5. \A q \in Proc : held'[q] # NoBlock =>
            cache'[held'[q]] # Absent /\ Cardinality(wrote[q] \cup {held'[q]}) <= MAXOPBLOCKS
      <4>1. ASSUME NEW q \in Proc \ {p}, held[q] # NoBlock
            PROVE  cache'[held[q]] # Absent /\ Cardinality(wrote[q] \cup {held[q]}) <= MAXOPBLOCKS
        BY Zenon, <1>3, <1>10, <4>1 DEF LogInv, Holding
      <4>2. QED
        BY Zenon, <1>3, <3>1, <3>2, <4>1
    <3>6. QED
      BY Zenon, <1>0, <1>7, <2>1, <3>3, <3>4, <3>5 DEF Holding
  <2>4. QED
    BY Zenon, <1>4, <2>2, <2>3
<1>12. Heads' /\ Written'
  BY Zenon, <1>0, <1>2, <1>7 DEF LogInv, Heads, Written
<1>13. Dirty'
  <2>1. \A c \in dirty : cache'[c] # Absent /\ c \in Range(lh)
    BY Zenon, <1>3 DEF LogInv, Dirty, LogTypeOK
  <2>2. ASSUME ~panicked', NEW c \in Block \ dirty, \A q \in Proc : held'[q] # c
        PROVE  cache'[c] \in {Absent, disk[c]}
    <3>1. held'[p] = b /\ \A q \in Proc \ {p} : held'[q] = held[q]
      BY Zenon, <1>4, <2>2 DEF LogInv, LogTypeOK
    <3>2. c # b /\ \A q \in Proc : held[q] # c
      BY Zenon, <1>1, <2>2, <3>1, LogAssumption
    <3>3. QED
      BY Zenon, <1>0, <1>3, <3>2 DEF LogInv, Dirty
  <2>3. QED
    BY Zenon, <1>0, <2>1, <2>2 DEF LogInv, Dirty, Recovering
<1>14. SleepersHaveReason' /\ ReservationHolds'
  BY Zenon, <1>0, <1>6, <1>7, <1>8 DEF LogInv, SleepersHaveReason, Full, ReservationHolds
<1>15. QED
  BY Zenon, <1>5, <1>9, <1>11, <1>12, <1>13, <1>14 DEF LogInv
====
