----------------------------- MODULE LogProofs ------------------------------
(***************************************************************************)
(* The theorems about Log, for any number of processes, blocks and crashes *)
(* and any sizes of the log: its invariants, and that it implements        *)
(* AtomicDisk.                                                             *)
(*                                                                         *)
(* The refinement in a sentence: what recovery would find jumps to what    *)
(* the calls see at the write of the header and nowhere else, and a crash  *)
(* makes the calls see what recovery finds.                                *)
(***************************************************************************)
EXTENDS LogSteps, FiniteSetTheorems

\* The provers' time for each leaf.
USE SMTT(60), ZenonT(60)

----------------------------------------------------------------------------
(* log_write() and end_op().                                               *)

\* A block that the log does not name yet goes to its end.
LEMMA Appended ==
    ASSUME NEW s \in Seq(Block), NEW b \in Block, NEW t,
           t = IF b \in Range(s) THEN s ELSE Append(s, b), Once(s)
    PROVE  /\ t \in Seq(Block) /\ Once(t) /\ Range(t) = Range(s) \cup {b}
           /\ Len(t) = IF b \in Range(s) THEN Len(s) ELSE Len(s) + 1
<1>1. CASE b \in Range(s)
  BY Zenon, <1>1
<1>2. CASE b \notin Range(s)
  <2>1. /\ t \in Seq(Block) /\ Len(t) = Len(s) + 1 /\ Len(s) \in Nat
        /\ \A i \in 1..Len(s) : t[i] = s[i] /\ s[i] # b
        /\ t[Len(s) + 1] = b
    BY <1>2, HeadBlocks
  <2>2. Once(t)
    BY <2>1 DEF Once
  <2>3. Range(t) = Range(s) \cup {b}
    <3>1. DOMAIN t = 1..(Len(s) + 1) /\ DOMAIN s = 1..Len(s)
      BY <2>1
    <3>2. \A c : c \in Range(t) <=> \E i \in 1..(Len(s) + 1) : t[i] = c
      BY Zenon, <3>1 DEF Range
    <3>3. \A c : c \in Range(s) <=> \E i \in 1..Len(s) : s[i] = c
      BY DEF Range
    <3>4. ASSUME NEW c \in Range(t) PROVE c \in Range(s) \cup {b}
      BY <3>2, <3>3
    <3>5. ASSUME NEW c \in Range(s) \cup {b} PROVE c \in Range(t)
      BY <3>2, <3>3
    <3>6. QED
      BY Zenon, <3>4, <3>5
  <2>4. QED
    BY <2>2, <2>3
<1>3. QED
  BY Zenon, <1>2

\* The critical section of log_write(): a block that is new to the log is
\* new to its call as well, so the log grows within the reservation.
LEMMA RecordKeeps ==
    ASSUME LogCounts, LogInv, NEW p \in Proc, Record(p)
    PROVE  LogInv'
<1> DEFINE b == held[p]
<1>0. /\ ~panicked /\ pc[p] = "log_write"
      /\ lh' = IF b \in Range(lh) THEN lh ELSE Append(lh, b)
      /\ dirty' = dirty \cup {b}
      /\ wrote' = [wrote EXCEPT ![p] = @ \cup {b}]
      /\ pc' = [pc EXCEPT ![p] = "in"] /\ held' = [held EXCEPT ![p] = NoBlock]
      /\ UNCHANGED <<outstanding, committing, phase, tail, cache, disk, logdisk, hdr,
                     panicked, crashes>>
  BY Zenon DEF Record, dvars
<1>1. p \in Active /\ b \in Block /\ cache[b] # Absent
      /\ Cardinality(wrote[p] \cup {b}) <= MAXOPBLOCKS
  BY Zenon, <1>0 DEF Active, LogInv, Holding, LogTypeOK
<1>2. ~committing /\ phase = "idle" /\ ~Recovering /\ hdr = <<>>
  BY Zenon, <1>1, Working
<1>3. /\ lh' \in Seq(Block) /\ Once(lh') /\ Range(lh') = Range(lh) \cup {b}
      /\ Len(lh') = IF b \in Range(lh) THEN Len(lh) ELSE Len(lh) + 1
  BY Zenon, <1>0, <1>1, Appended DEF LogInv, LogTypeOK, Heads
<1>4. /\ pc' \in [Proc -> LogPoints] /\ held' \in [Proc -> Block \cup {NoBlock}]
      /\ wrote' \in [Proc -> SUBSET Block]
      /\ pc'[p] = "in" /\ held'[p] = NoBlock /\ wrote'[p] = wrote[p] \cup {b}
      /\ \A q \in Proc \ {p} : pc'[q] = pc[q] /\ held'[q] = held[q] /\ wrote'[q] = wrote[q]
  BY Zenon, <1>0, <1>1 DEF LogInv, LogTypeOK, LogPoints
<1>5. b # NoBlock
  BY Zenon, <1>1, LogAssumption
<1> HIDE DEF b
<1>6. Active' = Active
  BY <1>0 DEF Active
<1>7. LogTypeOK'
  BY <1>0, <1>4 DEF LogInv, LogTypeOK
<1>8. Control'
  BY <1>0, <1>6 DEF LogInv, Control, Recovering
<1>9. Holding'
  <2>1. ASSUME NEW q \in Active'
        PROVE  wrote'[q] \subseteq Range(lh') /\ Cardinality(wrote'[q]) <= MAXOPBLOCKS
    <3>0. q \in Active /\ q \in Proc
      BY Zenon, <1>6 DEF Active
    <3>1. CASE q = p
      BY Zenon, <1>1, <1>3, <1>4, <3>1 DEF LogInv, Holding
    <3>2. CASE q # p
      BY Zenon, <1>3, <1>4, <3>0, <3>2 DEF LogInv, Holding
    <3>3. QED
      BY Zenon, <3>1, <3>2
  <2>2. \A q \in Proc : pc'[q] = "log_write" <=> held'[q] # NoBlock
    BY <1>4 DEF LogInv, Holding
  <2>3. \A q, r \in Proc : held'[q] = held'[r] /\ held'[q] # NoBlock => q = r
    BY <1>4 DEF LogInv, Holding
  <2>4. ASSUME NEW q \in Proc, held'[q] # NoBlock
        PROVE  cache[held'[q]] # Absent /\ Cardinality(wrote'[q] \cup {held'[q]}) <= MAXOPBLOCKS
    <3>1. q \in Proc \ {p}
      BY Zenon, <1>4, <2>4
    <3>2. held'[q] = held[q] /\ wrote'[q] = wrote[q]
      BY Zenon, <1>4, <3>1
    <3>3. QED
      BY Zenon, <2>4, <3>2 DEF LogInv, Holding
  <2>5. QED
    BY Zenon, <1>0, <2>1, <2>2, <2>3, <2>4 DEF Holding
<1>10. Heads' /\ Written'
  <2>1. Active' # {}
    BY Zenon, <1>1, <1>6
  <2>2. QED
    BY Zenon, <1>0, <1>2, <1>3, <2>1 DEF LogInv, Heads, Written
<1>11. Dirty'
  <2>1. \A c \in dirty' : cache[c] # Absent /\ c \in Range(lh')
    BY Zenon, <1>0, <1>1, <1>3 DEF LogInv, Dirty
  <2>2. Range(lh') \subseteq dirty'
    BY Zenon, <1>0, <1>2, <1>3 DEF LogInv, Dirty
  <2>3. ASSUME NEW c \in Block \ dirty', \A q \in Proc : held'[q] # c
        PROVE  cache[c] \in {Absent, disk[c]}
    BY <1>0, <2>3 DEF b, LogInv, Dirty
  <2>4. QED
    BY Zenon, <1>0, <1>2, <2>1, <2>2, <2>3 DEF Dirty, Recovering
<1>12. Len(lh) \in Nat /\ Len(lh') \in Nat /\ Len(lh') >= Len(lh)
  BY <1>3
<1>13. SleepersHaveReason'
  <2>1. Full => Full'
    <3> DEFINE k == (outstanding + 1) * MAXOPBLOCKS
    <3>1. k \in Int /\ k' = k /\ LOGSIZE \in Nat
      BY <1>0, LogAssumption DEF LogInv, LogTypeOK
    <3>2. (Full <=> Len(lh) + k > LOGSIZE) /\ (Full' <=> Len(lh') + k > LOGSIZE)
      BY Zenon, <3>1 DEF Full
    <3> HIDE DEF k
    <3>3. QED
      BY <1>12, <3>1, <3>2
  <2>2. \A q \in Proc : pc'[q] = "asleep" => pc[q] = "asleep"
    BY Zenon, <1>4
  <2>3. QED
    BY Zenon, <1>2, <2>1, <2>2 DEF LogInv, SleepersHaveReason
<1>14. ReservationHolds'
  <2>1. LoggedBy' = LoggedBy \cup {<<p, b>>}
    BY <1>1, <1>4, <1>6 DEF LoggedBy
  <2>2. b \notin Range(lh) => <<p, b>> \notin LoggedBy
    BY Zenon DEF LoggedBy, LogInv, Holding
  <2>3. /\ Cardinality(LoggedBy) \in Nat
        /\ Cardinality(LoggedBy') = IF <<p, b>> \in LoggedBy THEN Cardinality(LoggedBy)
                                    ELSE Cardinality(LoggedBy) + 1
    BY <2>1, CountLogged DEF LoggedBy
  <2>4. Left(Active)' = Left(Active) /\ Left(Active) \in Int
    <3>1. Cardinality(Active) \in Nat
      BY Zenon, CountCalls DEF Active
    <3>2. QED
      BY <1>6, <3>1, LogAssumption DEF Left
  <2>5. QED
    BY <1>3, <2>2, <2>3, <2>4, LogAssumption DEF LogInv, ReservationHolds
<1>15. QED
  BY <1>7, <1>8, <1>9, <1>10, <1>11, <1>13, <1>14 DEF LogInv

\* The blocks a call logged are at most those it reserved.
LEMMA Returned ==
    ASSUME LogCounts, LogInv, NEW p \in Proc, p \in Active
    PROVE  LET L == {x \in LoggedBy : x[1] # p} IN
           /\ Cardinality(L) \in Nat /\ Cardinality(LoggedBy) \in Nat
           /\ Cardinality(LoggedBy) <= Cardinality(L) + MAXOPBLOCKS
<1> DEFINE L == {x \in LoggedBy : x[1] # p}
           M == {p} \X wrote[p]
<1>1. LoggedBy = L \cup M
  <2>1. M \subseteq LoggedBy
    BY Zenon DEF LoggedBy, LogInv, LogTypeOK
  <2>2. ASSUME NEW x \in LoggedBy, x[1] = p PROVE x \in M
    BY Zenon, <2>2 DEF LoggedBy
  <2>3. QED
    BY Zenon, <2>1, <2>2
<1>2. wrote[p] \in SUBSET Block /\ Cardinality(wrote[p]) \in Nat
  BY Zenon DEF LogInv, LogTypeOK, LogCounts, Counts
<1>3. L \in SUBSET (Proc \X Block) /\ LoggedBy \in SUBSET (Proc \X Block)
  BY Zenon DEF LoggedBy
<1>4. Cardinality(L) \in Nat /\ Cardinality(LoggedBy) \in Nat
  BY Zenon, <1>3, CountLogged
<1>5. Cardinality(L \cup M) <= Cardinality(L) + Cardinality(wrote[p])
  BY Zenon, <1>2, <1>3 DEF LogCounts, CountsRows
<1>6. Cardinality(wrote[p]) <= MAXOPBLOCKS
  BY Zenon DEF LogInv, Holding
<1> HIDE DEF L, M
<1>7. Cardinality(LoggedBy) <= Cardinality(L) + MAXOPBLOCKS
  BY <1>1, <1>2, <1>4, <1>5, <1>6, LogAssumption
<1>8. QED
  BY Zenon, <1>4, <1>7 DEF L

\* end_op() gives back the reservation, wakes the sleepers or, as the last
\* one, starts the commit.
LEMMA EndOpKeeps ==
    ASSUME LogCounts, LogInv, NEW p \in Proc, EndOp(p)
    PROVE  LogInv'
<1>0. /\ ~panicked /\ pc[p] = "in" /\ outstanding' = outstanding - 1
      /\ UNCHANGED <<held, wrote, lh, cache, dirty, disk, logdisk, hdr, panicked, crashes>>
  BY Zenon DEF EndOp, cvars, dvars
<1>1. p \in Active /\ held[p] = NoBlock
  BY Zenon, <1>0 DEF Active, LogInv, Holding
<1>2. ~committing /\ phase = "idle" /\ hdr = <<>> /\ \A q \in Proc : pc[q] # "commit"
  BY Zenon, <1>1, Working
<1>3. \/ /\ outstanding = 1 /\ committing' /\ committing' = TRUE
         /\ pc' = [pc EXCEPT ![p] = "commit"] /\ tail' = 1
         /\ phase' = IF lh = <<>> THEN "wake" ELSE "write_log"
      \/ /\ outstanding # 1 /\ pc' = [Woken(pc) EXCEPT ![p] = "out"]
         /\ UNCHANGED <<committing, phase, tail>>
  BY Zenon DEF EndOp
<1>4. /\ pc' \in [Proc -> LogPoints]
      /\ pc'[p] = IF outstanding = 1 THEN "commit" ELSE "out"
      /\ \A q \in Proc \ {p} : pc'[q] = IF pc[q] = "asleep" /\ outstanding # 1
                                        THEN "begin" ELSE pc[q]
  BY Zenon, <1>3 DEF LogInv, LogTypeOK, LogPoints, Woken
<1>5. Active' = Active \ {p} /\ Active \in SUBSET Proc
  BY Zenon, <1>4 DEF Active
<1>6. /\ Cardinality(Active) \in Nat /\ Cardinality(Active') = Cardinality(Active) - 1
      /\ (Cardinality(Active') = 0 <=> Active' = {})
  <2>1. Active' \in SUBSET Proc
    BY Zenon, <1>5
  <2>2. QED
    BY Zenon, <1>1, <1>5, CountCalls
<1>7. outstanding = Cardinality(Active) /\ outstanding' \in Nat /\ (outstanding = 1 <=> Active' = {})
  <2>1. Cardinality(Active') \in Nat
    BY Zenon, <1>5, CountCalls
  <2>2. QED
    BY <1>0, <1>6, <2>1 DEF LogInv, Control
<1>8. Len(lh) \in Nat /\ (lh = <<>> <=> Len(lh) = 0)
  OBVIOUS
<1>9. LogTypeOK'
  <2>1. /\ committing' \in BOOLEAN /\ tail' \in Nat
        /\ phase' \in Commits \cup Recovers \cup {"idle"}
    BY Zenon, <1>3 DEF LogInv, LogTypeOK, Commits
  <2>2. QED
    BY Zenon, <1>0, <1>4, <1>7, <2>1 DEF LogInv, LogTypeOK
<1>10. Control'
  BY <1>0, <1>2, <1>3, <1>4, <1>6, <1>7 DEF Control, Recovering, Commits
<1>11. Holding'
  <2>1. \A q \in Proc : pc'[q] = "log_write" <=> pc[q] = "log_write"
    BY Zenon, <1>0, <1>4
  <2>2. QED
    BY Zenon, <1>0, <1>5, <2>1 DEF LogInv, Holding
<1>12. Heads'
  BY <1>0, <1>2, <1>3, <1>7 DEF LogInv, Heads
<1>13. Dirty'
  BY Zenon, <1>0, <1>2, <1>3 DEF LogInv, Dirty, Recovering
<1>14. Written'
  BY <1>2, <1>3 DEF Written
<1>15. SleepersHaveReason'
  BY Zenon, <1>3, <1>4 DEF SleepersHaveReason
<1>16. ReservationHolds'
  <2> DEFINE L == {x \in LoggedBy : x[1] # p}
             n == MAXOPBLOCKS * Cardinality(Active)
  <2>1. LoggedBy' = L
    BY Zenon, <1>0, <1>5 DEF LoggedBy
  <2>2. /\ Cardinality(L) \in Nat /\ Cardinality(LoggedBy) \in Nat
        /\ Cardinality(LoggedBy) <= Cardinality(L) + MAXOPBLOCKS
    BY Zenon, <1>1, Returned
  <2>3. MAXOPBLOCKS * Cardinality(Active') = n - MAXOPBLOCKS /\ n \in Int
    BY <1>6, LogAssumption
  <2>4. Len(lh) + n - Cardinality(LoggedBy) <= LOGSIZE
    BY Zenon DEF LogInv, ReservationHolds, Left
  <2> HIDE DEF L, n
  <2>5. Len(lh) + (n - MAXOPBLOCKS) - Cardinality(L) <= LOGSIZE
    BY <2>2, <2>3, <2>4, LogAssumption
  <2>6. QED
    BY Zenon, <1>0, <2>1, <2>3, <2>5 DEF ReservationHolds, Left
<1>17. QED
  BY <1>9, <1>10, <1>11, <1>12, <1>13, <1>14, <1>15, <1>16 DEF LogInv

----------------------------------------------------------------------------
LEMMA LogPreserved ==
    ASSUME LogCounts, LogInv, [Next]_vars
    PROVE  LogInv'
<1>1. ASSUME NEW p \in Proc, Call(p) PROVE LogInv'
  BY Zenon, <1>1, BeginOpKeeps, RecordKeeps, EndOpKeeps, WakeKeeps, ModifyKeeps DEF Call
<1>2. CASE DiskStep
BY Zenon, <1>2, WriteLogKeeps, WriteHeadKeeps, InstallKeeps, EraseKeeps, ReadHeadKeeps DEF
       DiskStep
<1>3. ASSUME NEW b \in Block, Read(b) \/ Evict(b) PROVE LogInv'
  BY Zenon, <1>3, ReadKeeps, EvictKeeps
<1>4. CASE Crash
  BY Zenon, <1>4, CrashKeeps
<1>5. CASE UNCHANGED vars
  <2>1. Active' = Active /\ LoggedBy' = LoggedBy
    BY Zenon, <1>5 DEF vars, Active, LoggedBy
  <2>2. LogTypeOK' /\ Control' /\ Holding'
    BY Zenon, <1>5, <2>1 DEF vars, LogInv, LogTypeOK, Control, Holding, Recovering
  <2>3. Heads' /\ Dirty' /\ Written'
    BY <1>5, <2>1 DEF vars, LogInv, Heads, Dirty, Written, Recovering
  <2>4. SleepersHaveReason' /\ ReservationHolds'
    BY Zenon, <1>5, <2>1 DEF vars, LogInv, SleepersHaveReason, Full, ReservationHolds
  <2>5. QED
    BY Zenon, <2>2, <2>3, <2>4 DEF LogInv
<1>6. QED
  BY Zenon, <1>1, <1>2, <1>3, <1>4, <1>5 DEF Next, Halted

----------------------------------------------------------------------------

\* Finite sets count the way the steps assume.
LEMMA FiniteCounts ==
    ASSUME NEW T, IsFiniteSet(T)
    PROVE  Counts(T)
<1> SUFFICES ASSUME NEW S \in SUBSET T
             PROVE  /\ Cardinality(S) \in Nat
                    /\ Cardinality(S) = 0 <=> S = {}
                    /\ \A x \in T : x \notin S => Cardinality(S \cup {x}) = Cardinality(S) + 1
                    /\ \A x \in S : Cardinality(S \ {x}) = Cardinality(S) - 1
  BY Zenon DEF Counts
<1>1. IsFiniteSet(S)
  BY Zenon, FS_Subset
<1>2. Cardinality(S) \in Nat /\ (Cardinality(S) = 0 <=> S = {})
  BY Zenon, <1>1, FS_CardinalityType, FS_EmptySet
<1>3. \A x \in T : x \notin S => Cardinality(S \cup {x}) = Cardinality(S) + 1
  BY Zenon, <1>1, FS_AddElement
<1>4. \A x \in S : Cardinality(S \ {x}) = Cardinality(S) - 1
  BY Zenon, <1>1, FS_RemoveElement
<1>5. QED
  BY Zenon, <1>2, <1>3, <1>4

\* A row of a relation adds at most its own length.
LEMMA FiniteRows ==
    ASSUME NEW T, NEW U, IsFiniteSet(T), IsFiniteSet(U)
    PROVE  CountsRows(T, U)
<1> SUFFICES ASSUME NEW S \in SUBSET (T \X U), NEW x \in T, NEW W \in SUBSET U
             PROVE  Cardinality(S \cup ({x} \X W)) <= Cardinality(S) + Cardinality(W)
  BY Zenon DEF CountsRows
<1> DEFINE M == {x} \X W
<1>1. IsFiniteSet(S) /\ IsFiniteSet(W)
  <2>1. IsFiniteSet(T \X U)
    BY Zenon, FS_Product
  <2>2. QED
    BY Zenon, <2>1, FS_Subset
<1>2. Cardinality(S) \in Nat /\ Cardinality(W) \in Nat
  BY Zenon, <1>1, FS_CardinalityType
<1>3. IsFiniteSet(M) /\ Cardinality(M) = Cardinality(W)
  <2>1. IsFiniteSet({x}) /\ Cardinality({x}) = 1
    BY Zenon, FS_Singleton
  <2>2. IsFiniteSet(M) /\ Cardinality(M) = Cardinality({x}) * Cardinality(W)
    BY Zenon, <1>1, <2>1, FS_Product
  <2>3. QED
    BY <1>2, <2>1, <2>2
<1>4. Cardinality(S \cup M) = Cardinality(S) + Cardinality(M) - Cardinality(S \cap M)
  BY Zenon, <1>1, <1>3, FS_Union
<1>5. Cardinality(S \cap M) \in Nat
  <2>1. IsFiniteSet(S \cap M)
    BY Zenon, <1>1, FS_Intersection
  <2>2. QED
    BY Zenon, <2>1, FS_CardinalityType
<1> HIDE DEF M
<1>6. Cardinality(S \cup M) <= Cardinality(S) + Cardinality(W)
  BY <1>2, <1>3, <1>4, <1>5
<1>7. QED
  BY Zenon, <1>6 DEF M

LEMMA FiniteLog == LogCounts
<1>1. IsFiniteSet(Proc \X Block)
  BY Zenon, LogAssumption, FS_Product
<1>2. QED
  BY Zenon, <1>1, LogAssumption, FiniteCounts, FiniteRows DEF LogCounts

\* The invariant of the write-ahead log holds at every step, in every
\* interleaving of calls, commits, crashes and recoveries.
THEOREM LogInvariant == Spec => []LogInv
<1>1. Init => LogInv
  BY Zenon, FiniteLog, LogStarts
<1>2. LogInv /\ [Next]_vars => LogInv'
  BY Zenon, FiniteLog, LogPreserved
<1>3. QED
  BY <1>1, <1>2, PTL DEF Spec

\* No wakeup(&log) is lost or missing.
THEOREM NoLostLogWakeup == Spec => []SleepersHaveReason
<1>1. LogInv => SleepersHaveReason
  BY Zenon DEF LogInv
<1>2. QED
  BY <1>1, LogInvariant, PTL

\* The calls that begin_op() has admitted always fit in log.lh.
THEOREM Reservation == Spec => []ReservationHolds
<1>1. LogInv => ReservationHolds
  BY Zenon DEF LogInv
<1>2. QED
  BY <1>1, LogInvariant, PTL

----------------------------------------------------------------------------
(* What the calls see and what a reboot would find, block by block.        *)

LEMMA FoundAt ==
    ASSUME NEW s \in Seq(Block), Once(s), NEW i \in 1..Len(s)
    PROVE  (CHOOSE j \in DOMAIN s : s[j] = s[i]) = i
<1>1. DOMAIN s = 1..Len(s)
  OBVIOUS
<1>2. \A j \in DOMAIN s : s[j] = s[i] => j = i
  BY DEF Once
<1>3. QED
  OBVIOUS

LEMMA RecoveredAt ==
    ASSUME LogInv, LogInv'
    PROVE  /\ \A b \in Block : b \notin Range(hdr) => Recovered[b] = disk[b]
           /\ \A i \in 1..Len(hdr) : Recovered[hdr[i]] = logdisk[i]
           /\ \A b \in Block : b \notin Range(hdr') => Recovered'[b] = disk'[b]
           /\ \A i \in 1..Len(hdr') : Recovered'[hdr'[i]] = logdisk'[i]
<1>1. /\ hdr \in Seq(Block) /\ Once(hdr) /\ hdr' \in Seq(Block) /\ Once(hdr')
  BY Zenon DEF LogInv, LogTypeOK, Heads
<1>2. ASSUME NEW i \in 1..Len(hdr) PROVE Recovered[hdr[i]] = logdisk[i]
  <2>1. hdr[i] \in Block /\ hdr[i] \in Range(hdr)
    BY Zenon, <1>1, HeadBlocks
  <2>2. (CHOOSE j \in DOMAIN hdr : hdr[j] = hdr[i]) = i
    OBVIOUS
  <2>3. QED
    BY Zenon, <2>1, <2>2 DEF Recovered
<1>3. ASSUME NEW i \in 1..Len(hdr') PROVE Recovered'[hdr'[i]] = logdisk'[i]
  <2>1. hdr'[i] \in Block /\ hdr'[i] \in Range(hdr')
    BY Zenon, <1>1, HeadBlocks
  <2>2. (CHOOSE j \in DOMAIN hdr' : hdr'[j] = hdr'[i]) = i
    OBVIOUS
  <2>3. QED
    BY Zenon, <2>1, <2>2 DEF Recovered
<1>4. /\ \A b \in Block : b \notin Range(hdr) => Recovered[b] = disk[b]
      /\ \A b \in Block : b \notin Range(hdr') => Recovered'[b] = disk'[b]
  BY Zenon DEF Recovered
<1>5. QED
  BY Zenon, <1>2, <1>3, <1>4

LEMMA SameDisk ==
    ASSUME UNCHANGED <<disk, logdisk, hdr>>
    PROVE  Recovered' = Recovered
<1>1. disk' = disk /\ logdisk' = logdisk /\ hdr' = hdr
  OBVIOUS
<1>2. QED
  BY DEF Recovered

\* Two versions of the blocks that agree on each of them are the same.
LEMMA SameBlocks ==
    /\ (\A b \in Block : Recovered'[b] = Recovered[b]) => Recovered' = Recovered
    /\ ~Recovering /\ ~Recovering' /\ (\A b \in Block : Bread(b)' = Bread(b)) => View' = View
    /\ ~Recovering /\ (\A b \in Block : Recovered'[b] = Bread(b)) => Recovered' = View
    /\ ~Recovering' /\ (\A b \in Block : Recovered[b] = Bread(b)') => View' = Recovered
    /\ Recovering' => View' = Recovered'
    /\ Recovering => View = Recovered
<1>1. (\A b \in Block : Recovered'[b] = Recovered[b]) => Recovered' = Recovered
  BY Zenon DEF Recovered
<1>2. ~Recovering /\ ~Recovering' /\ (\A b \in Block : Bread(b)' = Bread(b)) => View' = View
  BY Zenon DEF View
<1>3. ~Recovering /\ (\A b \in Block : Recovered'[b] = Bread(b)) => Recovered' = View
  BY Zenon DEF Recovered, View
<1>4. ~Recovering' /\ (\A b \in Block : Recovered[b] = Bread(b)') => View' = Recovered
  BY Zenon DEF Recovered, View
<1>5. (Recovering' => View' = Recovered') /\ (Recovering => View = Recovered)
  BY Zenon DEF View
<1>6. QED
  BY Zenon, <1>1, <1>2, <1>3, <1>4, <1>5

\* A clean buffer that nobody has locked shows what the disk holds.
LEMMA CleanBuffer ==
    ASSUME LogInv, ~panicked, NEW b \in Block, b \notin dirty, \A q \in Proc : held[q] # b
    PROVE  Bread(b) = disk[b]
BY Zenon DEF LogInv, Dirty, Bread

\* A dirty buffer shows its own data.
LEMMA DirtyBuffer ==
    ASSUME LogInv, NEW b \in dirty
    PROVE  Bread(b) = cache[b]
BY Zenon DEF LogInv, Dirty, Bread

\* When the last end_op() has returned, what was written survives a crash.
THEOREM IdleDurable == Spec => []IdleMeansDurable
<1>1. ASSUME LogInv, phase = "idle", Active = {} PROVE Recovered = View
  <2>1. hdr = <<>> /\ lh = <<>> /\ Range(hdr) = {} /\ Range(lh) = {}
    BY Zenon, <1>1, NoHead DEF LogInv, Heads
  <2>2. dirty = {} /\ ~panicked
    BY Zenon, <1>1, <2>1 DEF LogInv, Dirty, Control
  <2>3. \A q \in Proc : held[q] = NoBlock
    BY Zenon, <1>1 DEF LogInv, Holding, Active
  <2>4. \A b \in Block : Bread(b) = disk[b]
    BY Zenon, <1>1, <2>2, <2>3, CleanBuffer, LogAssumption
  <2>5. QED
    BY Zenon, <2>1, <2>4 DEF Recovered, View
<1>2. LogInv => IdleMeansDurable
  BY Zenon, <1>1 DEF IdleMeansDurable
<1>3. QED
  BY <1>2, LogInvariant, PTL

----------------------------------------------------------------------------
(* Each step is a step of AtomicDisk, or changes none of its variables.    *)

Hidden == View' = View /\ Recovered' = Recovered /\ Active' = Active

LEMMA WriteLogHidden ==
    ASSUME LogInv, LogInv', WriteLog
    PROVE  Hidden
<1>1. /\ phase = "write_log" /\ hdr = <<>> /\ committing
      /\ UNCHANGED <<mvars, disk, hdr, dirty, lh, committing>>
      /\ cache' = [cache EXCEPT ![lh[tail]] = Bread(lh[tail])]
  BY Zenon DEF WriteLog, mvars, LogInv, Heads, Control, Recovers
<1>2. Recovered' = Recovered
  BY <1>1, NoHead, RecoveredAt, SameBlocks
<1>3. lh[tail] \in dirty /\ lh[tail] \in Block
  BY <1>1, HeadBlocks DEF LogInv, LogTypeOK, Heads, Dirty
<1>4. UNCHANGED cache
  BY <1>1, <1>3, DirtyBuffer DEF LogInv, LogTypeOK
<1>5. \A b \in Block : Bread(b)' = Bread(b)
  BY <1>1 DEF Bread
<1>6. QED
  BY Zenon, <1>1, <1>2, <1>5, SameBlocks, SameCalls DEF Hidden, Recovering

\* The write of the header makes all that the calls see durable at once.
LEMMA WriteHeadCommits ==
    ASSUME LogCounts, LogInv, LogInv', WriteHead
    PROVE  Atomic!Commit
<1>1. /\ phase = "write_head" /\ hdr' = lh /\ ~panicked /\ committing
      /\ UNCHANGED <<mvars, lh, cache, dirty, disk, logdisk, committing>>
  BY Zenon DEF WriteHead, mvars, cvars, LogInv, Control, Recovers
<1>2. Active = {} /\ \A p \in Proc : held[p] = NoBlock
  BY Zenon, <1>1, Quiet
<1>3. ASSUME NEW b \in Block PROVE Recovered'[b] = Bread(b)
  <2>1. CASE b \in Range(lh)
    <3>1. PICK i \in 1..Len(lh) : lh[i] = b
      BY Zenon, <2>1, HeadBlocks DEF LogInv, LogTypeOK
    <3>2. Recovered'[b] = logdisk[i]
      BY Zenon, <1>1, <3>1, RecoveredAt
    <3>3. logdisk[i] = cache[b] /\ b \in dirty
      BY Zenon, <1>1, <2>1, <3>1 DEF LogInv, Written, Dirty
    <3>4. QED
      BY Zenon, <3>2, <3>3, DirtyBuffer
  <2>2. CASE b \notin Range(lh)
    <3>1. b \notin dirty
      BY Zenon, <2>2 DEF LogInv, Dirty
    <3>2. Bread(b) = disk[b]
      BY Zenon, <1>1, <1>2, <3>1, CleanBuffer, LogAssumption
    <3>3. QED
      BY Zenon, <1>1, <2>2, <3>2, RecoveredAt
  <2>3. QED
    BY Zenon, <2>1, <2>2
<1>4. Recovered' = View
  BY Zenon, <1>1, <1>3, SameBlocks DEF Recovering
<1>5. \A b \in Block : Bread(b)' = Bread(b)
  BY Zenon, <1>1 DEF Bread
<1>6. View' = View
  BY Zenon, <1>1, <1>5, SameBlocks DEF Recovering
<1>7. QED
  BY Zenon, <1>1, <1>2, <1>4, <1>6, SameCalls DEF Atomic!Commit

LEMMA InstallHidden ==
    ASSUME LogInv, LogInv', Install
    PROVE  Hidden
<1> DEFINE b == lh[tail]
<1>1. /\ phase = "install" /\ hdr = lh /\ UNCHANGED <<mvars, logdisk, hdr, committing>>
      /\ disk' = [disk EXCEPT ![b] = logdisk[tail]]
      /\ cache' = [cache EXCEPT ![b] = logdisk[tail]]
      /\ phase' \in {"install", "erase"}
  BY Zenon DEF Install, NextTail, mvars, LogInv, Heads
<1>2. tail \in 1..Len(lh) /\ b \in Block /\ b \in Range(lh)
  BY Zenon, <1>1, HeadBlocks DEF LogInv, LogTypeOK, Heads
<1>3. /\ disk'[b] = logdisk[tail] /\ cache'[b] = logdisk[tail]
      /\ \A c \in Block \ {b} : disk'[c] = disk[c] /\ cache'[c] = cache[c]
  BY <1>1 DEF LogInv, LogTypeOK
<1> HIDE DEF b
<1>4. ASSUME NEW c \in Block PROVE Recovered'[c] = Recovered[c]
  <2>1. CASE c \in Range(hdr)
    <3>1. PICK i \in 1..Len(hdr) : hdr[i] = c
      BY Zenon, <2>1, HeadBlocks DEF LogInv, LogTypeOK
    <3>2. QED
      BY <1>1, <3>1, RecoveredAt
  <2>2. CASE c \notin Range(hdr)
    BY <1>1, <1>2, <2>2, RecoveredAt
  <2>3. QED
    BY Zenon, <2>1, <2>2
<1>5. Recovered' = Recovered
  BY Zenon, <1>4, SameBlocks
<1>6. CASE ~committing
  BY Zenon, <1>1, <1>5, <1>6, SameBlocks, SameCalls DEF Hidden, Recovering
<1>7. CASE committing
  <2>1. b \in dirty /\ logdisk[tail] = cache[b]
    BY <1>1, <1>2, <1>7 DEF LogInv, Dirty, Written, b
  <2>2. cache'[b] = cache[b] /\ cache[b] # Absent
    BY Zenon, <1>3, <2>1 DEF LogInv, Dirty
  <2>3. \A c \in Block : Bread(c)' = Bread(c)
    BY Zenon, <1>3, <2>2 DEF Bread
  <2>4. QED
    BY <1>1, <1>5, <2>3, SameBlocks, SameCalls DEF Hidden, Recovering
<1>8. QED
  BY Zenon, <1>6, <1>7

LEMMA EraseHidden ==
    ASSUME LogCounts, LogInv, LogInv', Erase
    PROVE  Hidden
<1>1. /\ phase = "erase" /\ hdr = lh /\ hdr' = <<>> /\ dirty = {} /\ ~panicked
      /\ UNCHANGED <<mvars, cache, disk, logdisk, committing>>
      /\ phase' = IF committing THEN "wake" ELSE "idle"
  BY Zenon DEF Erase, mvars, cvars, LogInv, Heads, Dirty
<1>2. ASSUME NEW b \in Block PROVE Recovered'[b] = disk[b] /\ Recovered[b] = disk[b]
  <2>1. Recovered'[b] = disk[b]
    BY Zenon, <1>1, NoHead, RecoveredAt
  <2>2. CASE b \in Range(hdr)
    <3>1. PICK i \in 1..Len(hdr) : hdr[i] = b
      BY Zenon, <2>2, HeadBlocks DEF LogInv, LogTypeOK
    <3>2. Recovered[b] = logdisk[i] /\ logdisk[i] = disk[b]
      BY <1>1, <3>1, RecoveredAt DEF LogInv, Written
    <3>3. QED
      BY Zenon, <2>1, <3>2
  <2>3. CASE b \notin Range(hdr)
    BY Zenon, <2>1, <2>3, RecoveredAt
  <2>4. QED
    BY Zenon, <2>2, <2>3
<1>3. Recovered' = Recovered
  BY Zenon, <1>2, SameBlocks
<1>4. \A b \in Block : Bread(b)' = Bread(b)
  BY Zenon, <1>1 DEF Bread
<1>5. CASE committing
  BY <1>1, <1>3, <1>4, <1>5, SameBlocks, SameCalls DEF Hidden, Recovering
<1>6. CASE ~committing
  <2>1. \A p \in Proc : held[p] = NoBlock
    BY Zenon, <1>1, Quiet
  <2>2. \A b \in Block : Bread(b) = disk[b]
    BY Zenon, <1>1, <2>1, CleanBuffer, LogAssumption
  <2>3. View' = Recovered
    BY Zenon, <1>2, <1>4, <2>2, SameBlocks
  <2>4. View = Recovered
    BY Zenon, <1>1, <1>6, SameBlocks DEF Recovering
  <2>5. QED
    BY Zenon, <1>1, <1>3, <2>3, <2>4, SameCalls DEF Hidden
<1>7. QED
  BY Zenon, <1>5, <1>6

\* Filling or recycling a clean buffer.
LEMMA BufferHidden ==
    ASSUME LogInv, LogInv', NEW b \in Block, Read(b) \/ Evict(b)
    PROVE  Hidden
<1>1. /\ UNCHANGED <<mvars, committing, phase, disk, logdisk, hdr>> /\ ~panicked
      /\ \A q \in Proc : held[q] # b
      /\ b \notin dirty /\ \E v \in {Absent, disk[b]} : cache' = [cache EXCEPT ![b] = v]
  BY Zenon DEF Read, Evict, mvars, dvars, LogInv, Dirty
<1>2. /\ cache'[b] \in {Absent, disk[b]}
      /\ \A c \in Block \ {b} : cache'[c] = cache[c]
  BY Zenon, <1>1 DEF LogInv, LogTypeOK
<1>3. Bread(b) = disk[b]
  BY Zenon, <1>1, CleanBuffer
<1>4. \A c \in Block : Bread(c)' = Bread(c)
  BY <1>1, <1>3 DEF Bread
<1>5. Recovered' = Recovered
  BY Zenon, <1>1, SameDisk
<1>6. View' = View
  BY <1>1, <1>4, <1>5, SameBlocks DEF Recovering
<1>7. QED
  BY <1>1, <1>5, <1>6, SameCalls DEF Hidden

\* The wakeup after a commit.
LEMMA WakeHidden ==
    ASSUME LogInv, LogInv', NEW p \in Proc, Wake(p)
    PROVE  Hidden
<1>1. /\ phase = "wake" /\ phase' = "idle" /\ committing
      /\ UNCHANGED <<cache, disk, logdisk, hdr>>
      /\ pc' = [Woken(pc) EXCEPT ![p] = "out"] /\ pc[p] = "commit"
  BY Zenon DEF Wake, cvars, dvars, LogInv, Control
<1>2. Recovered' = Recovered
  BY Zenon, <1>1, SameDisk
<1>3. View' = View
  BY Zenon, <1>1, SameBlocks DEF Bread, Recovering
<1>4. Active' = Active
  BY Zenon, <1>1 DEF Active, Woken
<1>5. QED
  BY Zenon, <1>2, <1>3, <1>4 DEF Hidden

\* The critical section of log_write().
LEMMA RecordHidden ==
    ASSUME LogInv, LogInv', NEW p \in Proc, Record(p)
    PROVE  Hidden
<1>1. /\ UNCHANGED <<cache, disk, logdisk, hdr, phase, committing>>
      /\ pc[p] = "log_write" /\ pc' = [pc EXCEPT ![p] = "in"]
  BY Zenon DEF Record, dvars
<1>2. Recovered' = Recovered
  BY Zenon, <1>1, SameDisk
<1>3. Active' = Active
  BY <1>1 DEF Active
<1>4. View' = View
  BY Zenon, <1>1, <1>2 DEF View, Bread, Recovering
<1>5. QED
  BY Zenon, <1>2, <1>3, <1>4 DEF Hidden

\* Recovery reads the header.
LEMMA ReadHeadHidden ==
    ASSUME LogInv, LogInv', ReadHead
    PROVE  Hidden
<1>1. UNCHANGED <<mvars, disk, logdisk, hdr>> /\ Recovering /\ Recovering'
  BY Zenon DEF ReadHead, dvars, Recovering, mvars, LogInv, Control, Commits
<1>2. QED
  BY Zenon, <1>1, SameDisk, SameBlocks, SameCalls DEF Hidden

LEMMA NothingHidden ==
    ASSUME UNCHANGED vars
    PROVE  Hidden
<1>1. UNCHANGED <<mvars, disk, logdisk, hdr, cache, phase, committing>>
  BY Zenon DEF vars, mvars
<1>2. Recovered' = Recovered /\ Active' = Active
  BY Zenon, <1>1, SameDisk, SameCalls
<1>3. QED
  BY Zenon, <1>1, <1>2 DEF Hidden, View, Bread, Recovering

\* begin_op() begins a transaction, or the caller sleeps.
LEMMA BeginOpBegins ==
    ASSUME LogInv, LogInv', NEW p \in Proc, BeginOp(p)
    PROVE  Atomic!Begin(p) \/ Hidden
<1>1. UNCHANGED <<disk, logdisk, hdr, cache, phase, committing>> /\ pc[p] \in {"out", "begin"}
      /\ pc' \in {[pc EXCEPT ![p] = "asleep"], [pc EXCEPT ![p] = "in"]}
  BY Zenon DEF BeginOp, cvars, dvars
<1>2. Recovered' = Recovered
  BY Zenon, <1>1, SameDisk
<1>3. View' = View
  BY Zenon, <1>1, <1>2 DEF View, Bread, Recovering
<1>4. p \notin Active /\ (Active' = Active \/ Active' = Active \cup {p})
  BY <1>1 DEF Active, LogInv, LogTypeOK
<1>5. QED
  BY Zenon, <1>2, <1>3, <1>4 DEF Hidden, Atomic!Begin

\* end_op() ends it; the commit is a step of its own.
LEMMA EndOpEnds ==
    ASSUME LogInv, LogInv', NEW p \in Proc, EndOp(p)
    PROVE  Atomic!End(p)
<1>1. /\ UNCHANGED <<disk, logdisk, hdr, cache>> /\ pc[p] = "in"
      /\ pc' \in {[pc EXCEPT ![p] = "commit"], [Woken(pc) EXCEPT ![p] = "out"]}
      /\ committing' \/ (UNCHANGED <<committing, phase>>)
  BY Zenon DEF EndOp, cvars, dvars
<1>2. Recovered' = Recovered
  BY Zenon, <1>1, SameDisk
<1>3. p \in Active /\ Active' = Active \ {p}
  BY Zenon, <1>1 DEF Active, Woken, LogInv, LogTypeOK
<1>4. ~Recovering /\ ~Recovering'
  BY Zenon, <1>1, <1>3, Working DEF Recovering
<1>5. View' = View
  BY Zenon, <1>1, <1>4, SameBlocks DEF Bread
<1>6. QED
  BY Zenon, <1>2, <1>3, <1>5 DEF Atomic!End

\* A call writes a block; only a crash can undo it.
LEMMA ModifyWrites ==
    ASSUME LogInv, LogInv', NEW p \in Proc, NEW b \in Block, NEW v \in Data, Modify(p, b, v)
    PROVE  Atomic!Write(p, b, v)
<1>1. /\ UNCHANGED <<disk, logdisk, hdr, phase, committing>> /\ pc[p] = "in"
      /\ pc' \in {pc, [pc EXCEPT ![p] = "log_write"]}
      /\ cache' = [cache EXCEPT ![b] = v]
  BY Zenon DEF Modify, dvars
<1>2. Recovered' = Recovered
  BY Zenon, <1>1, SameDisk
<1>3. p \in Active /\ Active' = Active
  BY Zenon, <1>1 DEF Active, LogInv, LogTypeOK
<1>4. ~Recovering /\ ~Recovering'
  BY Zenon, <1>1, <1>3, Working DEF Recovering
<1>5. Bread(b)' = v /\ \A c \in Block \ {b} : Bread(c)' = Bread(c)
  BY Zenon, <1>1, LogAssumption DEF Bread, LogInv, LogTypeOK
<1>6. View' = [View EXCEPT ![b] = v]
  BY Zenon, <1>4, <1>5 DEF View
<1>7. QED
  BY Zenon, <1>2, <1>3, <1>6 DEF Atomic!Write

\* After a crash the calls see what recovery finds.
LEMMA CrashReverts ==
    ASSUME LogInv, LogInv', Crash
    PROVE  Atomic!Crash
<1>1. Recovered' = Recovered
  BY Zenon, SameDisk DEF Crash, dvars
<1>2. Recovering' /\ Active' = {}
  BY Zenon DEF Crash, Recovering, Active
<1>3. View' = Recovered
  BY Zenon, <1>1, <1>2, SameBlocks
<1>4. QED
  BY Zenon, <1>1, <1>2, <1>3 DEF Atomic!Crash

\* The log implements a disk on which a crash undoes whole transactions only,
\* for any number of processes, blocks and crashes.
THEOREM LogIsAtomic == Spec => ImplementsAtomicDisk
<1>1. Init => Atomic!Init
  <2> SUFFICES ASSUME Init PROVE Atomic!Init
    OBVIOUS
  <2>1. Recovered = [b \in Block |-> FirstData]
    BY Zenon, NoHead DEF Init, Recovered
  <2>2. View = Recovered /\ Active = {}
    BY Zenon DEF Init, View, Recovering, Active
  <2>3. QED
    BY Zenon, <2>1, <2>2 DEF Atomic!Init
<1>2. LogInv /\ LogInv' /\ [Next]_vars => [Atomic!Next]_(Atomic!avars)
  <2> SUFFICES ASSUME LogInv, LogInv', [Next]_vars PROVE Atomic!Next \/ Hidden
    BY Zenon DEF Hidden, Atomic!avars
  <2>1. ASSUME NEW p \in Proc, Call(p) PROVE Atomic!Next \/ Hidden
    <3>1. CASE BeginOp(p)
      BY Zenon, <3>1, BeginOpBegins DEF Atomic!Next
    <3>2. CASE EndOp(p)
      BY Zenon, <3>2, EndOpEnds DEF Atomic!Next
    <3>3. CASE Record(p) \/ Wake(p)
      BY Zenon, <3>3, RecordHidden, WakeHidden
    <3>4. ASSUME NEW b \in Block, NEW v \in Data, Modify(p, b, v) PROVE Atomic!Next
      BY Zenon, <3>4, ModifyWrites DEF Atomic!Next
    <3>5. QED
      BY Zenon, <2>1, <3>1, <3>2, <3>3, <3>4 DEF Call
  <2>2. CASE DiskStep
    <3>1. CASE WriteHead
      BY Zenon, <3>1, FiniteLog, WriteHeadCommits DEF Atomic!Next
    <3>2. QED
BY Zenon, <2>2, <3>1, FiniteLog, WriteLogHidden, InstallHidden, EraseHidden,
           ReadHeadHidden DEF DiskStep
  <2>3. CASE \E b \in Block : Read(b) \/ Evict(b)
    BY Zenon, <2>3, BufferHidden
  <2>4. CASE Crash
    BY Zenon, <2>4, CrashReverts DEF Atomic!Next
  <2>5. CASE UNCHANGED vars
    BY Zenon, <2>5, NothingHidden
  <2>6. QED
    BY Zenon, <2>1, <2>2, <2>3, <2>4, <2>5 DEF Next, Halted
<1>3. QED
  BY <1>1, <1>2, LogInvariant, PTL DEF Spec, ImplementsAtomicDisk, Atomic!Spec
====
