---------------------------- MODULE BcacheSteps -----------------------------
(***************************************************************************)
(* The inductive invariant of Bcache, and that every step preserves it.    *)
(*                                                                         *)
(* The argument: a buffer with users is never recycled, since refcnt       *)
(* counts them, so a process that waits for its lock still has its block   *)
(* when it gets it; between acquiresleep() and releasesleep() nobody else  *)
(* touches it; and what is recycled is clean, hence a copy of the disk, so *)
(* dropping it loses nothing.                                              *)
(***************************************************************************)
EXTENDS Bcache, Counting, TLAPS

\* The provers' time for each leaf.
USE SMTT(60), ZenonT(60)

Users(b) == {p \in Thread : has[p] = b}
LockedAt == {"bread", "io", "io_sleep", "using"}

\* A process in the cache has a buffer, of the block it asked for.
HasBlock(p) ==
    /\ doing[p] = "idle" <=> has[p] = Nil
    /\ doing[p] # "idle" => want[p] \in Block /\ buf[has[p]].blockno = want[p]

\* The owner of a sleep lock is the one process between bread() and brelse().
HasLock(p) ==
    /\ doing[p] \in LockedAt => lock[has[p]] = p
    /\ doing[p] = "lock_sleep" => lock[has[p]] # Nil
    /\ doing[p] = "using" => buf[has[p]].valid
    /\ doing[p] = "io" => buf[has[p]].valid /\ ~buf[has[p]].dirty
Locked(b) == lock[b] # Nil => has[lock[b]] = b /\ doing[lock[b]] \in LockedAt

\* One buffer for a block.
Unique == \A b, c \in Buf : buf[b].blockno = buf[c].blockno
                            /\ buf[b].blockno # Nil => b = c
Counted(b) == buf[b].refcnt = Cardinality(Users(b))

\* A request is queued once, and for a process that sleeps.
Queued ==
    /\ \A p \in Thread :
        doing[p] = "io_sleep" => \E i \in 1..Len(idequeue) : idequeue[i] = has[p]
    /\ \A i \in 1..Len(idequeue) :
        \E p \in Thread : doing[p] = "io_sleep" /\ has[p] = idequeue[i]
    /\ \A i, j \in 1..Len(idequeue) : idequeue[i] = idequeue[j] => i = j

\* A clean valid buffer is a copy of its block, and only valid ones are dirty.
Copies(b) ==
    /\ buf[b].dirty => buf[b].valid
    /\ buf[b].valid => buf[b].blockno \in Block
    /\ buf[b].valid /\ ~buf[b].dirty => buf[b].data = disk[buf[b].blockno]

BcacheInv ==
    /\ BcacheTypeOK /\ Unique /\ Queued
    /\ \A p \in Thread : HasBlock(p) /\ HasLock(p)
    /\ \A b \in Buf : Locked(b) /\ Counted(b) /\ Copies(b)

----------------------------------------------------------------------------
\* Adding a process to a set of them and taking one away.
LEMMA CountUsers ==
    ASSUME Counts(Thread), NEW S \in SUBSET Thread
    PROVE  /\ Cardinality(S) \in Nat
           /\ Cardinality(S) = 0 <=> S = {}
           /\ \A p \in Thread : p \notin S => Cardinality(S \cup {p}) = Cardinality(S) + 1
           /\ \A p \in S : Cardinality(S \ {p}) = Cardinality(S) - 1
BY Zenon DEF Counts

\* A buffer with another count is a buffer.
LEMMA Recounted ==
    ASSUME NEW r \in Buffers, NEW k \in Nat
    PROVE  [r EXCEPT !.refcnt = k] \in Buffers
BY Zenon DEF Buffers

\* binit() leaves all buffers empty and unused.
LEMMA BcacheStarts ==
    ASSUME Counts(Thread), BcacheInit
    PROVE  BcacheInv
<1> PICK d \in Sector :
        buf = [b \in Buf |-> [blockno |-> Nil, valid |-> FALSE, dirty |-> FALSE,
                              refcnt |-> 0, data |-> d]]
  BY Zenon DEF BcacheInit
<1>1. BcacheTypeOK
  <2>1. buf \in [Buf -> Buffers]
    BY Zenon DEF Buffers
  <2>2. mru \in [Buf -> Buf] /\ idequeue \in Seq(Buf)
    BY BcacheAssumption DEF BcacheInit, Buf
  <2>3. QED
    BY Zenon, <2>1, <2>2 DEF BcacheInit, BcacheTypeOK, BcachePoints
<1>2. Unique /\ Queued
  BY DEF BcacheInit, Unique, Queued
<1>3. \A p \in Thread : HasBlock(p) /\ HasLock(p)
  BY Zenon DEF BcacheInit, HasBlock, HasLock, LockedAt
<1>4. ASSUME NEW b \in Buf PROVE Locked(b) /\ Counted(b) /\ Copies(b)
  <2>1. Users(b) = {}
    BY Zenon, BcacheAssumption DEF BcacheInit, Users
  <2>2. Counted(b)
    BY Zenon, <2>1, CountUsers DEF Counted
  <2>3. Locked(b) /\ Copies(b)
    BY Zenon DEF BcacheInit, Locked, Copies
  <2>4. QED
    BY Zenon, <2>2, <2>3
<1>5. QED
  BY Zenon, <1>1, <1>2, <1>3, <1>4 DEF BcacheInv

----------------------------------------------------------------------------
(* One lemma per action.                                                   *)

\* bget() finds the block: one more user, of a buffer that is not his yet.
LEMMA HitKeeps ==
    ASSUME Counts(Thread), BcacheInv, NEW p \in Thread, NEW n \in Block, Bget(p, n), BgetHit(p, n)
    PROVE  BcacheInv'
<1> PICK b \in Cached(n) :
        /\ buf' = [buf EXCEPT ![b].refcnt = @ + 1]
        /\ has' = [has EXCEPT ![p] = b]
        /\ doing' = [doing EXCEPT ![p] = "lock"]
        /\ UNCHANGED nobuffers
  BY Zenon DEF BgetHit
<1>0. /\ b \in Buf /\ buf[b].blockno = n /\ doing[p] = "idle" /\ has[p] = Nil
      /\ want' = [want EXCEPT ![p] = n]
      /\ UNCHANGED <<driver, lock, mru, idequeue, disk, nobuffers>>
  BY Zenon DEF BcacheInv, HasBlock, Bget, Cached
<1>1. BcacheTypeOK'
  <2>1. buf' \in [Buf -> Buffers]
    <3>1. buf[b] \in Buffers /\ buf[b].refcnt + 1 \in Nat
      BY <1>0 DEF BcacheInv, BcacheTypeOK, Buffers
    <3>2. [buf[b] EXCEPT !.refcnt = @ + 1] \in Buffers
      BY Zenon, <3>1, Recounted
    <3>3. QED
      BY Zenon, <1>0, <3>2 DEF BcacheInv, BcacheTypeOK
  <2>2. QED
    BY Zenon, <1>0, <2>1 DEF BcacheInv, BcacheTypeOK, BcachePoints
<1>2. \A c \in Buf : /\ buf'[c].blockno = buf[c].blockno
                     /\ buf'[c].valid = buf[c].valid /\ buf'[c].dirty = buf[c].dirty
                     /\ buf'[c].data = buf[c].data
                     /\ buf'[c].refcnt = IF c = b THEN buf[b].refcnt + 1 ELSE buf[c].refcnt
  BY <1>0 DEF BcacheInv, BcacheTypeOK, Buffers
<1>3. \A q \in Thread \ {p} : has'[q] = has[q] /\ doing'[q] = doing[q] /\ want'[q] = want[q]
  BY Zenon, <1>0 DEF BcacheInv, BcacheTypeOK
<1>4. has'[p] = b /\ doing'[p] = "lock" /\ want'[p] = n
  BY Zenon, <1>0 DEF BcacheInv, BcacheTypeOK
<1>5. Unique'
  BY <1>2 DEF BcacheInv, Unique
<1>6. Queued'
  BY <1>0, <1>3, <1>4 DEF BcacheInv, Queued
<1>7. ASSUME NEW q \in Thread PROVE HasBlock(q)' /\ HasLock(q)'
  BY <1>0, <1>2, <1>3, <1>4, BcacheAssumption
     DEF BcacheInv, BcacheTypeOK, HasBlock, HasLock, LockedAt
<1>8. ASSUME NEW c \in Buf PROVE Locked(c)' /\ Counted(c)' /\ Copies(c)'
  <2>1. Locked(c)'
    BY <1>0, <1>3, <1>4 DEF BcacheInv, BcacheTypeOK, Locked, LockedAt
  <2>2. Copies(c)'
    BY <1>0, <1>2 DEF BcacheInv, Copies
  <2>3. Users(c)' = IF c = b THEN Users(b) \cup {p} ELSE Users(c)
    BY Zenon, <1>0, <1>3, <1>4, BcacheAssumption DEF Users
  <2>4. p \notin Users(b)
    BY Zenon, <1>0, BcacheAssumption DEF Users
  <2>5. /\ buf[c].refcnt = Cardinality(Users(c))
        /\ Cardinality(Users(b) \cup {p}) = Cardinality(Users(b)) + 1
    <3>1. Users(b) \in SUBSET Thread
      BY Zenon DEF Users
    <3>2. QED
      BY Zenon, <3>1, <2>4, CountUsers DEF BcacheInv, Counted
  <2>6. Counted(c)'
    BY <1>2, <2>3, <2>5 DEF Counted
  <2>7. QED
    BY Zenon, <2>1, <2>2, <2>6
<1>9. QED
  BY Zenon, <1>1, <1>5, <1>6, <1>7, <1>8 DEF BcacheInv

\* bget() recycles a buffer that nobody uses: no process loses its block.
LEMMA MissKeeps ==
    ASSUME Counts(Thread), BcacheInv, NEW p \in Thread, NEW n \in Block, Bget(p, n), BgetMiss(p, n)
    PROVE  BcacheInv'
<1>0. /\ doing[p] = "idle" /\ has[p] = Nil /\ Cached(n) = {}
      /\ want' = [want EXCEPT ![p] = n]
      /\ UNCHANGED <<driver, lock, mru, idequeue, disk>>
  BY Zenon DEF BcacheInv, HasBlock, Bget, BgetMiss
<1>1. CASE Recyclable = {} /\ nobuffers' = TRUE /\ UNCHANGED <<buf, has, doing>>
  <2>1. BcacheTypeOK'
    BY Zenon, <1>0, <1>1 DEF BcacheInv, BcacheTypeOK
  <2>2. \A q \in Thread : HasBlock(q)' /\ HasLock(q)'
    BY <1>0, <1>1 DEF BcacheInv, BcacheTypeOK, HasBlock, HasLock
  <2>3. Unique' /\ Queued' /\ \A b \in Buf : Locked(b)' /\ Counted(b)' /\ Copies(b)'
    BY <1>0, <1>1 DEF BcacheInv, Unique, Queued, Locked, Counted, Users, Copies
  <2>4. QED
    BY Zenon, <2>1, <2>2, <2>3 DEF BcacheInv
<1>2. ASSUME NEW i \in Recyclable,
             buf' = [buf EXCEPT ![mru[i]] =
                      [blockno |-> n, valid |-> FALSE, dirty |-> FALSE,
                       refcnt |-> 1, data |-> @.data]],
             has' = [has EXCEPT ![p] = mru[i]],
             doing' = [doing EXCEPT ![p] = "lock"],
             UNCHANGED nobuffers
      PROVE  BcacheInv'
  <2> DEFINE b == mru[i]
  <2>1. b \in Buf /\ buf[b].refcnt = 0 /\ buf[b].data \in Sector
    BY Zenon DEF BcacheInv, BcacheTypeOK, Recyclable, Buffers
  <2>2. Users(b) = {}
    <3>1. Users(b) \in SUBSET Thread
      BY Zenon DEF Users
    <3>2. QED
      BY Zenon, <3>1, <2>1, CountUsers DEF BcacheInv, Counted
  <2>3. \A q \in Thread : has[q] # b
    BY Zenon, <2>2 DEF Users
  <2>4. lock[b] = Nil
    BY Zenon, <2>1, <2>3 DEF BcacheInv, BcacheTypeOK, Locked
  <2>5. /\ buf'[b] = [blockno |-> n, valid |-> FALSE, dirty |-> FALSE,
                      refcnt |-> 1, data |-> buf[b].data]
        /\ \A c \in Buf \ {b} : buf'[c] = buf[c]
    BY Zenon, <1>2, <2>1 DEF BcacheInv, BcacheTypeOK
  <2>6. /\ has'[p] = b /\ doing'[p] = "lock" /\ want'[p] = n
        /\ \A q \in Thread \ {p} :
            has'[q] = has[q] /\ doing'[q] = doing[q] /\ want'[q] = want[q]
    BY Zenon, <1>0, <1>2 DEF BcacheInv, BcacheTypeOK
  <2> HIDE DEF b
  <2>7. BcacheTypeOK'
    <3>1. buf'[b] \in Buffers
      BY <2>1, <2>5 DEF Buffers
    <3>2. buf' \in [Buf -> Buffers]
      BY Zenon, <1>2, <2>1, <2>5, <3>1 DEF BcacheInv, BcacheTypeOK, b
    <3>3. has' \in [Thread -> Buf \cup {Nil}] /\ doing' \in [Thread -> BcachePoints]
      BY Zenon, <1>2, <2>1 DEF BcacheInv, BcacheTypeOK, BcachePoints, b
    <3>4. QED
      BY Zenon, <1>0, <1>2, <3>2, <3>3 DEF BcacheInv, BcacheTypeOK
  <2>8. Unique'
    BY <1>0, <2>5 DEF BcacheInv, Unique, Cached
  <2>9. Queued'
    BY <1>0, <2>6 DEF BcacheInv, Queued
  <2>10. ASSUME NEW q \in Thread PROVE HasBlock(q)' /\ HasLock(q)'
    <3>1. CASE q = p
      BY SMTT(30), <3>1, <2>1, <2>5, <2>6, BcacheAssumption DEF HasBlock, HasLock, LockedAt
    <3>2. CASE q # p
      BY <3>2, <1>0, <2>3, <2>5, <2>6
         DEF BcacheInv, BcacheTypeOK, HasBlock, HasLock, LockedAt
    <3>3. QED
      BY Zenon, <3>1, <3>2
  <2>11. ASSUME NEW c \in Buf PROVE Locked(c)' /\ Counted(c)' /\ Copies(c)'
    <3>1. Locked(c)'
      BY SMTT(30), <1>0, <2>4, <2>6 DEF BcacheInv, BcacheTypeOK, Locked, LockedAt
    <3>2. Copies(c)'
      BY <1>0, <2>1, <2>5 DEF BcacheInv, Copies
    <3>3. Users(c)' = IF c = b THEN {} \cup {p} ELSE Users(c)
      BY <1>0, <2>2, <2>3, <2>6, BcacheAssumption DEF Users
    <3>4. Cardinality({} \cup {p}) = 0 + 1
      BY Zenon, CountUsers
    <3>5. buf'[c].refcnt = IF c = b THEN 1 ELSE Cardinality(Users(c))
      BY <2>5 DEF BcacheInv, Counted
    <3>6. Counted(c)'
      BY <3>3, <3>4, <3>5 DEF Counted
    <3>7. QED
      BY SMTT(30), <3>1, <3>2, <3>6
  <2>12. QED
    BY Zenon, <2>7, <2>8, <2>9, <2>10, <2>11 DEF BcacheInv
<1>3. QED
  BY Zenon, <1>1, <1>2 DEF BgetMiss

\* What depends on the buffers and their users alone.
LEMMA SameBuffers ==
    ASSUME BcacheInv, UNCHANGED <<buf, has, disk>>
    PROVE  Unique' /\ \A b \in Buf : Counted(b)' /\ Copies(b)'
BY Zenon DEF BcacheInv, Unique, Counted, Users, Copies

\* acquiresleep() takes the lock when it is free, and sleeps when it is not.
LEMMA AcquiresleepKeeps ==
    ASSUME BcacheInv, NEW p \in Thread, Acquiresleep(p)
    PROVE  BcacheInv'
<1>0. /\ doing[p] = "lock" /\ has[p] \in Buf
      /\ UNCHANGED <<driver, buf, mru, idequeue, disk, want, has, nobuffers>>
  BY Zenon DEF BcacheInv, BcacheTypeOK, HasBlock, Acquiresleep
<1>1. Unique' /\ \A b \in Buf : Counted(b)' /\ Copies(b)'
  BY Zenon, <1>0, SameBuffers
<1>2. \/ /\ lock[has[p]] = Nil /\ lock' = [lock EXCEPT ![has[p]] = p]
         /\ doing' = [doing EXCEPT ![p] = "bread"]
      \/ /\ lock[has[p]] # Nil /\ UNCHANGED lock
         /\ doing' = [doing EXCEPT ![p] = "lock_sleep"]
  BY Zenon DEF Acquiresleep
<1>3. BcacheTypeOK'
  BY <1>0, <1>2 DEF BcacheInv, BcacheTypeOK, BcachePoints
<1>4. Queued'
  BY <1>0, <1>2 DEF BcacheInv, BcacheTypeOK, Queued
<1>5. ASSUME NEW q \in Thread PROVE HasBlock(q)' /\ HasLock(q)'
  BY <1>0, <1>2, BcacheAssumption
     DEF BcacheInv, BcacheTypeOK, HasBlock, HasLock, LockedAt
<1>6. ASSUME NEW c \in Buf PROVE Locked(c)'
  BY <1>0, <1>2 DEF BcacheInv, BcacheTypeOK, Locked, LockedAt
<1>7. QED
  BY Zenon, <1>1, <1>3, <1>4, <1>5, <1>6 DEF BcacheInv

\* A process that has the lock goes on without touching the buffer.
LEMMA UsesKeeps ==
    ASSUME BcacheInv, NEW p \in Thread, doing[p] \in {"bread", "io"},
           buf[has[p]].valid, doing' = [doing EXCEPT ![p] = "using"],
           UNCHANGED <<driver, buf, lock, mru, idequeue, disk, want, has, nobuffers>>
    PROVE  BcacheInv'
<1>1. Unique' /\ \A b \in Buf : Counted(b)' /\ Copies(b)'
  BY Zenon, SameBuffers
<1>2. BcacheTypeOK'
  BY Zenon DEF BcacheInv, BcacheTypeOK, BcachePoints
<1>3. Queued'
  BY Zenon DEF BcacheInv, BcacheTypeOK, Queued
<1>4. ASSUME NEW q \in Thread PROVE HasBlock(q)' /\ HasLock(q)'
  BY DEF BcacheInv, BcacheTypeOK, HasBlock, HasLock, LockedAt
<1>5. ASSUME NEW c \in Buf PROVE Locked(c)'
  BY DEF BcacheInv, BcacheTypeOK, Locked, LockedAt
<1>6. QED
  BY Zenon, <1>1, <1>2, <1>3, <1>4, <1>5 DEF BcacheInv

\* brelse() gives the lock up and wakes those that wait for it.
LEMMA BrelseUnlockKeeps ==
    ASSUME BcacheInv, NEW p \in Thread, BrelseUnlock(p)
    PROVE  BcacheInv'
<1>0. /\ doing[p] = "using" /\ has[p] \in Buf /\ lock[has[p]] = p
      /\ lock' = [lock EXCEPT ![has[p]] = Nil]
      /\ UNCHANGED <<driver, buf, mru, idequeue, disk, want, has, nobuffers>>
BY Zenon DEF BcacheInv, BcacheTypeOK, HasBlock, HasLock, LockedAt, BrelseUnlock,
       Releasesleep
<1>1. /\ doing' \in [Thread -> BcachePoints]
      /\ doing'[p] = "drop"
      /\ \A q \in Thread \ {p} :
          doing'[q] = IF doing[q] = "lock_sleep" /\ has[q] = has[p] THEN "lock" ELSE doing[q]
  BY Zenon, <1>0 DEF BcacheInv, BcacheTypeOK, BcachePoints, BrelseUnlock, Releasesleep, Wake
<1>2. Unique' /\ \A b \in Buf : Counted(b)' /\ Copies(b)'
  BY Zenon, <1>0, SameBuffers
<1>3. BcacheTypeOK'
  BY Zenon, <1>0, <1>1 DEF BcacheInv, BcacheTypeOK
<1>4. Queued'
  BY <1>0, <1>1 DEF BcacheInv, Queued
<1>5. ASSUME NEW q \in Thread PROVE HasBlock(q)' /\ HasLock(q)'
  <2>1. HasBlock(q)'
    BY Zenon, <1>0, <1>1 DEF BcacheInv, HasBlock
  <2>2. HasLock(q)'
    BY <1>0, <1>1 DEF BcacheInv, BcacheTypeOK, HasBlock, HasLock, LockedAt
  <2>3. QED
    BY Zenon, <2>1, <2>2
<1>6. ASSUME NEW c \in Buf PROVE Locked(c)'
  BY <1>0, <1>1 DEF BcacheInv, BcacheTypeOK, Locked, LockedAt
<1>7. QED
  BY Zenon, <1>2, <1>3, <1>4, <1>5, <1>6 DEF BcacheInv

\* brelse() drops the reference; the list stays a list of buffers.
LEMMA BrelseKeeps ==
    ASSUME Counts(Thread), BcacheInv, NEW p \in Thread, Brelse(p)
    PROVE  BcacheInv'
<1> DEFINE b == has[p]
<1>0. /\ doing[p] = "drop" /\ b \in Buf /\ buf[b] \in Buffers
      /\ buf' = [buf EXCEPT ![b].refcnt = @ - 1]
      /\ mru' = IF buf[b].refcnt = 1 THEN ToFront(b) ELSE mru
      /\ doing' = [doing EXCEPT ![p] = "idle"]
      /\ want' = [want EXCEPT ![p] = Nil] /\ has' = [has EXCEPT ![p] = Nil]
      /\ UNCHANGED <<driver, lock, idequeue, disk, nobuffers>>
  BY Zenon DEF BcacheInv, BcacheTypeOK, HasBlock, Brelse
<1>1. /\ p \in Users(b) /\ buf[b].refcnt = Cardinality(Users(b))
      /\ Cardinality(Users(b) \ {p}) = Cardinality(Users(b)) - 1
      /\ buf[b].refcnt - 1 \in Nat
  <2>1. p \in Users(b) /\ Users(b) \in SUBSET Thread /\ Users(b) \ {p} \in SUBSET Thread
    BY Zenon DEF Users
  <2>2. Cardinality(Users(b) \ {p}) \in Nat
    BY Zenon, <2>1, CountUsers
  <2>3. Cardinality(Users(b) \ {p}) = Cardinality(Users(b)) - 1
    BY Zenon, <2>1, CountUsers
  <2>4. buf[b].refcnt = Cardinality(Users(b))
    BY Zenon, <1>0 DEF BcacheInv, Counted
  <2>5. QED
    BY Zenon, <2>1, <2>2, <2>3, <2>4
<1>2. \A c \in Buf : /\ buf'[c].blockno = buf[c].blockno
                     /\ buf'[c].valid = buf[c].valid /\ buf'[c].dirty = buf[c].dirty
                     /\ buf'[c].data = buf[c].data
                     /\ buf'[c].refcnt = IF c = b THEN buf[b].refcnt - 1 ELSE buf[c].refcnt
  BY Zenon, <1>0 DEF BcacheInv, BcacheTypeOK, Buffers
<1>3. /\ has'[p] = Nil /\ doing'[p] = "idle"
      /\ \A q \in Thread \ {p} :
          has'[q] = has[q] /\ doing'[q] = doing[q] /\ want'[q] = want[q]
  BY Zenon, <1>0 DEF BcacheInv, BcacheTypeOK
<1> HIDE DEF b
<1>4. BcacheTypeOK'
  <2>1. [buf[b] EXCEPT !.refcnt = @ - 1] \in Buffers
    BY Zenon, <1>0, <1>1, Recounted
  <2>2. buf' \in [Buf -> Buffers]
    BY Zenon, <1>0, <2>1 DEF BcacheInv, BcacheTypeOK
  <2>3. mru' \in [Buf -> Buf]
    <3>1. mru \in [Buf -> Buf]
      BY Zenon DEF BcacheInv, BcacheTypeOK
    <3>2. ToFront(b) \in [Buf -> Buf]
      BY <1>0, <3>1, BcacheAssumption DEF ToFront, Buf
    <3>3. QED
      BY Zenon, <1>0, <3>1, <3>2
  <2>4. QED
    BY Zenon, <1>0, <2>2, <2>3 DEF BcacheInv, BcacheTypeOK, BcachePoints
<1>5. Unique'
  BY <1>2 DEF BcacheInv, Unique
<1>6. Queued'
  BY <1>0, <1>3 DEF BcacheInv, Queued
<1>7. ASSUME NEW q \in Thread PROVE HasBlock(q)' /\ HasLock(q)'
  BY <1>0, <1>2, <1>3, BcacheAssumption
     DEF BcacheInv, BcacheTypeOK, HasBlock, HasLock, LockedAt
<1>8. ASSUME NEW c \in Buf PROVE Locked(c)' /\ Counted(c)' /\ Copies(c)'
  <2>1. Locked(c)'
    BY <1>0, <1>3 DEF BcacheInv, BcacheTypeOK, Locked, LockedAt
  <2>2. Copies(c)'
    BY <1>0, <1>2 DEF BcacheInv, Copies
  <2>3. Users(c)' = IF c = b THEN Users(b) \ {p} ELSE Users(c)
    BY Zenon, <1>0, <1>3, BcacheAssumption DEF Users, b
  <2>4. Counted(c)'
    BY Zenon, <1>1, <1>2, <2>3 DEF BcacheInv, Counted
  <2>5. QED
    BY Zenon, <2>1, <2>2, <2>4
<1>9. QED
  BY Zenon, <1>4, <1>5, <1>6, <1>7, <1>8 DEF BcacheInv

----------------------------------------------------------------------------
(* Steps that change the contents of one buffer, which stays that of its   *)
(* block and keeps its users.                                              *)

\* What does not depend on contents, when buffer b becomes r.
LEMMA Refilled ==
    ASSUME BcacheInv, NEW b \in Buf, NEW r \in Buffers,
           r.blockno = buf[b].blockno, r.refcnt = buf[b].refcnt,
           buf' = [buf EXCEPT ![b] = r], UNCHANGED <<want, has>>
    PROVE  /\ buf' \in [Buf -> Buffers] /\ buf'[b] = r
           /\ \A c \in Buf \ {b} : buf'[c] = buf[c]
           /\ \A c \in Buf : buf'[c].blockno = buf[c].blockno
           /\ Unique' /\ \A c \in Buf : Counted(c)'
<1>1. /\ buf' \in [Buf -> Buffers] /\ buf'[b] = r
      /\ \A c \in Buf \ {b} : buf'[c] = buf[c]
  BY Zenon DEF BcacheInv, BcacheTypeOK
<1>2. \A c \in Buf : buf'[c].blockno = buf[c].blockno /\ buf'[c].refcnt = buf[c].refcnt
  BY Zenon, <1>1
<1>3. Unique'
  BY <1>2 DEF BcacheInv, Unique
<1>4. ASSUME NEW c \in Buf PROVE Counted(c)'
  BY Zenon, <1>2 DEF BcacheInv, Counted, Users
<1>5. QED
  BY Zenon, <1>1, <1>2, <1>3, <1>4

\* The owner of a buffer's lock has it alone.
LEMMA Alone ==
    ASSUME BcacheInv, NEW p \in Thread, doing[p] \in LockedAt
    PROVE  /\ has[p] \in Buf /\ lock[has[p]] = p /\ buf[has[p]] \in Buffers
           /\ buf[has[p]].blockno = want[p] /\ want[p] \in Block
           /\ \A q \in Thread \ {p} : has[q] = has[p] => doing[q] \notin LockedAt
BY DEF BcacheInv, BcacheTypeOK, HasBlock, HasLock, LockedAt

\* log_write() makes the buffer dirty.
LEMMA LogWriteKeeps ==
    ASSUME BcacheInv, NEW p \in Thread, NEW v \in Sector, LogWrite(p, v)
    PROVE  BcacheInv'
<1> DEFINE b == has[p]
           r == [buf[b] EXCEPT !.data = v, !.dirty = TRUE]
<1>0. /\ doing[p] = "using"
      /\ UNCHANGED <<driver, lock, mru, idequeue, disk, doing, want, has, nobuffers>>
  BY Zenon DEF LogWrite
<1>1. /\ b \in Buf /\ lock[b] = p /\ buf[b] \in Buffers /\ buf[b].valid
      /\ buf[b].blockno \in Block
      /\ \A q \in Thread \ {p} : has[q] = b => doing[q] \notin LockedAt
  BY Zenon, <1>0, Alone DEF BcacheInv, HasLock, LockedAt
<1>2. /\ r \in Buffers /\ r.blockno = buf[b].blockno /\ r.refcnt = buf[b].refcnt
      /\ r.valid /\ r.dirty
  BY Zenon, <1>1 DEF Buffers
<1>3. buf' = [buf EXCEPT ![b] = r]
  BY Zenon, <1>1 DEF LogWrite, BcacheInv, BcacheTypeOK
<1> HIDE DEF b, r
<1>4. /\ buf' \in [Buf -> Buffers] /\ buf'[b] = r
      /\ \A c \in Buf \ {b} : buf'[c] = buf[c]
      /\ \A c \in Buf : buf'[c].blockno = buf[c].blockno
      /\ Unique' /\ \A c \in Buf : Counted(c)'
  BY Zenon, <1>0, <1>1, <1>2, <1>3, Refilled
<1>5. BcacheTypeOK' /\ Queued'
  BY <1>0, <1>4 DEF BcacheInv, BcacheTypeOK, Queued
<1>6. ASSUME NEW q \in Thread PROVE HasBlock(q)' /\ HasLock(q)'
  <2>1. HasBlock(q)'
    BY Zenon, <1>0, <1>4 DEF BcacheInv, BcacheTypeOK, HasBlock
  <2>2. HasLock(q)'
    <3>1. CASE q = p
      BY Zenon, <3>1, <1>0, <1>1, <1>2, <1>4 DEF HasLock, LockedAt, b
    <3>2. CASE q # p
      BY <3>2, <1>0, <1>1, <1>4 DEF BcacheInv, BcacheTypeOK, HasBlock, HasLock, LockedAt
    <3>3. QED
      BY SMTT(30), <3>1, <3>2
  <2>3. QED
    BY Zenon, <2>1, <2>2
<1>7. ASSUME NEW c \in Buf PROVE Locked(c)' /\ Copies(c)'
  <2>1. Locked(c)'
    BY Zenon, <1>0 DEF BcacheInv, Locked
  <2>2. Copies(c)'
    BY ZenonT(30), <1>0, <1>1, <1>2, <1>4 DEF BcacheInv, Copies
  <2>3. QED
    BY SMTT(30), <2>1, <2>2
<1>8. QED
  BY Zenon, <1>4, <1>5, <1>6, <1>7 DEF BcacheInv

\* A buffer that iderw() is called for: to be read, or changed.
Request(p, r) ==
    /\ doing[p] \in {"bread", "using"}
    /\ r \in Buffers /\ r.blockno = buf[has[p]].blockno /\ r.refcnt = buf[has[p]].refcnt
    /\ r.dirty <=> r.valid

\* iderw() of ide.c queues a buffer that was not queued.
LEMMA IdeAppendKeeps ==
    ASSUME BcacheInv, NEW p \in Thread, NEW r, Request(p, r), IdeAppend(p, r),
           UNCHANGED <<driver, lock, mru, want, has, nobuffers>>
    PROVE  BcacheInv'
<1> DEFINE b == has[p]
<1>0. /\ buf' = [buf EXCEPT ![b] = r] /\ idequeue' = Append(idequeue, b)
      /\ doing' = [doing EXCEPT ![p] = "io_sleep"] /\ UNCHANGED disk
      /\ doing[p] \in {"bread", "using"}
  BY Zenon DEF IdeAppend, Request
<1>1. /\ b \in Buf /\ lock[b] = p /\ buf[b].blockno \in Block
      /\ \A q \in Thread \ {p} : has[q] = b => doing[q] \notin LockedAt
  BY Zenon, <1>0, Alone DEF LockedAt
<1>2. /\ r \in Buffers /\ r.blockno = buf[b].blockno /\ r.refcnt = buf[b].refcnt
      /\ r.dirty <=> r.valid
  BY Zenon DEF Request
<1>3. /\ buf' \in [Buf -> Buffers] /\ buf'[b] = r
      /\ \A c \in Buf \ {b} : buf'[c] = buf[c]
      /\ \A c \in Buf : buf'[c].blockno = buf[c].blockno
      /\ Unique' /\ \A c \in Buf : Counted(c)'
  BY Zenon, <1>0, <1>1, <1>2, Refilled
<1>4. BcacheTypeOK'
  BY SMTT(30), <1>0, <1>1, <1>3 DEF BcacheInv, BcacheTypeOK, BcachePoints
<1>5. Queued'
  <2>1. /\ Len(idequeue) \in Nat /\ Len(idequeue') = Len(idequeue) + 1
        /\ idequeue'[Len(idequeue) + 1] = b
        /\ \A i \in 1..Len(idequeue) : idequeue'[i] = idequeue[i]
    BY <1>0, <1>1 DEF BcacheInv, BcacheTypeOK
  <2>2. \A i \in 1..Len(idequeue) : idequeue[i] # b
    BY <1>0, <1>1 DEF BcacheInv, Queued, LockedAt
  <2>3. /\ doing'[p] = "io_sleep"
        /\ \A q \in Thread \ {p} : doing'[q] = doing[q]
    BY SMTT(30), <1>0 DEF BcacheInv, BcacheTypeOK
  <2>4. \A q \in Thread : doing'[q] = "io_sleep" =>
            \E i \in 1..Len(idequeue') : idequeue'[i] = has'[q]
    BY <2>1, <2>3 DEF BcacheInv, Queued
  <2>5. ASSUME NEW i \in 1..Len(idequeue')
        PROVE  \E q \in Thread : doing'[q] = "io_sleep" /\ has'[q] = idequeue'[i]
    <3>1. CASE i = Len(idequeue) + 1
      BY Zenon, <3>1, <1>0, <2>1, <2>3
    <3>2. CASE i \in 1..Len(idequeue)
      <4>1. PICK q \in Thread : doing[q] = "io_sleep" /\ has[q] = idequeue[i]
        BY Zenon, <3>2 DEF BcacheInv, Queued
      <4>2. QED
        BY SMTT(30), <3>2, <4>1, <1>0, <2>1, <2>3
    <3>3. QED
      BY SMTT(30), <3>1, <3>2, <2>1
  <2>6. \A i, j \in 1..Len(idequeue') : idequeue'[i] = idequeue'[j] => i = j
    BY <2>1, <2>2 DEF BcacheInv, Queued
  <2>7. QED
    BY Zenon, <2>4, <2>5, <2>6 DEF Queued
<1>6. ASSUME NEW q \in Thread PROVE HasBlock(q)' /\ HasLock(q)'
  <2>1. HasBlock(q)'
    BY SMTT(30), <1>0, <1>3 DEF BcacheInv, BcacheTypeOK, HasBlock
  <2>2. HasLock(q)'
    BY <1>0, <1>1, <1>3 DEF BcacheInv, BcacheTypeOK, HasBlock, HasLock, LockedAt
  <2>3. QED
    BY Zenon, <2>1, <2>2
<1>7. ASSUME NEW c \in Buf PROVE Locked(c)' /\ Copies(c)'
  <2>1. Locked(c)'
    BY SMTT(30), <1>0, <1>1 DEF BcacheInv, BcacheTypeOK, Locked, LockedAt
  <2>2. Copies(c)'
    BY Zenon, <1>0, <1>1, <1>2, <1>3 DEF BcacheInv, Copies
  <2>3. QED
    BY Zenon, <2>1, <2>2
<1>8. QED
  BY ZenonT(30), <1>3, <1>4, <1>5, <1>6, <1>7 DEF BcacheInv


\* After a transfer the buffer is a clean copy of its block, and no other
\* block has changed.
LEMMA Transferred ==
    ASSUME NEW r \in Buffers, r.blockno \in Block, NEW d \in [Block -> Sector]
    PROVE  /\ Done(r, d) \in Buffers
           /\ Done(r, d).blockno = r.blockno /\ Done(r, d).refcnt = r.refcnt
           /\ Done(r, d).valid /\ ~Done(r, d).dirty
           /\ Done(r, d).data = IF r.dirty THEN r.data ELSE d[r.blockno]
           /\ Stored(r, d) \in [Block -> Sector]
           /\ Done(r, d).data = Stored(r, d)[r.blockno]
           /\ \A n \in Block \ {r.blockno} : Stored(r, d)[n] = d[n]
<1> DEFINE x == IF r.dirty THEN r.data ELSE d[r.blockno]
<1>1. r.data \in Sector /\ d[r.blockno] \in Sector
  BY Zenon DEF Buffers
<1>2. x \in Sector
  BY Zenon, <1>1
<1>3. Done(r, d) = [r EXCEPT !.valid = TRUE, !.dirty = FALSE, !.data = x]
  BY Zenon DEF Done, Buffers
<1>4. Stored(r, d) = IF r.dirty THEN [d EXCEPT ![r.blockno] = r.data] ELSE d
  BY Zenon DEF Stored
<1>5. /\ Stored(r, d) \in [Block -> Sector] /\ Stored(r, d)[r.blockno] = x
      /\ \A n \in Block \ {r.blockno} : Stored(r, d)[n] = d[n]
  BY Zenon, <1>1, <1>4
<1> HIDE DEF x
<1>6. /\ Done(r, d) \in Buffers
      /\ Done(r, d).blockno = r.blockno /\ Done(r, d).refcnt = r.refcnt
      /\ Done(r, d).valid /\ ~Done(r, d).dirty /\ Done(r, d).data = x
  BY Zenon, <1>2, <1>3 DEF Buffers
<1>7. QED
  BY Zenon, <1>5, <1>6 DEF x

\* The buffers and the disk after the transfer of buffer b.
LEMMA TransferKeeps ==
    ASSUME BcacheInv, NEW b \in Buf, NEW r \in Buffers, buf[b].blockno \in Block,
           r.blockno = buf[b].blockno, r.refcnt = buf[b].refcnt,
           buf' = [buf EXCEPT ![b] = Done(r, disk)], disk' = Stored(r, disk),
           UNCHANGED <<want, has>>
    PROVE  /\ buf' \in [Buf -> Buffers] /\ disk' \in [Block -> Sector]
           /\ buf'[b].valid /\ ~buf'[b].dirty
           /\ \A c \in Buf \ {b} : buf'[c] = buf[c]
           /\ \A c \in Buf : buf'[c].blockno = buf[c].blockno
           /\ Unique' /\ \A c \in Buf : Counted(c)' /\ Copies(c)'
<1>0. disk \in [Block -> Sector]
  BY Zenon DEF BcacheInv, BcacheTypeOK
<1>1. /\ Done(r, disk) \in Buffers
      /\ Done(r, disk).blockno = buf[b].blockno /\ Done(r, disk).refcnt = buf[b].refcnt
      /\ Done(r, disk).valid /\ ~Done(r, disk).dirty
      /\ disk' \in [Block -> Sector]
      /\ Done(r, disk).data = disk'[buf[b].blockno]
      /\ \A n \in Block \ {buf[b].blockno} : disk'[n] = disk[n]
  BY <1>0, Transferred
<1>2. /\ buf' \in [Buf -> Buffers] /\ buf'[b] = Done(r, disk)
      /\ \A c \in Buf \ {b} : buf'[c] = buf[c]
      /\ \A c \in Buf : buf'[c].blockno = buf[c].blockno
      /\ Unique' /\ \A c \in Buf : Counted(c)'
  BY Zenon, <1>1, Refilled
<1>3. ASSUME NEW c \in Buf PROVE Copies(c)'
  <2>1. CASE c = b
    BY Zenon, <2>1, <1>1, <1>2 DEF Copies
  <2>2. CASE c # b
    <3>1. buf[c].blockno \in Block => buf[c].blockno # buf[b].blockno
      BY Zenon, <2>2, BcacheAssumption DEF BcacheInv, Unique
    <3>2. QED
      BY <2>2, <3>1, <1>1, <1>2 DEF BcacheInv, Copies
  <2>3. QED
    BY Zenon, <2>1, <2>2
<1>4. QED
  BY Zenon, <1>1, <1>2, <1>3

\* iderw() of memide.c.
LEMMA MemCopyKeeps ==
    ASSUME BcacheInv, NEW p \in Thread, NEW r, Request(p, r), MemCopy(p, r),
           UNCHANGED <<driver, lock, mru, want, has, nobuffers>>
    PROVE  BcacheInv'
<1> DEFINE b == has[p]
<1>0. /\ buf' = [buf EXCEPT ![b] = Done(r, disk)] /\ disk' = Stored(r, disk)
      /\ doing' = [doing EXCEPT ![p] = "using"] /\ UNCHANGED idequeue
      /\ doing[p] \in {"bread", "using"}
  BY Zenon DEF MemCopy, Request
<1>1. /\ b \in Buf /\ lock[b] = p /\ buf[b].blockno \in Block
      /\ \A q \in Thread \ {p} : has[q] = b => doing[q] \notin LockedAt
  BY Zenon, <1>0, Alone DEF LockedAt
<1>2. /\ buf' \in [Buf -> Buffers] /\ disk' \in [Block -> Sector]
      /\ buf'[b].valid /\ ~buf'[b].dirty
      /\ \A c \in Buf \ {b} : buf'[c] = buf[c]
      /\ \A c \in Buf : buf'[c].blockno = buf[c].blockno
      /\ Unique' /\ \A c \in Buf : Counted(c)' /\ Copies(c)'
  <2>1. r \in Buffers /\ r.blockno = buf[b].blockno /\ r.refcnt = buf[b].refcnt
    BY Zenon DEF Request
  <2>2. QED
    BY Zenon, <1>0, <1>1, <2>1, TransferKeeps
<1>3. BcacheTypeOK'
  BY Zenon, <1>0, <1>2 DEF BcacheInv, BcacheTypeOK, BcachePoints
<1>4. Queued'
  BY Zenon, <1>0 DEF BcacheInv, BcacheTypeOK, Queued
<1>5. ASSUME NEW q \in Thread PROVE HasBlock(q)' /\ HasLock(q)'
  <2>1. HasBlock(q)'
    BY <1>0, <1>2 DEF BcacheInv, BcacheTypeOK, HasBlock
  <2>2. HasLock(q)'
    BY <1>0, <1>1, <1>2 DEF BcacheInv, BcacheTypeOK, HasBlock, HasLock, LockedAt
  <2>3. QED
    BY Zenon, <2>1, <2>2
<1>6. ASSUME NEW c \in Buf PROVE Locked(c)'
  BY <1>0, <1>1 DEF BcacheInv, BcacheTypeOK, Locked, LockedAt
<1>7. QED
  BY Zenon, <1>2, <1>3, <1>4, <1>5, <1>6 DEF BcacheInv

\* ideintr() wakes the process whose request is done, and no other.
LEMMA IdeintrKeeps ==
    ASSUME BcacheInv, Ideintr
    PROVE  BcacheInv'
<1> DEFINE b == Head(idequeue)
<1>0. /\ idequeue \in Seq(Buf) /\ idequeue # <<>> /\ idequeue' = Tail(idequeue)
      /\ buf' = [buf EXCEPT ![b] = Done(@, disk)] /\ disk' = Stored(buf[b], disk)
      /\ doing' = Wake(doing, b, "io_sleep", "io")
      /\ UNCHANGED <<driver, lock, mru, want, has, nobuffers>>
  BY Zenon DEF Ideintr, BcacheInv, BcacheTypeOK
<1>1. /\ Len(idequeue) \in Nat \ {0} /\ idequeue[1] = b /\ b \in Buf
      /\ idequeue' \in Seq(Buf) /\ Len(idequeue') = Len(idequeue) - 1
      /\ \A i \in 1..(Len(idequeue) - 1) : idequeue'[i] = idequeue[i + 1]
  BY <1>0
<1> HIDE DEF b
<1>2. PICK p \in Thread : doing[p] = "io_sleep" /\ has[p] = b
  BY <1>1 DEF BcacheInv, Queued
<1>3. /\ lock[b] = p /\ buf[b].blockno \in Block /\ buf[b] \in Buffers
      /\ \A q \in Thread \ {p} : has[q] = b => doing[q] \notin LockedAt
  BY Zenon, <1>2, Alone DEF LockedAt
<1>4. /\ buf' \in [Buf -> Buffers] /\ disk' \in [Block -> Sector]
      /\ buf'[b].valid /\ ~buf'[b].dirty
      /\ \A c \in Buf \ {b} : buf'[c] = buf[c]
      /\ \A c \in Buf : buf'[c].blockno = buf[c].blockno
      /\ Unique' /\ \A c \in Buf : Counted(c)' /\ Copies(c)'
  <2>1. buf' = [buf EXCEPT ![b] = Done(buf[b], disk)]
    BY Zenon, <1>0, <1>1 DEF BcacheInv, BcacheTypeOK
  <2>2. QED
    BY Zenon, <1>0, <1>1, <1>3, <2>1, TransferKeeps
<1>5. /\ doing' \in [Thread -> BcachePoints] /\ doing'[p] = "io"
      /\ \A q \in Thread \ {p} : doing'[q] = doing[q]
  BY Zenon, <1>0, <1>2, <1>3 DEF Wake, BcacheInv, BcacheTypeOK, BcachePoints, LockedAt
<1>6. BcacheTypeOK'
  BY Zenon, <1>0, <1>1, <1>4, <1>5 DEF BcacheInv, BcacheTypeOK
<1>7. Queued'
  <2>1. \A q \in Thread : doing'[q] = "io_sleep" =>
            \E i \in 1..Len(idequeue') : idequeue'[i] = has'[q]
    <3> SUFFICES ASSUME NEW q \in Thread, doing'[q] = "io_sleep"
                 PROVE  \E i \in 1..Len(idequeue') : idequeue'[i] = has'[q]
      OBVIOUS
    <3>1. q # p /\ doing[q] = "io_sleep" /\ has[q] # b
      BY Zenon, <1>3, <1>5 DEF LockedAt
    <3>2. PICK j \in 1..Len(idequeue) : idequeue[j] = has[q]
      BY Zenon, <3>1 DEF BcacheInv, Queued
    <3>3. j # 1 /\ j - 1 \in 1..Len(idequeue') /\ idequeue'[j - 1] = idequeue[j]
      BY <1>1, <3>1, <3>2
    <3>4. QED
      BY Zenon, <1>0, <3>2, <3>3
  <2>2. \A i \in 1..Len(idequeue') :
            \E q \in Thread : doing'[q] = "io_sleep" /\ has'[q] = idequeue'[i]
    <3> SUFFICES ASSUME NEW i \in 1..Len(idequeue')
                 PROVE  \E q \in Thread : doing'[q] = "io_sleep" /\ has'[q] = idequeue'[i]
      OBVIOUS
    <3>1. i + 1 \in 1..Len(idequeue) /\ idequeue'[i] = idequeue[i + 1] /\ i + 1 # 1
      BY <1>1
    <3>2. PICK q \in Thread : doing[q] = "io_sleep" /\ has[q] = idequeue[i + 1]
      BY Zenon, <3>1 DEF BcacheInv, Queued
    <3>3. has[q] # b
      <4>1. 1 \in 1..Len(idequeue)
        BY <1>1
      <4>2. QED
        BY Zenon, <1>1, <3>1, <3>2, <4>1 DEF BcacheInv, Queued
    <3>4. QED
      BY Zenon, <1>0, <1>2, <1>5, <3>1, <3>2, <3>3
  <2>3. \A i, j \in 1..Len(idequeue') : idequeue'[i] = idequeue'[j] => i = j
    <3> SUFFICES ASSUME NEW i \in 1..Len(idequeue'), NEW j \in 1..Len(idequeue'),
                        idequeue'[i] = idequeue'[j]
                 PROVE  i = j
      OBVIOUS
    <3>1. /\ i + 1 \in 1..Len(idequeue) /\ j + 1 \in 1..Len(idequeue)
          /\ idequeue[i + 1] = idequeue[j + 1]
      BY <1>1
    <3>2. i + 1 = j + 1
      BY Zenon, <3>1 DEF BcacheInv, Queued
    <3>3. QED
      BY <1>1, <3>2
  <2>4. QED
    BY Zenon, <2>1, <2>2, <2>3 DEF Queued
<1>8. ASSUME NEW q \in Thread PROVE HasBlock(q)' /\ HasLock(q)'
  <2>1. HasBlock(q)'
    BY <1>0, <1>2, <1>4, <1>5 DEF BcacheInv, BcacheTypeOK, HasBlock
  <2>2. HasLock(q)'
    BY <1>0, <1>2, <1>3, <1>4, <1>5 DEF BcacheInv, BcacheTypeOK, HasBlock, HasLock, LockedAt
  <2>3. QED
    BY Zenon, <2>1, <2>2
<1>9. ASSUME NEW c \in Buf PROVE Locked(c)'
  BY <1>0, <1>2, <1>3, <1>5 DEF BcacheInv, BcacheTypeOK, Locked, LockedAt
<1>10. QED
  BY Zenon, <1>4, <1>6, <1>7, <1>8, <1>9 DEF BcacheInv

----------------------------------------------------------------------------
(* The invariant.                                                          *)

\* bread() asks for a buffer that is neither valid nor dirty, bwrite() for one
\* that is both.
LEMMA ReadRequest ==
    ASSUME BcacheInv, NEW p \in Thread, doing[p] = "bread", ~buf[has[p]].valid
    PROVE  Request(p, buf[has[p]])
BY Zenon, Alone DEF BcacheInv, Copies, Request, LockedAt

LEMMA WriteRequest ==
    ASSUME BcacheInv, NEW p \in Thread, doing[p] = "using", NEW v \in Sector
    PROVE  Request(p, [buf[has[p]] EXCEPT !.data = v, !.dirty = TRUE])
<1> DEFINE r == buf[has[p]]
<1>1. r \in Buffers /\ r.valid
  BY Zenon, Alone DEF BcacheInv, HasLock, LockedAt
<1> HIDE DEF r
<1>2. /\ [r EXCEPT !.data = v, !.dirty = TRUE] \in Buffers
      /\ [r EXCEPT !.data = v, !.dirty = TRUE].blockno = r.blockno
      /\ [r EXCEPT !.data = v, !.dirty = TRUE].refcnt = r.refcnt
      /\ [r EXCEPT !.data = v, !.dirty = TRUE].valid
      /\ [r EXCEPT !.data = v, !.dirty = TRUE].dirty
  BY Zenon, <1>1 DEF Buffers
<1>3. QED
  BY Zenon, <1>2 DEF Request, r

\* The contents a process may store are contents of a block.
LEMMA StoresData ==
    ASSUME BcacheInv, NEW p \in Thread, doing[p] = "using"
    PROVE  Stores(want[p]) \subseteq Sector
BY Zenon, Alone, BcacheAssumption DEF LockedAt

\* Every step keeps the invariant.
LEMMA BcachePreserved ==
    ASSUME Counts(Thread), BcacheInv, [BcacheNext]_bcacheVars
    PROVE  BcacheInv'
<1>1. ASSUME Ideintr PROVE BcacheInv'
  BY Zenon, <1>1, IdeintrKeeps
<1>2. ASSUME NEW p \in Thread, BcacheStep(p) PROVE BcacheInv'
  <2>1. ASSUME NEW n \in Block, Bget(p, n) PROVE BcacheInv'
    BY Zenon, <2>1, HitKeeps, MissKeeps DEF Bget
  <2>2. ASSUME Acquiresleep(p) PROVE BcacheInv'
    BY Zenon, <2>2, AcquiresleepKeeps
  <2>3. ASSUME Bread(p) PROVE BcacheInv'
    <3>1. CASE buf[has[p]].valid
      BY Zenon, <2>3, <3>1, UsesKeeps DEF Bread
    <3>2. CASE ~buf[has[p]].valid
      <4>1. Request(p, buf[has[p]])
        BY Zenon, <2>3, <3>2, ReadRequest DEF Bread
      <4>2. IdeAppend(p, buf[has[p]]) \/ MemCopy(p, buf[has[p]])
        BY Zenon, <2>3, <3>2 DEF Bread, Iderw
      <4>3. UNCHANGED <<driver, lock, mru, want, has, nobuffers>>
        BY Zenon, <2>3 DEF Bread
      <4>4. QED
        BY Zenon, <4>1, <4>2, <4>3, IdeAppendKeeps, MemCopyKeeps
    <3>3. QED
      BY Zenon, <3>1, <3>2
  <2>4. ASSUME IderwLoop(p) PROVE BcacheInv'
    <3>1. doing[p] = "io" /\ buf[has[p]].valid /\ ~buf[has[p]].dirty
      BY Zenon, <2>4 DEF IderwLoop, BcacheInv, HasLock
    <3>2. QED
      BY Zenon, <2>4, <3>1, UsesKeeps DEF IderwLoop
  <2>5. ASSUME Brelse(p) PROVE BcacheInv'
    BY Zenon, <2>5, BrelseKeeps
  <2>6. ASSUME BrelseUnlock(p) PROVE BcacheInv'
    BY Zenon, <2>6, BrelseUnlockKeeps
  <2>7. ASSUME NEW v \in Stores(want[p]), LogWrite(p, v) PROVE BcacheInv'
    BY Zenon, <2>7, StoresData, LogWriteKeeps DEF LogWrite
  <2>8. ASSUME NEW v \in Stores(want[p]), Bwrite(p, v) PROVE BcacheInv'
    <3> DEFINE r == [buf[has[p]] EXCEPT !.data = v, !.dirty = TRUE]
    <3>1. v \in Sector /\ doing[p] = "using"
      BY Zenon, <2>8, StoresData DEF Bwrite
    <3>2. Request(p, r)
      BY Zenon, <3>1, WriteRequest
    <3>3. IdeAppend(p, r) \/ MemCopy(p, r)
      BY Zenon, <2>8 DEF Bwrite, Iderw
    <3>4. UNCHANGED <<driver, lock, mru, want, has, nobuffers>>
      BY Zenon, <2>8 DEF Bwrite
    <3> HIDE DEF r
    <3>5. QED
      BY Zenon, <3>2, <3>3, <3>4, IdeAppendKeeps, MemCopyKeeps
  <2>9. QED
    BY Zenon, <1>2, <2>1, <2>2, <2>3, <2>4, <2>5, <2>6, <2>7, <2>8 DEF BcacheStep, Goes
<1>3. ASSUME UNCHANGED bcacheVars PROVE BcacheInv'
  <2>1. Unique' /\ \A b \in Buf : Counted(b)' /\ Copies(b)'
    BY Zenon, <1>3, SameBuffers DEF bcacheVars
  <2>2. BcacheTypeOK' /\ Queued'
    BY Zenon, <1>3 DEF bcacheVars, BcacheInv, BcacheTypeOK, Queued
  <2>3. \A p \in Thread : HasBlock(p)' /\ HasLock(p)'
    BY Zenon, <1>3 DEF bcacheVars, BcacheInv, HasBlock, HasLock
  <2>4. \A b \in Buf : Locked(b)'
    BY Zenon, <1>3 DEF bcacheVars, BcacheInv, Locked
  <2>5. QED
    BY Zenon, <2>1, <2>2, <2>3, <2>4 DEF BcacheInv
<1>4. QED
  BY Zenon, <1>1, <1>2, <1>3 DEF BcacheNext, BcacheHalted
====
