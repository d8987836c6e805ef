---------------------------- MODULE KernelProofs ----------------------------
(***************************************************************************)
(* The theorems about Bcache, for any number of buffers, blocks and        *)
(* processes and both drivers: its invariants, and that it implements      *)
(* BlockStore.                                                             *)
(*                                                                         *)
(* The theorems about Spinlock, for any number of CPUs and locks.  They    *)
(* are proved together, by one inductive invariant: ncli counts the locks  *)
(* of its CPU, so interrupts are off from the first acquire() to the last  *)
(* release(); so no handler runs in between, and the two words holding()   *)
(* reads are those of the CPU itself.                                      *)
(***************************************************************************)
EXTENDS BcacheSteps, Spinlock, FiniteSetTheorems

\* The provers' time for each leaf.
USE SMTT(60), ZenonT(60)

----------------------------------------------------------------------------
(* Refinement of BlockStore.                                               *)

LEMMA OnlyOne ==
    ASSUME NEW S, NEW b \in S, \A c \in S : c = b
    PROVE  (CHOOSE c \in S : TRUE) = b
OBVIOUS

\* Holder and Content of a block, before and after a step: those of the one
\* buffer it has, or those of the disk.
LEMMA View ==
    ASSUME BcacheInv, BcacheInv', NEW n \in Block
    PROVE  /\ \A b \in Buf : buf[b].blockno = n =>
               /\ Holder[n] = lock[b]
               /\ Content[n] = IF buf[b].valid THEN buf[b].data ELSE disk[n]
           /\ (\A b \in Buf : buf[b].blockno # n) => Holder[n] = Nil /\ Content[n] = disk[n]
           /\ \A b \in Buf : buf'[b].blockno = n =>
               /\ Holder'[n] = lock'[b]
               /\ Content'[n] = IF buf'[b].valid THEN buf'[b].data ELSE disk'[n]
           /\ (\A b \in Buf : buf'[b].blockno # n) => Holder'[n] = Nil /\ Content'[n] = disk'[n]
<1>1. ASSUME NEW b \in Buf, buf[b].blockno = n
      PROVE  /\ Holder[n] = lock[b]
             /\ Content[n] = IF buf[b].valid THEN buf[b].data ELSE disk[n]
  <2>1. b \in Cached(n) /\ \A c \in Cached(n) : c = b
    BY Zenon, <1>1, BcacheAssumption DEF Cached, BcacheInv, Unique
  <2>2. (CHOOSE c \in Cached(n) : TRUE) = b
    BY Zenon, <2>1, OnlyOne
  <2>3. (\E c \in Cached(n) : buf[c].valid) <=> buf[b].valid
    BY Zenon, <2>1
  <2>4. QED
    BY Zenon, <2>1, <2>2, <2>3 DEF Holder, Content
<1>2. ASSUME \A b \in Buf : buf[b].blockno # n
      PROVE  Holder[n] = Nil /\ Content[n] = disk[n]
  BY Zenon, <1>2 DEF Holder, Content, Cached
<1>3. ASSUME NEW b \in Buf, buf'[b].blockno = n
      PROVE  /\ Holder'[n] = lock'[b]
             /\ Content'[n] = IF buf'[b].valid THEN buf'[b].data ELSE disk'[n]
  <2>1. b \in Cached(n)' /\ \A c \in Cached(n)' : c = b
    BY Zenon, <1>3, BcacheAssumption DEF Cached, BcacheInv, Unique
  <2>2. (CHOOSE c \in Cached(n)' : TRUE) = b
    BY Zenon, <2>1, OnlyOne
  <2>3. (\E c \in Cached(n)' : buf'[c].valid) <=> buf'[b].valid
    BY Zenon, <2>1
  <2>4. QED
    BY Zenon, <2>1, <2>2, <2>3 DEF Holder, Content
<1>4. ASSUME \A b \in Buf : buf'[b].blockno # n
      PROVE  Holder'[n] = Nil /\ Content'[n] = disk'[n]
  BY Zenon, <1>4 DEF Holder, Content, Cached
<1>5. QED
  BY Zenon, <1>1, <1>2, <1>3, <1>4

\* They are functions on the blocks, so that a step is known by what it does
\* to each block.
LEMMA ByBlock ==
    /\ Holder = [n \in Block |-> Holder[n]] /\ Holder' = [n \in Block |-> Holder'[n]]
    /\ Content = [n \in Block |-> Content[n]] /\ Content' = [n \in Block |-> Content'[n]]
BY DEF Holder, Content

\* A step that changes nothing a user sees.
LEMMA Stutters ==
    ASSUME \A n \in Block : Holder'[n] = Holder[n] /\ Content'[n] = Content[n]
    PROVE  UNCHANGED <<Content, Holder>>
<1>1. Holder' = Holder
  BY Zenon, ByBlock
<1>2. Content' = Content
  BY Zenon, ByBlock
<1>3. QED
  BY Zenon, <1>1, <1>2

\* References and the list are not visible.
LEMMA CountsHidden ==
    ASSUME BcacheInv, BcacheInv', UNCHANGED <<lock, disk>>,
           \A c \in Buf : /\ buf'[c].blockno = buf[c].blockno
                          /\ buf'[c].valid <=> buf[c].valid
                          /\ buf'[c].data = buf[c].data
    PROVE  UNCHANGED <<Content, Holder>>
<1>1. ASSUME NEW n \in Block
      PROVE  Holder'[n] = Holder[n] /\ Content'[n] = Content[n]
  <2>1. CASE \E b \in Buf : buf[b].blockno = n
    BY <2>1, View
  <2>2. CASE \A b \in Buf : buf[b].blockno # n
    BY <2>2, View
  <2>3. QED
    BY Zenon, <2>1, <2>2
<1>2. QED
  BY Zenon, <1>1, Stutters

\* A step that changes one buffer, which keeps its block.
LEMMA OneBlock ==
    ASSUME BcacheInv, BcacheInv', NEW b \in Buf, buf[b].blockno \in Block,
           UNCHANGED lock,
           \A c \in Buf : buf'[c].blockno = buf[c].blockno,
           \A c \in Buf \ {b} : buf'[c] = buf[c],
           \A n \in Block \ {buf[b].blockno} : disk'[n] = disk[n]
    PROVE  /\ Holder' = Holder
           /\ \A n \in Block \ {buf[b].blockno} : Content'[n] = Content[n]
           /\ LET n == buf[b].blockno IN
               /\ Content[n] = IF buf[b].valid THEN buf[b].data ELSE disk[n]
               /\ Content'[n] = IF buf'[b].valid THEN buf'[b].data ELSE disk'[n]
<1>1. \A n \in Block : Holder'[n] = Holder[n]
  <2> SUFFICES ASSUME NEW n \in Block PROVE Holder'[n] = Holder[n]
    OBVIOUS
  <2>1. CASE \E c \in Buf : buf[c].blockno = n
    BY <2>1, View
  <2>2. CASE \A c \in Buf : buf[c].blockno # n
    BY <2>2, View
  <2>3. QED
    BY Zenon, <2>1, <2>2
<1>2. ASSUME NEW n \in Block \ {buf[b].blockno} PROVE Content'[n] = Content[n]
  <2>1. CASE \E c \in Buf : buf[c].blockno = n
    <3>1. PICK c \in Buf \ {b} : buf[c].blockno = n
      BY Zenon, <2>1
    <3>2. Content[n] = IF buf[c].valid THEN buf[c].data ELSE disk[n]
      BY Zenon, <3>1, View
    <3>3. buf'[c].blockno = n
      BY Zenon, <3>1
    <3>4. Content'[n] = IF buf'[c].valid THEN buf'[c].data ELSE disk'[n]
      BY Zenon, <3>3, View
    <3>5. buf'[c] = buf[c] /\ disk'[n] = disk[n]
      OBVIOUS
    <3>6. QED
      BY Zenon, <3>2, <3>4, <3>5
  <2>2. CASE \A c \in Buf : buf[c].blockno # n
    BY <2>2, View
  <2>3. QED
    BY Zenon, <2>1, <2>2
<1>3. Holder' = Holder
  BY Zenon, <1>1, ByBlock
<1>4. QED
  BY Zenon, <1>2, <1>3, View

\* A process stores v in a block it holds.
LEMMA Changes ==
    ASSUME NEW p \in Thread, NEW n \in Block, NEW v \in Sector,
           Holder[n] = p, Holder' = Holder, Content'[n] = v,
           \A m \in Block \ {n} : Content'[m] = Content[m]
    PROVE  Store!Next
<1>1. Content' = [Content EXCEPT ![n] = v]
  BY Zenon, ByBlock
<1>2. Store!Change(p, n, v)
  BY Zenon, <1>1 DEF Store!Change
<1>3. QED
  BY Zenon, <1>2 DEF Store!Next

\* bget() recycles only clean buffers, whose block is on the disk.
LEMMA BgetStutters ==
    ASSUME Counts(Thread), BcacheInv, BcacheInv', NEW p \in Thread, NEW n \in Block, Bget(p, n)
    PROVE  UNCHANGED <<Content, Holder>>
<1>0. UNCHANGED <<lock, mru, disk>> /\ buf \in [Buf -> Buffers] /\ mru \in [Buf -> Buf]
  BY Zenon DEF Bget, BcacheInv, BcacheTypeOK
<1>1. ASSUME BgetHit(p, n) PROVE UNCHANGED <<Content, Holder>>
  <2>1. PICK b \in Buf : buf' = [buf EXCEPT ![b].refcnt = @ + 1]
    BY Zenon, <1>1 DEF BgetHit, Cached
  <2>2. \A c \in Buf : /\ buf'[c].blockno = buf[c].blockno
                       /\ buf'[c].valid = buf[c].valid /\ buf'[c].data = buf[c].data
    BY Zenon, <1>0, <2>1 DEF Buffers
  <2>3. QED
    BY Zenon, <1>0, <2>2, CountsHidden
<1>2. ASSUME BgetMiss(p, n), UNCHANGED buf PROVE UNCHANGED <<Content, Holder>>
  BY Zenon, <1>0, <1>2, CountsHidden
<1>3. ASSUME Cached(n) = {}, NEW i \in Recyclable,
             buf' = [buf EXCEPT ![mru[i]] =
                      [blockno |-> n, valid |-> FALSE, dirty |-> FALSE,
                       refcnt |-> 1, data |-> @.data]]
      PROVE  UNCHANGED <<Content, Holder>>
  <2> DEFINE b == mru[i]
  <2>1. b \in Buf /\ buf[b].refcnt = 0 /\ ~buf[b].dirty
    BY Zenon, <1>0 DEF Recyclable
  <2>2. lock[b] = Nil
    <3>1. Users(b) \in SUBSET Thread
      BY SMTT(30) DEF Users
    <3>2. Users(b) = {}
      BY Zenon, <3>1, <2>1, CountUsers DEF BcacheInv, Counted
    <3>3. QED
      BY <3>2, <2>1 DEF BcacheInv, BcacheTypeOK, Locked, Users
  <2>3. /\ buf'[b].blockno = n /\ ~buf'[b].valid
        /\ \A c \in Buf \ {b} : buf'[c] = buf[c]
    BY Zenon, <1>0, <1>3, <2>1
  <2> HIDE DEF b
  <2>4. \A c \in Buf : buf[c].blockno # n
    BY Zenon, <1>3 DEF Cached
  <2>5. ASSUME NEW m \in Block
        PROVE  Holder'[m] = Holder[m] /\ Content'[m] = Content[m]
    <3>1. CASE m = n
      BY SMTT(30), <3>1, <1>0, <2>1, <2>2, <2>3, <2>4, View
    <3>2. CASE m # n /\ m = buf[b].blockno
      <4>1. /\ Holder[m] = Nil
            /\ Content[m] = IF buf[b].valid THEN buf[b].data ELSE disk[m]
        BY SMTT(30), <3>2, <2>1, <2>2, View
      <4>2. Content[m] = disk[m]
        BY SMTT(30), <3>2, <4>1, <2>1 DEF BcacheInv, Copies
      <4>3. \A c \in Buf : buf'[c].blockno # m
        BY <3>2, <2>1, <2>3, BcacheAssumption DEF BcacheInv, Unique
      <4>4. QED
        BY <1>0, <4>1, <4>2, <4>3, View
    <3>3. CASE m # n /\ m # buf[b].blockno /\ \E c \in Buf : buf[c].blockno = m
      <4>1. PICK c \in Buf \ {b} : buf[c].blockno = m
        BY SMTT(30), <3>3
      <4>2. QED
        BY <1>0, <2>3, <4>1, View
    <3>4. CASE m # n /\ \A c \in Buf : buf[c].blockno # m
      <4>1. \A c \in Buf : buf'[c].blockno # m
        BY Zenon, <3>4, <2>3
      <4>2. QED
        BY <1>0, <3>4, <4>1, View
    <3>5. QED
      BY SMTT(30), <3>1, <3>2, <3>3, <3>4
  <2>6. QED
    BY Zenon, <2>5, Stutters
<1>4. QED
  BY Zenon, <1>1, <1>2, <1>3 DEF Bget, BgetMiss

\* acquiresleep() takes the block, or nothing happens.
LEMMA AcquiresleepTakes ==
    ASSUME BcacheInv, BcacheInv', NEW p \in Thread, Acquiresleep(p)
    PROVE  Store!Next \/ UNCHANGED <<Content, Holder>>
<1> DEFINE b == has[p]
           n == want[p]
<1>0. /\ b \in Buf /\ n \in Block /\ buf[b].blockno = n /\ lock \in [Buf -> Thread \cup {Nil}]
      /\ UNCHANGED <<buf, disk>>
  BY DEF Acquiresleep, BcacheInv, BcacheTypeOK, HasBlock
<1>1. ASSUME lock[b] = Nil, lock' = [lock EXCEPT ![b] = p]
      PROVE  Store!Next
  <2>1. lock'[b] = p /\ \A c \in Buf \ {b} : lock'[c] = lock[c]
    BY Zenon, <1>0, <1>1
  <2> HIDE DEF b, n
  <2>2. Holder[n] = Nil /\ Holder'[n] = p
    BY <1>0, <1>1, <2>1, View
  <2>3. ASSUME NEW m \in Block
        PROVE  Content'[m] = Content[m] /\ (m # n => Holder'[m] = Holder[m])
    <3>1. CASE \E c \in Buf : buf[c].blockno = m
      BY SMTT(30), <3>1, <1>0, <2>1, View
    <3>2. CASE \A c \in Buf : buf[c].blockno # m
      BY Zenon, <3>2, <1>0, View
    <3>3. QED
      BY Zenon, <3>1, <3>2
  <2>4. Content' = Content
    BY Zenon, <2>3, ByBlock
  <2>5. Holder' = [Holder EXCEPT ![n] = p]
    BY Zenon, <1>0, <2>2, <2>3, ByBlock
  <2>6. Store!Take(p, n)
    BY Zenon, <2>2, <2>4, <2>5 DEF Store!Take
  <2>7. QED
    BY SMTT(30), <1>0, <2>6 DEF Store!Next
<1>2. ASSUME UNCHANGED lock PROVE UNCHANGED <<Content, Holder>>
  BY Zenon, <1>0, <1>2, CountsHidden
<1>3. QED
  BY Zenon, <1>1, <1>2 DEF Acquiresleep

\* brelse() gives the block back.
LEMMA BrelseUnlockGives ==
    ASSUME BcacheInv, BcacheInv', NEW p \in Thread, BrelseUnlock(p)
    PROVE  Store!Next
<1> DEFINE b == has[p]
           n == want[p]
<1>0. /\ b \in Buf /\ n \in Block /\ buf[b].blockno = n /\ lock[b] = p
      /\ UNCHANGED <<buf, disk>>
  BY SMTT(30), Alone DEF BrelseUnlock, LockedAt
<1>1. lock'[b] = Nil /\ \A c \in Buf \ {b} : lock'[c] = lock[c]
  BY SMTT(30), <1>0 DEF BrelseUnlock, Releasesleep, BcacheInv, BcacheTypeOK
<1> HIDE DEF b, n
<1>2. Holder[n] = p /\ Holder'[n] = Nil
  BY Zenon, <1>0, <1>1, View
<1>3. ASSUME NEW m \in Block
      PROVE  Content'[m] = Content[m] /\ (m # n => Holder'[m] = Holder[m])
  <2>1. CASE \E c \in Buf : buf[c].blockno = m
    BY SMTT(30), <2>1, <1>0, <1>1, View
  <2>2. CASE \A c \in Buf : buf[c].blockno # m
    BY Zenon, <2>2, <1>0, View
  <2>3. QED
    BY Zenon, <2>1, <2>2
<1>4. Content' = Content
  BY Zenon, <1>3, ByBlock
<1>5. Holder' = [Holder EXCEPT ![n] = Nil]
  BY Zenon, <1>0, <1>2, <1>3, ByBlock
<1>6. Store!Give(p, n)
  BY Zenon, <1>2, <1>4, <1>5 DEF Store!Give
<1>7. QED
  BY Zenon, <1>0, <1>6 DEF Store!Next

\* log_write() and bwrite() store v in the block, whether the driver writes it
\* at once or later.
LEMMA WriteChanges ==
    ASSUME BcacheInv, BcacheInv', NEW p \in Thread, NEW v \in Sector,
           LogWrite(p, v) \/ Bwrite(p, v)
    PROVE  Store!Next
<1> DEFINE b == has[p]
           n == want[p]
           r == [buf[b] EXCEPT !.data = v, !.dirty = TRUE]
<1>0. doing[p] = "using" /\ UNCHANGED lock
  BY SMTT(30) DEF LogWrite, Bwrite
<1>1. /\ b \in Buf /\ n \in Block /\ buf[b].blockno = n /\ lock[b] = p
      /\ buf[b] \in Buffers /\ buf[b].valid
      /\ buf \in [Buf -> Buffers] /\ disk \in [Block -> Sector]
  BY Zenon, <1>0, Alone DEF LockedAt, BcacheInv, HasLock, BcacheTypeOK
<1>2. r \in Buffers /\ r.blockno = n /\ r.valid /\ r.dirty /\ r.data = v
  BY Zenon, <1>1 DEF Buffers
<1>3. \/ buf' = [buf EXCEPT ![b] = r] /\ UNCHANGED disk
      \/ buf' = [buf EXCEPT ![b] = Done(r, disk)] /\ disk' = Stored(r, disk)
  BY Zenon, <1>1 DEF LogWrite, Bwrite, Iderw, IdeAppend, MemCopy
<1> HIDE DEF b, n, r
<1>4. /\ Done(r, disk).blockno = n /\ Done(r, disk).valid /\ Done(r, disk).data = v
      /\ \A m \in Block \ {n} : Stored(r, disk)[m] = disk[m]
  BY SMTT(30), <1>1, <1>2, Transferred
<1>5. /\ buf'[b].blockno = n /\ buf'[b].valid /\ buf'[b].data = v
      /\ \A c \in Buf \ {b} : buf'[c] = buf[c]
      /\ \A m \in Block \ {n} : disk'[m] = disk[m]
  BY SMTT(30), <1>1, <1>2, <1>3, <1>4
<1>6. /\ Holder' = Holder
      /\ \A m \in Block \ {n} : Content'[m] = Content[m]
  <2>1. \A c \in Buf : buf'[c].blockno = buf[c].blockno
    BY Zenon, <1>1, <1>5
  <2>2. QED
    BY ZenonT(30), <1>0, <1>1, <1>5, <2>1, OneBlock
<1>7. Content'[n] = v /\ Holder[n] = p
  <2>1. Holder[n] = p
    BY SMTT(30), <1>1, View
  <2>2. Content'[n] = IF buf'[b].valid THEN buf'[b].data ELSE disk'[n]
    BY Zenon, <1>1, <1>5, View
  <2>3. QED
    BY SMTT(30), <1>5, <2>1, <2>2
<1>8. QED
  BY Zenon, <1>1, <1>6, <1>7, Changes

\* Neither the request nor its answer changes what users see, whether the
\* buffer is read or written.
LEMMA TransferHidden ==
    ASSUME BcacheInv, BcacheInv', NEW b \in Buf, buf[b].blockno \in Block,
           buf' = [buf EXCEPT ![b] = Done(buf[b], disk)],
           disk' = Stored(buf[b], disk), UNCHANGED lock
    PROVE  UNCHANGED <<Content, Holder>>
<1> DEFINE n == buf[b].blockno
           r == Done(buf[b], disk)
<1>0. buf \in [Buf -> Buffers] /\ buf[b] \in Buffers /\ disk \in [Block -> Sector]
  BY Zenon DEF BcacheInv, BcacheTypeOK
<1>1. /\ r.blockno = n /\ r.valid
      /\ r.data = IF buf[b].dirty THEN buf[b].data ELSE disk[n]
      /\ \A m \in Block \ {n} : disk'[m] = disk[m]
  BY <1>0, Transferred
<1>2. buf'[b] = r /\ \A c \in Buf \ {b} : buf'[c] = buf[c]
  BY Zenon, <1>0
<1> HIDE DEF n, r
<1>3. \A c \in Buf : buf'[c].blockno = buf[c].blockno
  BY SMTT(30), <1>1, <1>2 DEF n
<1>4. /\ Holder' = Holder
      /\ \A m \in Block \ {n} : Content'[m] = Content[m]
      /\ Content[n] = IF buf[b].valid THEN buf[b].data ELSE disk[n]
      /\ Content'[n] = IF buf'[b].valid THEN buf'[b].data ELSE disk'[n]
  BY SMTT(30), <1>1, <1>2, <1>3, OneBlock DEF n
<1>5. /\ buf[b].dirty => buf[b].valid
      /\ buf[b].valid /\ ~buf[b].dirty => buf[b].data = disk[n]
  BY Zenon DEF BcacheInv, Copies, n
<1>6. Content'[n] = Content[n]
  BY <1>1, <1>2, <1>4, <1>5
<1>7. QED
  BY SMTT(30), <1>4, <1>6, Stutters

LEMMA BreadStutters ==
    ASSUME BcacheInv, BcacheInv', NEW p \in Thread, Bread(p)
    PROVE  UNCHANGED <<Content, Holder>>
<1> DEFINE b == has[p]
<1>0. /\ b \in Buf /\ buf[b].blockno \in Block /\ UNCHANGED lock
      /\ buf \in [Buf -> Buffers]
  BY Zenon, Alone DEF Bread, LockedAt, BcacheInv, BcacheTypeOK
<1>1. ASSUME buf' = [buf EXCEPT ![b] = Done(buf[b], disk)], disk' = Stored(buf[b], disk)
      PROVE  UNCHANGED <<Content, Holder>>
  BY Zenon, <1>0, <1>1, TransferHidden
<1>2. ASSUME buf' = [buf EXCEPT ![b] = buf[b]], UNCHANGED disk
      PROVE  UNCHANGED <<Content, Holder>>
  <2>1. UNCHANGED buf
    BY Zenon, <1>0, <1>2
  <2>2. QED
    BY Zenon, <1>0, <1>2, <2>1, CountsHidden
<1>3. ASSUME UNCHANGED <<buf, disk>> PROVE UNCHANGED <<Content, Holder>>
  BY Zenon, <1>0, <1>3, CountsHidden
<1>4. QED
  BY SMTT(30), <1>1, <1>2, <1>3 DEF Bread, Iderw, IdeAppend, MemCopy

LEMMA IdeintrStutters ==
    ASSUME BcacheInv, BcacheInv', Ideintr
    PROVE  UNCHANGED <<Content, Holder>>
<1> DEFINE b == Head(idequeue)
<1>0. /\ idequeue \in Seq(Buf) /\ idequeue # <<>> /\ UNCHANGED lock
      /\ buf' = [buf EXCEPT ![b] = Done(@, disk)] /\ disk' = Stored(buf[b], disk)
      /\ buf \in [Buf -> Buffers]
  BY Zenon DEF Ideintr, BcacheInv, BcacheTypeOK
<1>1. b \in Buf /\ 1 \in 1..Len(idequeue) /\ idequeue[1] = b
  BY SMTT(30), <1>0
<1> HIDE DEF b
<1>2. PICK p \in Thread : doing[p] = "io_sleep" /\ has[p] = b
  BY Zenon, <1>1 DEF BcacheInv, Queued
<1>3. buf[b].blockno \in Block
  BY Zenon, <1>2, Alone DEF LockedAt
<1>4. buf' = [buf EXCEPT ![b] = Done(buf[b], disk)]
  BY Zenon, <1>0, <1>1
<1>5. QED
  BY ZenonT(30), <1>0, <1>1, <1>3, <1>4, TransferHidden

\* Every step of the cache is one of the block store, or not visible.
LEMMA StoreStep ==
    ASSUME Counts(Thread), BcacheInv, BcacheInv', [BcacheNext]_bcacheVars
    PROVE  Store!Next \/ UNCHANGED <<Content, Holder>>
<1>1. ASSUME UNCHANGED <<buf, lock, disk>> PROVE UNCHANGED <<Content, Holder>>
  BY Zenon, <1>1, CountsHidden
<1>2. ASSUME NEW p \in Thread, BcacheStep(p)
      PROVE  Store!Next \/ UNCHANGED <<Content, Holder>>
  <2>1. ASSUME NEW n \in Block, Bget(p, n) PROVE UNCHANGED <<Content, Holder>>
    BY Zenon, <2>1, BgetStutters
  <2>2. ASSUME Brelse(p) PROVE UNCHANGED <<Content, Holder>>
    <3>1. \A c \in Buf : /\ buf'[c].blockno = buf[c].blockno
                         /\ buf'[c].valid = buf[c].valid /\ buf'[c].data = buf[c].data
      BY <2>2 DEF Brelse, BcacheInv, BcacheTypeOK, HasBlock, Buffers
    <3>2. QED
      BY Zenon, <2>2, <3>1, CountsHidden DEF Brelse
  <2>3. ASSUME IderwLoop(p) PROVE UNCHANGED <<Content, Holder>>
    BY Zenon, <2>3, <1>1 DEF IderwLoop
  <2>4. ASSUME NEW v \in Stores(want[p]), Bwrite(p, v) \/ LogWrite(p, v) PROVE Store!Next
    <3>1. v \in Sector
      BY Zenon, <2>4, StoresData DEF Bwrite, LogWrite
    <3>2. QED
      BY Zenon, <2>4, <3>1, WriteChanges
  <2>5. QED
    BY <1>2, <2>1, <2>2, <2>3, <2>4, AcquiresleepTakes, BreadStutters, BrelseUnlockGives
       DEF BcacheStep, Goes
<1>3. QED
  BY Zenon, <1>1, <1>2, IdeintrStutters DEF BcacheNext, BcacheHalted, bcacheVars

\* Every block starts free, with what is on the disk.
LEMMA StoreStarts == BcacheInit => Store!Init
<1> SUFFICES ASSUME BcacheInit PROVE Store!Init
  OBVIOUS
<1>1. \A n \in Block : Cached(n) = {}
  BY BcacheAssumption DEF BcacheInit, Cached
<1>2. Holder = [n \in Block |-> Nil]
  BY Zenon, <1>1 DEF Holder
<1>3. Content \in [Block -> Sector]
  BY Zenon, <1>1 DEF Content, BcacheInit
<1>4. QED
  BY Zenon, <1>2, <1>3 DEF Store!Init

----------------------------------------------------------------------------
(* Results                                                                 *)

\* Every finite set is counted as the steps need it.
LEMMA FiniteCounts ==
    ASSUME NEW T, IsFiniteSet(T)
    PROVE  Counts(T)
<1> SUFFICES ASSUME NEW S \in SUBSET T
             PROVE  /\ Cardinality(S) \in Nat
                    /\ Cardinality(S) = 0 <=> S = {}
                    /\ \A x \in T : x \notin S => Cardinality(S \cup {x}) = Cardinality(S) + 1
                    /\ \A x \in S : Cardinality(S \ {x}) = Cardinality(S) - 1
  BY Zenon DEF Counts
<1>1. IsFiniteSet(S)
  BY Zenon, FS_Subset
<1>2. Cardinality(S) \in Nat /\ (Cardinality(S) = 0 <=> S = {})
  BY Zenon, <1>1, FS_CardinalityType, FS_EmptySet
<1>3. \A x \in T : x \notin S => Cardinality(S \cup {x}) = Cardinality(S) + 1
  BY Zenon, <1>1, FS_AddElement
<1>4. \A x \in S : Cardinality(S \ {x}) = Cardinality(S) - 1
  BY Zenon, <1>1, FS_RemoveElement
<1>5. QED
  BY Zenon, <1>2, <1>3, <1>4

\* The invariant holds in every reachable state of the cache.
THEOREM BcacheInvariant == BcacheSpec => []BcacheInv
<1>1. Counts(Thread)
  BY Zenon, FiniteCounts, BcacheAssumption
<1>2. BcacheInit => BcacheInv
  BY Zenon, <1>1, BcacheStarts
<1>3. BcacheInv /\ [BcacheNext]_bcacheVars => BcacheInv'
  BY Zenon, <1>1, BcachePreserved
<1>4. QED
  BY <1>2, <1>3, PTL DEF BcacheSpec

\* bget() never makes two buffers for one block, and refcnt counts the
\* processes that have the buffer.
THEOREM OneBuffer == BcacheSpec => []OneBufferPerBlock
<1>1. BcacheInv => OneBufferPerBlock
  BY Zenon DEF BcacheInv, OneBufferPerBlock, Unique, Counted, Users
<1>2. QED
  BY <1>1, BcacheInvariant, PTL

\* After bread() a process has the block it asked for, valid and alone.
THEOREM RightBlock == BcacheSpec => []GetsItsBlock
<1>1. BcacheInv => GetsItsBlock
  BY Zenon DEF BcacheInv, GetsItsBlock, HasBlock, HasLock, LockedAt
<1>2. QED
  BY <1>1, BcacheInvariant, PTL

\* Nobody sleeps on a lock that is free or for a request that is not queued.
THEOREM NoLostBufWakeup == BcacheSpec => []BufSleepersHaveReason
<1>1. BcacheInv => BufSleepersHaveReason
  <2>1. BcacheInv => DOMAIN idequeue = 1..Len(idequeue)
    BY DEF BcacheInv, BcacheTypeOK
  <2>2. QED
    BY Zenon, <2>1 DEF BcacheInv, BufSleepersHaveReason, HasLock, Queued
<1>2. QED
  BY <1>1, BcacheInvariant, PTL

\* The buffer cache, over either driver, is a disk whose blocks are used by one
\* process at a time.
THEOREM CacheIsStore == BcacheSpec => ImplementsBlockStore
<1>1. Counts(Thread)
  BY Zenon, FiniteCounts, BcacheAssumption
<1>2. BcacheInv /\ BcacheInv' /\ [BcacheNext]_bcacheVars => [Store!Next]_<<Content, Holder>>
  BY Zenon, <1>1, StoreStep
<1>3. QED
  BY <1>2, StoreStarts, BcacheInvariant, PTL
     DEF BcacheSpec, ImplementsBlockStore, Store!Spec

----------------------------------------------------------------------------
(* Spin locks.                                                             *)

\* ncli is the number of locks held, and one more inside acquire() and
\* release(); it is zero exactly when interrupts may be on.
Depth(c) ==
    /\ ncli[c] = Cardinality(held[c]) + (IF at[c] = "run" THEN 0 ELSE 1)
    /\ ncli[c] = 0 => (FL_IF[c] <=> ~intr[c])
    /\ ncli[c] > 0 => ~FL_IF[c] /\ (intena[c] <=> ~intr[c])

\* The lock a call works on is not among those held.
Apart(c) == at[c] \notin {"run", "pop"} => lk[c] \notin held[c]

\* lk->cpu is c from AcquireSet to ReleaseClear, and only then; lk->locked is
\* set in all that time.
Owns(c, l) == l \in held[c] \/ (lk[c] = l /\ at[c] = "clear")
Owned(c, l) ==
    /\ owner[l] = c <=> Owns(c, l)
    /\ Has(c, l) => locked[l]

SpinInv ==
    /\ SpinTypeOK /\ NoPanic /\ MutualExclusion
    /\ \A c \in CPU : Depth(c) /\ Apart(c) /\ \A l \in Lock : Owned(c, l)

----------------------------------------------------------------------------
\* Adding a lock to a set of them and taking one away.
LEMMA CountLocks ==
    ASSUME NEW S \in SUBSET Lock
    PROVE  /\ Cardinality(S) \in Nat
           /\ Cardinality(S) = 0 <=> S = {}
           /\ \A l \in Lock : l \notin S => Cardinality(S \cup {l}) = Cardinality(S) + 1
           /\ \A l \in S : Cardinality(S \ {l}) = Cardinality(S) - 1
<1>1. IsFiniteSet(S)
  BY Zenon, FS_Subset, SpinAssumption
<1>2. Cardinality(S) \in Nat /\ (Cardinality(S) = 0 <=> S = {})
  BY Zenon, <1>1, FS_CardinalityType, FS_EmptySet
<1>3. \A l \in Lock : l \notin S => Cardinality(S \cup {l}) = Cardinality(S) + 1
  BY Zenon, <1>1, FS_AddElement
<1>4. \A l \in S : Cardinality(S \ {l}) = Cardinality(S) - 1
  BY Zenon, <1>1, FS_RemoveElement
<1>5. QED
  BY Zenon, <1>2, <1>3, <1>4

\* With all locks free and interrupts on, the invariant holds.
LEMMA SpinStarts == SpinInit => SpinInv
<1> SUFFICES ASSUME SpinInit PROVE SpinInv
  OBVIOUS
<1>1. SpinTypeOK /\ NoPanic /\ MutualExclusion
  BY Zenon DEF SpinInit, SpinTypeOK, SpinPoints, NoPanic, MutualExclusion, Has
<1>2. ASSUME NEW c \in CPU PROVE Depth(c) /\ Apart(c)
  <2>1. Cardinality({}) = 0
    BY Zenon, FS_EmptySet
  <2>2. /\ held[c] = {} /\ ncli[c] = 0 /\ at[c] = "run"
        /\ FL_IF[c] = TRUE /\ intr[c] = FALSE
    BY Zenon DEF SpinInit
  <2>3. QED
    BY <2>1, <2>2 DEF Depth, Apart
<1>3. ASSUME NEW c \in CPU, NEW l \in Lock PROVE Owned(c, l)
  BY Zenon, SpinAssumption DEF SpinInit, Owned, Owns, Has
<1>4. QED
  BY Zenon, <1>1, <1>2, <1>3 DEF SpinInv

\* Every step keeps the invariant.
LEMMA SpinPreserved == SpinInv /\ [SpinNext]_spinVars => SpinInv'
<1> SUFFICES ASSUME SpinInv, [SpinNext]_spinVars PROVE SpinInv'
  OBVIOUS
<1> USE DEF SpinInv, SpinPoints
<1>1. ASSUME NEW c \in CPU, NEW k \in Lock, ~halted, Acquire(c, k)
      PROVE  SpinInv'
  <2>1. SpinTypeOK'
    BY <1>1 DEF SpinTypeOK, Acquire, Pushcli, Goto
  <2>2. NoPanic'
    BY Zenon, <1>1 DEF NoPanic, Acquire, Pushcli, Goto
  <2>3. MutualExclusion'
    BY Zenon, <1>1 DEF SpinTypeOK, MutualExclusion, Has, Acquire, Pushcli, Goto
  <2>4. ASSUME NEW d \in CPU PROVE Depth(d)'
    BY CountLocks, <1>1 DEF SpinTypeOK, Depth, Acquire, Pushcli, Goto
  <2>5. ASSUME NEW d \in CPU PROVE Apart(d)'
    BY <1>1, SpinAssumption DEF SpinTypeOK, Apart, Acquire, Pushcli, Goto
  <2>6. ASSUME NEW d \in CPU, NEW l \in Lock PROVE Owned(d, l)'
    BY <1>1 DEF SpinTypeOK, Owned, Owns, Has, Acquire, Pushcli, Goto
  <2>7. QED
    BY Zenon, <2>1, <2>2, <2>3, <2>4, <2>5, <2>6
<1>2. ASSUME NEW c \in CPU, ~halted, AcquireCheck(c)
      PROVE  SpinInv'
  <2>1. SpinTypeOK'
    BY Zenon, <1>2 DEF SpinTypeOK, AcquireCheck, Holding, Goto
  <2>2. NoPanic'
    BY Zenon, <1>2 DEF NoPanic, SpinTypeOK, Apart, Owned, Owns, AcquireCheck, Holding, Goto
  <2>3. MutualExclusion'
    BY Zenon, <1>2 DEF SpinTypeOK, MutualExclusion, Has, AcquireCheck, Holding, Goto
  <2>4. ASSUME NEW d \in CPU PROVE Depth(d)'
    BY Zenon, <1>2 DEF SpinTypeOK, Depth, AcquireCheck, Holding, Goto
  <2>5. ASSUME NEW d \in CPU PROVE Apart(d)'
    BY Zenon, <1>2 DEF SpinTypeOK, Apart, AcquireCheck, Holding, Goto
  <2>6. ASSUME NEW d \in CPU, NEW l \in Lock PROVE Owned(d, l)'
    BY <1>2 DEF SpinTypeOK, Owned, Owns, Has, AcquireCheck, Holding, Goto
  <2>7. QED
    BY Zenon, <2>1, <2>2, <2>3, <2>4, <2>5, <2>6
<1>3. ASSUME NEW c \in CPU, ~halted, Xchg(c)
      PROVE  SpinInv'
  <2>1. SpinTypeOK'
    BY Zenon, <1>3 DEF SpinTypeOK, Xchg, Goto
  <2>2. NoPanic'
    BY Zenon, <1>3 DEF NoPanic, Xchg, Goto
  <2>3. MutualExclusion'
    BY <1>3 DEF SpinTypeOK, MutualExclusion, Owned, Has, Xchg, Goto
  <2>4. ASSUME NEW d \in CPU PROVE Depth(d)'
    BY Zenon, <1>3 DEF SpinTypeOK, Depth, Xchg, Goto
  <2>5. ASSUME NEW d \in CPU PROVE Apart(d)'
    BY Zenon, <1>3 DEF SpinTypeOK, Apart, Xchg, Goto
  <2>6. ASSUME NEW d \in CPU, NEW l \in Lock PROVE Owned(d, l)'
    BY <1>3 DEF SpinTypeOK, MutualExclusion, Owned, Owns, Has, Xchg, Goto
  <2>7. QED
    BY Zenon, <2>1, <2>2, <2>3, <2>4, <2>5, <2>6
<1>4. ASSUME NEW c \in CPU, ~halted, AcquireSet(c)
      PROVE  SpinInv'
  <2>1. SpinTypeOK'
    BY Zenon, <1>4 DEF SpinTypeOK, AcquireSet, Goto
  <2>2. NoPanic'
    BY Zenon, <1>4 DEF NoPanic, AcquireSet, Goto
  <2>3. MutualExclusion'
    BY <1>4 DEF SpinTypeOK, MutualExclusion, Has, AcquireSet, Goto
  <2>4. ASSUME NEW d \in CPU PROVE Depth(d)'
    BY CountLocks, <1>4 DEF SpinTypeOK, Depth, Apart, AcquireSet, Goto
  <2>5. ASSUME NEW d \in CPU PROVE Apart(d)'
    BY Zenon, <1>4 DEF SpinTypeOK, Apart, AcquireSet, Goto
  <2>6. ASSUME NEW d \in CPU, NEW l \in Lock PROVE Owned(d, l)'
    BY <1>4 DEF SpinTypeOK, MutualExclusion, Apart, Owned, Owns, Has, AcquireSet, Goto
  <2>7. QED
    BY Zenon, <2>1, <2>2, <2>3, <2>4, <2>5, <2>6
<1>5. ASSUME NEW c \in CPU, NEW k \in Lock, ~halted, Release(c, k)
      PROVE  SpinInv'
  <2>1. SpinTypeOK'
    BY Zenon, <1>5 DEF SpinTypeOK, Release, Goto
  <2>2. NoPanic'
    BY Zenon, <1>5 DEF NoPanic, Release, Goto
  <2>3. MutualExclusion'
    BY <1>5 DEF SpinTypeOK, MutualExclusion, Has, Release, Goto
  <2>4. ASSUME NEW d \in CPU PROVE Depth(d)'
    BY CountLocks, <1>5 DEF SpinTypeOK, Depth, Release, Goto
  <2>5. ASSUME NEW d \in CPU PROVE Apart(d)'
    BY Zenon, <1>5 DEF SpinTypeOK, Apart, Release, Goto
  <2>6. ASSUME NEW d \in CPU, NEW l \in Lock PROVE Owned(d, l)'
    BY <1>5 DEF SpinTypeOK, Owned, Owns, Has, Release, Goto
  <2>7. QED
    BY Zenon, <2>1, <2>2, <2>3, <2>4, <2>5, <2>6
<1>6. ASSUME NEW c \in CPU, ~halted, ReleaseClear(c)
      PROVE  SpinInv'
  <2>1. SpinTypeOK'
    BY Zenon, <1>6 DEF SpinTypeOK, ReleaseClear, Holding, Goto
  <2>2. NoPanic'
    BY Zenon, <1>6 DEF NoPanic, SpinTypeOK, Owned, Owns, Has, ReleaseClear, Holding, Goto
  <2>3. MutualExclusion'
    BY <1>6 DEF SpinTypeOK, MutualExclusion, Has, ReleaseClear, Holding, Goto
  <2>4. ASSUME NEW d \in CPU PROVE Depth(d)'
    BY Zenon, <1>6 DEF SpinTypeOK, Depth, ReleaseClear, Holding, Goto
  <2>5. ASSUME NEW d \in CPU PROVE Apart(d)'
    BY Zenon, <1>6 DEF SpinTypeOK, Apart, ReleaseClear, Holding, Goto
  <2>6. ASSUME NEW d \in CPU, NEW l \in Lock PROVE Owned(d, l)'
    BY <1>6, SpinAssumption
    DEF SpinTypeOK, MutualExclusion, Apart, Owned, Owns, Has, ReleaseClear,
        Holding, Goto
  <2>7. QED
    BY Zenon, <2>1, <2>2, <2>3, <2>4, <2>5, <2>6
<1>7. ASSUME NEW c \in CPU, ~halted, ReleaseUnlock(c)
      PROVE  SpinInv'
  <2>1. SpinTypeOK'
    BY Zenon, <1>7 DEF SpinTypeOK, ReleaseUnlock, Goto
  <2>2. NoPanic'
    BY Zenon, <1>7 DEF NoPanic, ReleaseUnlock, Goto
  <2>3. MutualExclusion'
    BY Zenon, <1>7 DEF SpinTypeOK, MutualExclusion, Has, ReleaseUnlock, Goto
  <2>4. ASSUME NEW d \in CPU PROVE Depth(d)'
    BY Zenon, <1>7 DEF SpinTypeOK, Depth, ReleaseUnlock, Goto
  <2>5. ASSUME NEW d \in CPU PROVE Apart(d)'
    BY Zenon, <1>7 DEF SpinTypeOK, Apart, ReleaseUnlock, Goto
  <2>6. ASSUME NEW d \in CPU, NEW l \in Lock PROVE Owned(d, l)'
    BY <1>7
    DEF SpinTypeOK, MutualExclusion, Apart, Owned, Owns, Has, ReleaseUnlock, Goto
  <2>7. QED
    BY Zenon, <2>1, <2>2, <2>3, <2>4, <2>5, <2>6
<1>8. ASSUME NEW c \in CPU, ~halted, ReleasePop(c)
      PROVE  SpinInv'
  <2>0. ncli[c] \in Nat \ {0} /\ ~FL_IF[c]
    BY CountLocks, <1>8 DEF SpinTypeOK, Depth, ReleasePop
  <2>1. SpinTypeOK'
    <3>1. ncli' \in [CPU -> Nat]
      BY <1>8, <2>0 DEF SpinTypeOK, ReleasePop, Popcli
    <3>2. FL_IF' \in [CPU -> BOOLEAN]
      BY <1>8, Zenon DEF SpinTypeOK, ReleasePop, Popcli
    <3>3. halted' \in BOOLEAN
      BY <1>8, Zenon DEF ReleasePop, Popcli
    <3>4. QED
      BY Zenon, <1>8, <3>1, <3>2, <3>3 DEF SpinTypeOK, ReleasePop, Popcli, Goto
  <2>2. NoPanic'
    BY Zenon, <1>8, <2>0 DEF NoPanic, ReleasePop, Popcli, Goto
  <2>3. MutualExclusion'
    BY Zenon, <1>8 DEF SpinTypeOK, MutualExclusion, Has, ReleasePop, Popcli, Goto
  <2>4. ASSUME NEW d \in CPU PROVE Depth(d)'
    BY CountLocks, <1>8 DEF SpinTypeOK, Depth, ReleasePop, Popcli, Goto
  <2>5. ASSUME NEW d \in CPU PROVE Apart(d)'
    BY Zenon, <1>8 DEF SpinTypeOK, Apart, ReleasePop, Popcli, Goto
  <2>6. ASSUME NEW d \in CPU, NEW l \in Lock PROVE Owned(d, l)'
    BY <1>8 DEF SpinTypeOK, Owned, Owns, Has, ReleasePop, Popcli, Goto
  <2>7. QED
    BY Zenon, <2>1, <2>2, <2>3, <2>4, <2>5, <2>6
<1>9. ASSUME NEW c \in CPU, ~halted, Interrupt(c)
      PROVE  SpinInv'
  <2>1. SpinTypeOK'
    BY Zenon, <1>9 DEF SpinTypeOK, Interrupt
  <2>2. NoPanic'
    BY Zenon, <1>9 DEF NoPanic, Interrupt
  <2>3. MutualExclusion'
    BY Zenon, <1>9 DEF MutualExclusion, Has, Interrupt
  <2>4. ASSUME NEW d \in CPU PROVE Depth(d)'
    BY CountLocks, <1>9 DEF SpinTypeOK, Depth, Interrupt
  <2>5. ASSUME NEW d \in CPU PROVE Apart(d)'
    BY Zenon, <1>9 DEF Apart, Interrupt
  <2>6. ASSUME NEW d \in CPU, NEW l \in Lock PROVE Owned(d, l)'
    BY Zenon, <1>9 DEF Owned, Owns, Has, Interrupt
  <2>7. QED
    BY Zenon, <2>1, <2>2, <2>3, <2>4, <2>5, <2>6
<1>10. ASSUME NEW c \in CPU, ~halted, Iret(c)
      PROVE  SpinInv'
  <2>1. SpinTypeOK'
    BY Zenon, <1>10 DEF SpinTypeOK, Iret
  <2>2. NoPanic'
    BY Zenon, <1>10 DEF NoPanic, Iret
  <2>3. MutualExclusion'
    BY Zenon, <1>10 DEF MutualExclusion, Has, Iret
  <2>4. ASSUME NEW d \in CPU PROVE Depth(d)'
    BY CountLocks, <1>10 DEF SpinTypeOK, Depth, Iret
  <2>5. ASSUME NEW d \in CPU PROVE Apart(d)'
    BY Zenon, <1>10 DEF Apart, Iret
  <2>6. ASSUME NEW d \in CPU, NEW l \in Lock PROVE Owned(d, l)'
    BY Zenon, <1>10 DEF Owned, Owns, Has, Iret
  <2>7. QED
    BY Zenon, <2>1, <2>2, <2>3, <2>4, <2>5, <2>6
<1>11. CASE UNCHANGED spinVars
  BY <1>11
  DEF spinVars, SpinTypeOK, NoPanic, MutualExclusion, Depth, Apart, Owned, Owns, Has
<1>12. QED
BY Zenon, <1>1, <1>2, <1>3, <1>4, <1>5, <1>6, <1>7, <1>8, <1>9, <1>10, <1>11 DEF SpinNext,
       SpinStep

----------------------------------------------------------------------------
(* Results                                                                 *)

\* acquire() and release() exclude CPUs from each other, none of the panics of
\* spinlock.c is reached, and interrupts are as they were when the last lock is
\* released: for any CPUs, any locks and any nesting in a fixed order.
THEOREM SpinInvariant == SpinSpec => []SpinInv
<1>1. QED
  BY SpinStarts, SpinPreserved, PTL DEF SpinSpec

\* No two CPUs have one lock.
THEOREM SpinExclusion == SpinSpec => []MutualExclusion
<1>1. SpinInv => MutualExclusion
  BY Zenon DEF SpinInv
<1>2. QED
  BY <1>1, SpinInvariant, PTL

\* acquire(), release() and popcli() never panic: holding() is asked without a
\* lock and answers right.
THEOREM SpinNoPanic == SpinSpec => []NoPanic
<1>1. SpinInv => NoPanic
  BY Zenon DEF SpinInv
<1>2. QED
  BY <1>1, SpinInvariant, PTL

\* Interrupts are off while a CPU has a lock, and restored when it has none.
THEOREM SpinFlags == SpinSpec => []FlagRestored
<1>1. SpinInv => FlagRestored
  <2> SUFFICES ASSUME SpinInv, NEW c \in CPU
               PROVE  /\ \A l \in Lock : Has(c, l) => ~FL_IF[c]
                      /\ at[c] = "run" /\ held[c] = {} => FL_IF[c] = ~intr[c]
    BY Zenon DEF FlagRestored
  <2>1. Cardinality(held[c]) \in Nat /\ (Cardinality(held[c]) = 0 <=> held[c] = {})
    BY Zenon, CountLocks DEF SpinInv, SpinTypeOK
  <2>2. ASSUME NEW l \in Lock, Has(c, l) PROVE ~FL_IF[c]
    BY <2>1, <2>2 DEF SpinInv, SpinTypeOK, Depth, Has
  <2>3. ASSUME at[c] = "run", held[c] = {} PROVE FL_IF[c] <=> ~intr[c]
    <3>1. Depth(c)
      BY Zenon DEF SpinInv
    <3>2. ncli[c] = Cardinality(held[c]) + 0
      BY <2>3, <3>1, Zenon DEF Depth
    <3>3. ncli[c] = 0
      BY <2>1, <2>3, <3>2
    <3>4. QED
      BY <3>1, <3>3, Zenon DEF Depth
  <2>4. FL_IF[c] \in BOOLEAN /\ intr[c] \in BOOLEAN
    BY Zenon DEF SpinInv, SpinTypeOK
  <2>5. QED
    BY Zenon, <2>2, <2>3, <2>4
<1>2. QED
  BY <1>1, SpinInvariant, PTL

====
