------------------------------ MODULE VmProofs ------------------------------
(***************************************************************************)
(* The theorems about Vm, for any number of physical pages, processes and  *)
(* virtual pages: every page is free or has one owner, and the memory of a *)
(* process is its own, as AddressSpaces says.  The steps of fork(), exit() *)
(* and wait() are here, the other ones in VmSteps.                         *)
(***************************************************************************)
EXTENDS VmSteps

\* The provers' time for each leaf.
USE SMTT(60), ZenonT(60)

----------------------------------------------------------------------------
(* fork(), exit(), wait()                                                  *)

\* The memory of a process and its stack are freed.
Frees(q) ==
    /\ Kfree(Owned(cur[q]) \cup {kstack[q]})
    /\ cur' = [cur EXCEPT ![q] = NoDir] /\ kstack' = [kstack EXCEPT ![q] = None]

\* freevm() and kfree() of the stack: all of it is free again.
LEMMA Freeing ==
    ASSUME VmInv, NEW q \in Proc, Frees(q), kstack[q] # None, new' = new
    PROVE  /\ cur' \in [Proc -> Dir] /\ kstack' \in [Proc -> Frame \cup {None}]
           /\ data' \in [Frame -> Data] /\ Account(Has, free)'
           /\ cur'[q] = NoDir /\ kstack'[q] = None
           /\ \A r \in Proc \ {q} : cur'[r] = cur[r] /\ kstack'[r] = kstack[r]
           /\ \A f \in Frame : data'[f] = data[f] \/ f \in Mine(q)
<1>1. /\ cur \in [Proc -> Dir] /\ kstack \in [Proc -> Frame \cup {None}]
      /\ data \in [Frame -> Data] /\ Account(HasOf(cur, new, kstack), free)
  BY Zenon DEF VmInv, VmTypeOK, Has
<1>2. /\ cur' \in [Proc -> Dir] /\ cur'[q] = NoDir
      /\ \A r \in Proc \ {q} : cur'[r] = cur[r]
  BY Zenon, <1>1, EmptyDir DEF Frees
<1>3. /\ kstack' \in [Proc -> Frame \cup {None}] /\ kstack'[q] = None
      /\ \A r \in Proc \ {q} : kstack'[r] = kstack[r]
  BY Zenon, <1>1 DEF Frees
<1>4. data' \in [Frame -> Data] /\ \A f \in Frame : data'[f] = data[f] \/ f \in Mine(q)
  BY <1>1 DEF Frees, Kfree, Data, Junk, Mine
<1>5. Same(cur', cur, q) /\ Same(kstack', kstack, q)
  BY Zenon, <1>2, <1>3 DEF Same
<1>6. Owned(cur'[q]) = Owned(cur[q]) \ Owned(cur[q])
  BY Zenon, <1>2, EmptyDir
<1>7. Account(HasOf(cur', new, kstack), free \cup Owned(cur[q]))
  BY Zenon, <1>1, <1>5, <1>6, CurGives
<1>8. Account(HasOf(cur', new, kstack'), (free \cup Owned(cur[q])) \cup {kstack[q]})
  BY <1>3, <1>5, <1>7, StackGives
<1>9. free' = (free \cup Owned(cur[q])) \cup {kstack[q]}
  BY Zenon DEF Frees, Kfree
<1>10. QED
  BY <1>2, <1>3, <1>4, <1>8, <1>9 DEF Has

\* The child of a fork() in progress.
LEMMA Child ==
    ASSUME VmInv, NEW p \in Proc, pc[p] \in Forks
    PROVE  /\ np[p] \in Proc /\ np[p] # p /\ pc[np[p]] = "embryo" /\ kstack[np[p]] # None
           /\ np[np[p]] = None /\ new[np[p]] = NoDir
<1>1. np[p] \in Proc /\ pc[np[p]] = "embryo"
  BY AtProc DEF Stage, Copied, VmInv, VmTypeOK
<1>2. Stage(np[p])
  BY Zenon, <1>1, AtProc
<1>3. QED
  BY Zenon, <1>1, <1>2 DEF Stage, Forks, Execs

\* fork(): allocproc() finds a slot and a stack.
LEMMA ForkAllocKeeps ==
    ASSUME VmInv, NEW p \in Proc, NEW q \in Proc, ForkAlloc(p, q)
    PROVE  Kept
<1>1. /\ UNCHANGED <<data, cur, new, sz, killed, page, img, addr>>
      /\ pc[p] = "user" /\ pc[q] = "unused" /\ q # p /\ free # {}
  BY Zenon DEF ForkAlloc, Begins, Does
<1>2. /\ Stage(p) /\ Stage(q) /\ Sized(p) /\ Account(Has, free)
      /\ free \in SUBSET Frame /\ Kalloc \in free
  BY Zenon, <1>1, AtProc, Apart DEF Kalloc
<1>3. /\ kstack' \in [Proc -> Frame \cup {None}] /\ kstack'[q] = Kalloc
      /\ pc' \in [Proc -> VmPoints] /\ pc'[p] = "fork_dir" /\ pc'[q] = "embryo"
      /\ np' \in [Proc -> Proc \cup {None}] /\ np'[p] = q
      /\ \A r \in Proc \ {q} : kstack'[r] = kstack[r]
      /\ \A r \in Proc \ {p} : np'[r] = np[r]
      /\ \A r \in Proc \ {p, q} : pc'[r] = pc[r]
  BY <1>1, <1>2 DEF ForkAlloc, VmInv, VmTypeOK, VmPoints, Forks
<1>4. VmTypeOK'
  BY <1>1, <1>3 DEF VmInv, VmTypeOK
<1>5. Leaves({p, q})
  BY Zenon, <1>1, <1>3 DEF Leaves
<1>6. Account(Has, free)'
  <2>1. Same(kstack', kstack, q) /\ kstack[q] = None /\ kstack'[q] \in free
    BY Zenon, <1>1, <1>2, <1>3 DEF Same, Stage
  <2>2. Account(HasOf(cur, new, kstack'), free \ {kstack'[q]})
    BY Zenon, <1>2, <2>1, StackTakes DEF Has
  <2>3. free' = free \ {kstack'[q]}
    BY Zenon, <1>3 DEF ForkAlloc
  <2>4. QED
    BY <1>1, <2>2, <2>3 DEF Has
<1>7. OneToOne(cur[p])' /\ OneToOne(new[p])' /\ OneToOne(cur[q])' /\ OneToOne(new[q])'
  BY Zenon, <1>1, AtProc
<1>8. Local(p)'
  <2>1. Stage(p)' /\ Loaded(p)'
    BY <1>1, <1>2, <1>3, Consts DEF Stage, Loaded, Execs, Forks
  <2>2. Sized(p)'
    BY Zenon, <1>1, <1>2, <1>3 DEF Sized, Alive
  <2>3. Copied(p)'
    BY Zenon, <1>1, <1>2, <1>3 DEF Copied, Stage
  <2>4. QED
    BY Zenon, <2>1, <2>2, <2>3 DEF Local
<1>9. Local(q)' /\ np'[q] = None
  BY <1>1, <1>2, <1>3, Consts DEF Local, Stage, Sized, Alive, Copied, Loaded, Execs, Forks
<1>10. Blind(p) /\ Blind(q)
  BY <1>1, <1>3, Unseen, Absent DEF Alive
<1>11. QED
  BY <1>1, <1>3, <1>4, <1>5, <1>6, <1>7, <1>8, <1>9, <1>10, Together

\* A fork() out of memory.
ForkFails(p) ==
    /\ ForkBad(p) /\ np' = [np EXCEPT ![p] = None] /\ page' = [page EXCEPT ![p] = 0]
    /\ UNCHANGED <<new, sz, killed, img, addr>>

\* fork(): out of memory, everything allocated so far is freed.
LEMMA ForkFailsKeeps ==
    ASSUME VmInv, NEW p \in Proc, pc[p] \in Forks, ForkFails(p)
    PROVE  Kept
<1>0. UNCHANGED <<new, sz, killed, img, addr>>
  BY Zenon DEF ForkFails
<1>1. PICK q \in Proc :
      /\ q = np[p] /\ q # p /\ pc[q] = "embryo" /\ kstack[q] # None
      /\ np[q] = None /\ new[q] = NoDir
  BY Zenon, Child
<1>2. Frees(q)
  BY Zenon, <1>1 DEF ForkFails, ForkBad, Frees
<1>3. /\ cur' \in [Proc -> Dir] /\ kstack' \in [Proc -> Frame \cup {None}]
      /\ data' \in [Frame -> Data] /\ Account(Has, free)'
      /\ cur'[q] = NoDir /\ kstack'[q] = None
      /\ \A r \in Proc \ {q} : cur'[r] = cur[r] /\ kstack'[r] = kstack[r]
      /\ \A f \in Frame : data'[f] = data[f] \/ f \in Mine(q)
  BY <1>0, <1>1, <1>2, Freeing
<1>4. /\ pc' \in [Proc -> VmPoints] /\ pc'[p] = "user" /\ pc'[q] = "unused"
      /\ np' \in [Proc -> Proc \cup {None}] /\ np'[p] = None /\ np'[q] = None
      /\ page' \in [Proc -> Nat]
      /\ \A r \in Proc \ {p, q} : /\ pc'[r] = pc[r] /\ np'[r] = np[r]
                                  /\ page'[r] = page[r]
  BY <1>1 DEF ForkFails, ForkBad, VmInv, VmTypeOK, VmPoints
<1>5. VmTypeOK'
  BY <1>0, <1>3, <1>4 DEF VmInv, VmTypeOK
<1>6. Leaves({p, q}) /\ \A f \in Owned(cur[p]) : data'[f] = data[f]
  <2>1. \A r \in Proc \ {q} : \A f \in Owned(cur[r]) \cup Owned(new[r]) : data'[f] = data[f]
    BY <1>1, <1>3, UntouchedBy
  <2>2. QED
    BY <1>0, <1>1, <1>3, <1>4, <2>1 DEF Leaves
<1>7. OneToOne(cur[p])' /\ OneToOne(new[p])' /\ OneToOne(cur[q])' /\ OneToOne(new[q])'
  BY <1>0, <1>1, <1>3, AtProc, EmptyDir
<1>8. Stage(p) /\ Sized(p)
  BY Zenon, AtProc
<1>9. Local(p)'
  <2>1. Stage(p)' /\ Copied(p)' /\ Loaded(p)'
    BY <1>0, <1>1, <1>3, <1>4, <1>8 DEF Stage, Copied, Loaded, Execs, Forks
  <2>2. Sized(p)'
    BY <1>0, <1>1, <1>3, <1>4, <1>8 DEF Sized, Alive, Forks
  <2>3. QED
    BY Zenon, <2>1, <2>2 DEF Local
<1>10. Local(q)'
  BY <1>0, <1>1, <1>3, <1>4 DEF Local, Stage, Sized, Alive, Copied, Loaded, Execs, Forks
<1>11. Blind(p) /\ Blind(q)
  <2>1. cur'[p] = cur[p] /\ sz'[p] = sz[p] /\ p \in Alive /\ (p \in Alive)'
    BY Zenon, <1>0, <1>1, <1>3, <1>4 DEF Alive, Forks
  <2>2. q \notin Alive /\ ~(q \in Alive)'
    BY Zenon, <1>1, <1>4 DEF Alive
  <2>3. QED
    BY <1>6, <2>1, <2>2, Unseen, Absent
<1>12. QED
  BY <1>0, <1>1, <1>3, <1>4, <1>5, <1>6, <1>7, <1>9, <1>10, <1>11, Together DEF Forks

\* fork(): setupkvm().
LEMMA ForkDirKeeps ==
    ASSUME VmInv, NEW p \in Proc, ForkDir(p)
    PROVE  Kept
<1>1. /\ UNCHANGED <<new, sz, killed, img, addr>> /\ pc[p] = "fork_dir" /\ pc[p] \in Forks
      /\ page' = [page EXCEPT ![p] = 0]
  BY Zenon DEF ForkDir, Forks
<1>2. PICK q \in Proc :
      /\ q = np[p] /\ q # p /\ pc[q] = "embryo" /\ kstack[q] # None
      /\ np[q] = None /\ new[q] = NoDir
  BY Zenon, <1>1, Child
<1>3. /\ Stage(p) /\ Sized(p) /\ Copied(p) /\ Account(Has, free) /\ free \in SUBSET Frame
      /\ cur[q] = NoDir
  BY <1>1, <1>2, AtProc, Apart DEF Copied
<1>4. CASE /\ free # {} /\ cur' = [cur EXCEPT ![q].root = Kalloc] /\ free' = free \ {Kalloc}
           /\ pc' = [pc EXCEPT ![p] = "fork_page"] /\ UNCHANGED <<data, kstack, np>>
  <2> DEFINE u == [NoDir EXCEPT !.root = Kalloc]
  <2>1. Kalloc \in free
    BY Zenon, <1>4 DEF Kalloc
  <2>2. /\ u \in Dir /\ OneToOne(u) /\ Owned(u) = {Kalloc}
        /\ \A i \in Page : u.pte[i] = None
    BY Zenon, <1>3, <2>1, RootOnly
  <2> HIDE DEF u
  <2>3. cur' \in [Proc -> Dir] /\ cur'[q] = u /\ \A r \in Proc \ {q} : cur'[r] = cur[r]
    BY <1>2, <1>3, <1>4, <2>2 DEF VmInv, VmTypeOK, u
  <2>4. /\ pc' \in [Proc -> VmPoints] /\ pc'[p] = "fork_page"
        /\ page' \in [Proc -> Nat] /\ page'[p] = 0
        /\ \A r \in Proc \ {p} : pc'[r] = pc[r] /\ page'[r] = page[r]
    BY Zenon, <1>1, <1>4 DEF VmInv, VmTypeOK, VmPoints, Forks
  <2>5. VmTypeOK'
    BY <1>1, <1>4, <2>3, <2>4 DEF VmInv, VmTypeOK
  <2>6. Leaves({p, q})
    BY <1>1, <1>4, <2>3, <2>4 DEF Leaves
  <2>7. Account(Has, free)'
    <3>1. Same(cur', cur, q) /\ Owned(cur'[q]) = Owned(cur[q]) \cup {Kalloc}
      BY <1>3, <2>2, <2>3, EmptyDir DEF Same
    <3>2. Account(HasOf(cur', new, kstack), free \ {Kalloc})
      BY Zenon, <1>2, <1>3, <2>1, <3>1, CurTakes DEF Has
    <3>3. QED
      BY Zenon, <1>1, <1>4, <3>2 DEF Has
  <2>8. OneToOne(cur[p])' /\ OneToOne(new[p])' /\ OneToOne(cur[q])' /\ OneToOne(new[q])'
    BY <1>1, <1>2, <2>2, <2>3, AtProc
  <2>9. Local(p)'
    <3>1. Stage(p)' /\ Loaded(p)'
      BY <1>1, <1>2, <1>3, <1>4, <2>3, <2>4 DEF Stage, Loaded, Execs, Forks
    <3>2. Sized(p)'
      BY <1>1, <1>2, <1>3, <2>3, <2>4 DEF Sized, Alive
    <3>3. pc'[np'[p]] = "embryo" /\ \A i \in Page : cur'[np'[p]].pte[i] = None
      BY Zenon, <1>2, <1>4, <2>2, <2>3, <2>4
    <3>4. \A i \in Page : ~(i < page'[p])
      BY Zenon, <2>4, Below
    <3>5. Copied(p)'
      BY <2>4, <3>3, <3>4, Zenon DEF Copied
    <3>6. QED
      BY <3>1, <3>2, <3>5 DEF Local
  <2>10. Local(q)'
    BY Zenon, <1>1, <1>2, <1>4, <2>4 DEF Local, Stage, Sized, Alive, Copied, Loaded, Execs, Forks
  <2>11. Blind(p) /\ Blind(q)
    <3>1. cur'[p] = cur[p] /\ sz'[p] = sz[p] /\ p \in Alive /\ (p \in Alive)' /\ data' = data
      BY <1>1, <1>2, <1>4, <2>3, <2>4 DEF Alive
    <3>2. q \notin Alive /\ ~(q \in Alive)'
      BY Zenon, <1>2, <2>4 DEF Alive
    <3>3. QED
      BY Zenon, <3>1, <3>2, Unseen, Absent
  <2>12. QED
    BY Zenon, <1>1, <1>2, <1>4, <2>5, <2>6, <2>7, <2>8, <2>9, <2>10, <2>11, Together
<1>5. CASE ForkBad(p) /\ np' = [np EXCEPT ![p] = None]
  BY Zenon, <1>1, <1>5, ForkFailsKeeps DEF ForkFails
<1>6. QED
  BY <1>2, <1>4, <1>5 DEF ForkDir

\* fork(): a page of copyuvm(), and the end of it.
LEMMA ForkPageKeeps ==
    ASSUME VmInv, NEW p \in Proc, ForkPage(p)
    PROVE  Kept
<1> DEFINE i == page[p]
           f == cur[p].pte[i]
<1>1. UNCHANGED <<new, killed, img, addr>> /\ pc[p] = "fork_page" /\ pc[p] \in Forks
  BY Zenon DEF ForkPage, Forks
<1>2. PICK q \in Proc :
      /\ q = np[p] /\ q # p /\ pc[q] = "embryo" /\ kstack[q] # None
      /\ np[q] = None /\ new[q] = NoDir
  BY Zenon, <1>1, Child
<1>3. /\ Stage(p) /\ Sized(p) /\ Copied(p) /\ Account(Has, free) /\ free \in SUBSET Frame
      /\ i \in Nat /\ sz[p] \in 0..(KERNBASE - 1)
  BY Zenon, AtProc, Apart
<1>4. /\ \A j \in Page : cur[q].pte[j] # None <=> j < i /\ cur[p].pte[j] # None
      /\ \A j \in Page : cur[q].pte[j] # None
                         => data[cur[q].pte[j]] = data[cur[p].pte[j]]
  BY Zenon, <1>1, <1>2, <1>3 DEF Copied
<1>5. i * PGSIZE < sz[p] => i \in Page
  BY <1>3, PageNumbers, Consts
<1> HIDE DEF i, f
<1>6. OneToOne(cur[p]) /\ OneToOne(cur[q]) /\ OneToOne(new[p]) /\ OneToOne(new[q])
  BY Zenon, AtProc
<1>7. CASE /\ i * PGSIZE < sz[p] /\ f = None /\ page' = [page EXCEPT ![p] = i + 1]
           /\ UNCHANGED <<free, data, cur, kstack, sz, pc, np>>
  <2>1. page' \in [Proc -> Nat] /\ page'[p] = i + 1 /\ \A r \in Proc \ {p} : page'[r] = page[r]
    BY <1>3, <1>7 DEF VmInv, VmTypeOK
  <2>2. VmTypeOK'
    BY <1>1, <1>7, <2>1 DEF VmInv, VmTypeOK
  <2>3. Leaves({p})
    BY <1>1, <1>7, <2>1 DEF Leaves
  <2>4. Stage(p)' /\ Sized(p)' /\ Loaded(p)'
    BY Zenon, <1>1, <1>3, <1>7 DEF Stage, Sized, Alive, Loaded, Execs, Forks
  <2>5. \A j \in Page : cur[p].pte[j] # None => (j < i + 1 <=> j < i)
    <3>1. \A j \in Page : j < i + 1 <=> j < i \/ j = i
      BY Zenon, <1>3, Below
    <3>2. QED
      BY <1>7, <3>1, Zenon DEF f
  <2>6. Copied(p)'
    <3>1. \A j \in Page : cur[q].pte[j] # None <=> j < i + 1 /\ cur[p].pte[j] # None
      BY <1>4, <2>5, Zenon
    <3>2. QED
      BY <1>1, <1>2, <1>4, <1>7, <2>1, <3>1, Zenon DEF Copied
  <2>7. Account(Has, free)' /\ OneToOne(cur[p])' /\ OneToOne(new[p])'
    BY Zenon, <1>1, <1>3, <1>6, <1>7 DEF Has
  <2>8. Shows(p)
    BY Zenon, <1>7, Unseen DEF Alive, Shows
  <2>9. QED
    BY <1>1, <1>7, <2>2, <2>3, <2>4, <2>6, <2>7, <2>8, Alone DEF Local
<1>8. CASE /\ i * PGSIZE < sz[p] /\ f # None /\ Room(cur[q])
           /\ MapsCur(q, i, i \in cur[p].user, data[f])
           /\ page' = [page EXCEPT ![p] = i + 1] /\ UNCHANGED <<kstack, sz, pc, np>>
  <2>1. i \in Page /\ cur[q].pte[i] = None
    BY Zenon, <1>3, <1>4, <1>5, <1>8, Below
  <2>2. f \in Owned(cur[p]) /\ f \in Frame \ free /\ data[f] \in Data
    BY Zenon, <1>8, <2>1, InUse DEF f
  <2>3. /\ cur' \in [Proc -> Dir] /\ data' \in [Frame -> Data] /\ Account(Has, free)'
        /\ \A r \in Proc \ {q} : cur'[r] = cur[r]
        /\ OneToOne(cur[q])' /\ cur'[q].pte[i] = Kalloc /\ Kalloc \in free
        /\ \A j \in Page \ {i} : cur'[q].pte[j] = cur[q].pte[j]
        /\ data'[Kalloc] = data[f] /\ \A g \in Frame \ free : data'[g] = data[g]
    <3>1. Room(cur[q]) /\ MapsCur(q, i, i \in cur[p].user, data[f]) /\ new' = new /\ kstack' = kstack
      BY Zenon, <1>1, <1>8
    <3>2. QED
      BY <2>1, <2>2, <3>1, MappingCur
  <2>4. page' \in [Proc -> Nat] /\ page'[p] = i + 1 /\ \A r \in Proc \ {p} : page'[r] = page[r]
    BY <1>3, <1>8 DEF VmInv, VmTypeOK
  <2>5. VmTypeOK'
    BY <1>1, <1>8, <2>3, <2>4 DEF VmInv, VmTypeOK
  <2>6. Leaves({p, q}) /\ \A g \in Owned(cur[p]) : data'[g] = data[g]
    <3>1. \A r \in Proc \ {q} : \A g \in Owned(cur[r]) \cup Owned(new[r]) : data'[g] = data[g]
      BY Zenon, <2>3, UntouchedBy
    <3>2. QED
      BY <1>1, <1>2, <1>8, <2>3, <2>4, <3>1 DEF Leaves
  <2>7. cur'[p] = cur[p] /\ OneToOne(cur[p])' /\ OneToOne(new[p])' /\ OneToOne(new[q])'
    BY <1>1, <1>2, <1>6, <2>3
  <2>8. Stage(p)' /\ Sized(p)' /\ Loaded(p)'
    BY Zenon, <1>1, <1>3, <1>8, <2>7 DEF Stage, Sized, Alive, Loaded, Execs, Forks
  <2>9. Copied(p)'
    <3>1. \A j \in Page : /\ cur[p].pte[j] # None => data'[cur[p].pte[j]] = data[cur[p].pte[j]]
                          /\ cur[q].pte[j] # None => data'[cur[q].pte[j]] = data[cur[q].pte[j]]
      BY Zenon, <2>3, InUse
    <3>2. \A j \in Page : j < i + 1 <=> j < i \/ j = i
      BY <1>3, PageNumbers
    <3>3. Kalloc # None
      BY <1>3, <2>3, Consts
    <3>4. ASSUME NEW j \in Page
          PROVE  /\ cur'[q].pte[j] # None <=> j < i + 1 /\ cur[p].pte[j] # None
                 /\ cur'[q].pte[j] # None => data'[cur'[q].pte[j]] = data'[cur[p].pte[j]]
      <4>1. CASE j = i
        BY Zenon, <1>8, <2>2, <2>3, <3>1, <3>2, <3>3, <4>1 DEF f
      <4>2. CASE j # i
        BY <1>4, <2>3, <3>1, <3>2, <4>2
      <4>3. QED
        BY Zenon, <4>1, <4>2
    <3>5. QED
      BY Zenon, <1>1, <1>2, <1>8, <2>4, <2>7, <3>4 DEF Copied
  <2>10. Local(q)'
    BY Zenon, <1>1, <1>2, <1>8 DEF Local, Stage, Sized, Alive, Copied, Loaded, Execs, Forks
  <2>11. Blind(p) /\ Blind(q)
    <3>1. sz'[p] = sz[p] /\ p \in Alive /\ (p \in Alive)' /\ q \notin Alive /\ ~(q \in Alive)'
      BY <1>1, <1>2, <1>8 DEF Alive
    <3>2. QED
      BY <2>6, <2>7, <3>1, Unseen, Absent
  <2>12. QED
    BY Zenon, <1>1, <1>2, <1>8, <2>3, <2>5, <2>6, <2>7, <2>8, <2>9, <2>10, <2>11, Together DEF Local
<1>9. CASE /\ ForkBad(p) /\ np' = [np EXCEPT ![p] = None]
           /\ page' = [page EXCEPT ![p] = 0] /\ UNCHANGED sz
  BY Zenon, <1>1, <1>9, ForkFailsKeeps DEF ForkFails
<1>10. CASE /\ ~(i * PGSIZE < sz[p]) /\ sz' = [sz EXCEPT ![q] = sz[p]]
            /\ pc' = [pc EXCEPT ![p] = "user", ![q] = "user"]
            /\ np' = [np EXCEPT ![p] = None] /\ page' = [page EXCEPT ![p] = 0]
            /\ UNCHANGED <<free, data, cur, kstack>>
  <2>1. /\ sz' \in [Proc -> 0..(KERNBASE - 1)] /\ sz'[q] = sz[p] /\ sz'[p] = sz[p]
        /\ pc' \in [Proc -> VmPoints] /\ pc'[p] = "user" /\ pc'[q] = "user"
        /\ np' \in [Proc -> Proc \cup {None}] /\ np'[p] = None /\ np'[q] = None
        /\ page' \in [Proc -> Nat]
        /\ \A r \in Proc \ {p, q} : /\ sz'[r] = sz[r] /\ pc'[r] = pc[r]
                                    /\ np'[r] = np[r] /\ page'[r] = page[r]
    BY <1>2, <1>3, <1>10 DEF VmInv, VmTypeOK, VmPoints
  <2>2. VmTypeOK'
    BY <1>1, <1>10, <2>1 DEF VmInv, VmTypeOK
  <2>3. Leaves({p, q})
    BY <1>1, <1>10, <2>1 DEF Leaves
  <2>4. \A j \in Page : cur[p].pte[j] # None => j * PGSIZE < sz[p]
    BY Zenon, <1>1, <1>3 DEF Sized, Alive
  <2>5. Sized(p)' /\ Sized(q)'
    BY Zenon, <1>4, <1>10, <2>1, <2>4 DEF Sized
  <2>6. /\ Stage(p)' /\ Copied(p)' /\ Loaded(p)'
        /\ Stage(q)' /\ Copied(q)' /\ Loaded(q)'
    BY Zenon, <1>1, <1>2, <1>3, <1>10, <2>1 DEF Stage, Copied, Loaded, Execs, Forks
  <2>7. /\ Account(Has, free)' /\ OneToOne(cur[p])' /\ OneToOne(new[p])'
        /\ OneToOne(cur[q])' /\ OneToOne(new[q])'
    BY <1>1, <1>3, <1>6, <1>10 DEF Has
  <2>8. Blind(p)
    BY Zenon, <1>1, <1>10, <2>1, Unseen DEF Alive
  <2>9. Copies(p, q)
    <3>1. /\ p \in Alive /\ (p \in Alive)' /\ q \notin Alive /\ (q \in Alive)'
          /\ Length(q)' = Length(p)
      BY Zenon, <1>1, <1>2, <2>1 DEF Alive, Length
    <3>2. \A j \in Page : cur[p].pte[j] # None => j < i
      <4>1. ASSUME NEW j \in Page, j * PGSIZE < sz[p] PROVE j < i
        <5>1. /\ j \in Int /\ i \in Int /\ PGSIZE \in Nat \ {0}
              /\ j * PGSIZE < sz[p] /\ ~(i * PGSIZE < sz[p])
          BY <1>3, <1>10, <4>1, PageNumbers, Consts
        <5>2. j * PGSIZE \in Int /\ i * PGSIZE \in Int /\ (j < i <=> j * PGSIZE < i * PGSIZE)
          BY Zenon, <5>1, Times
        <5>3. QED
          BY <1>3, <5>1, <5>2
      <4>2. QED
        BY <2>4, <4>1, Zenon
    <3>3. \A j \in Page : Content(q, j)' = Content(p, j)
      BY <1>4, <1>10, <3>1, <3>2 DEF Content
    <3>4. QED
      BY <2>8, <3>1, <3>3 DEF Copies
  <2>10. QED
    BY Zenon, <1>1, <1>2, <2>1, <2>2, <2>3, <2>5, <2>6, <2>7, <2>8, <2>9, Together DEF Local
<1>11. QED
  BY <1>2, <1>7, <1>8, <1>9, <1>10 DEF ForkPage, MapsCur, i, f

\* exit().
LEMMA ExitKeeps ==
    ASSUME VmInv, NEW p \in Proc, Exit(p)
    PROVE  Kept
<1>1. /\ UNCHANGED <<free, data, cur, new, kstack, sz, killed, page, np, img, addr>>
      /\ pc[p] = "user"
  BY Zenon DEF Exit, cvars
<1>2. CASE pc' = [pc EXCEPT ![p] = "zombie"]
  <2>1. /\ pc' \in [Proc -> VmPoints] /\ pc'[p] = "zombie"
        /\ \A r \in Proc \ {p} : pc'[r] = pc[r]
    BY Zenon, <1>2 DEF VmInv, VmTypeOK, VmPoints
  <2>2. VmTypeOK'
    BY <1>1, <2>1 DEF VmInv, VmTypeOK
  <2>3. Leaves({p})
    BY Zenon, <1>1, <2>1 DEF Leaves
  <2>4. Stage(p)
    BY Zenon, AtProc
  <2>5. Local(p)'
    BY Zenon, <1>1, <2>1, <2>4 DEF Local, Stage, Sized, Alive, Copied, Loaded, Execs, Forks
  <2>6. Account(Has, free)' /\ OneToOne(cur[p])' /\ OneToOne(new[p])'
    BY Zenon, <1>1, AtProc DEF Has
  <2>7. Shows(p)
    BY Zenon, <1>1, <2>1 DEF Shows, Alive, Length, Content
  <2>8. QED
    BY Zenon, <1>1, <2>2, <2>3, <2>5, <2>6, <2>7, Alone
<1>3. CASE UNCHANGED pc
  <2>1. VmTypeOK'
    BY Zenon, <1>1, <1>3 DEF VmInv, VmTypeOK
  <2>2. QED
    BY <1>1, <1>3, <2>1, Nobody
<1>4. QED
  BY Zenon, <1>2, <1>3 DEF Exit

\* wait() frees a zombie.
LEMMA ReapKeeps ==
    ASSUME VmInv, NEW p \in Proc, Reap(p)
    PROVE  Kept
<1>1. /\ UNCHANGED <<new, sz, page, np, img, addr>> /\ pc[p] = "zombie" /\ Frees(p)
      /\ killed' = [killed EXCEPT ![p] = FALSE] /\ pc' = [pc EXCEPT ![p] = "unused"]
  BY Zenon DEF Reap, Frees, cvars
<1>2. Stage(p) /\ kstack[p] # None
  BY Zenon, <1>1, AtProc DEF Stage
<1>3. /\ cur' \in [Proc -> Dir] /\ kstack' \in [Proc -> Frame \cup {None}]
      /\ data' \in [Frame -> Data] /\ Account(Has, free)'
      /\ cur'[p] = NoDir /\ kstack'[p] = None
      /\ \A r \in Proc \ {p} : cur'[r] = cur[r] /\ kstack'[r] = kstack[r]
      /\ \A f \in Frame : data'[f] = data[f] \/ f \in Mine(p)
  BY Zenon, <1>1, <1>2, Freeing
<1>4. /\ killed' \in [Proc -> BOOLEAN] /\ pc' \in [Proc -> VmPoints] /\ pc'[p] = "unused"
      /\ \A r \in Proc \ {p} : pc'[r] = pc[r]
  BY Zenon, <1>1 DEF VmInv, VmTypeOK, VmPoints
<1>5. VmTypeOK'
  BY Zenon, <1>1, <1>3, <1>4 DEF VmInv, VmTypeOK
<1>6. Leaves({p})
  <2>1. \A r \in Proc \ {p} : \A f \in Owned(cur[r]) \cup Owned(new[r]) : data'[f] = data[f]
    BY Zenon, <1>3, UntouchedBy
  <2>2. QED
    BY Zenon, <1>1, <1>3, <1>4, <2>1 DEF Leaves
<1>7. Local(p)'
BY Zenon, <1>1, <1>2, <1>3, <1>4 DEF Local, Stage, Sized, Alive, Copied, Loaded, Execs,
       Forks
<1>8. OneToOne(cur[p])' /\ OneToOne(new[p])'
  BY <1>1, <1>3, AtProc, EmptyDir
<1>9. Shows(p)
  BY Zenon, <1>1, <1>4, Absent DEF Shows, Alive
<1>10. QED
  BY Zenon, <1>1, <1>3, <1>5, <1>6, <1>7, <1>8, <1>9, Alone

----------------------------------------------------------------------------
(* exec()                                                                  *)

\* The programs, and the page numbers of a program that fits.
LEMMA StackPages ==
    ASSUME NEW g \in Nat, (g + 2) * PGSIZE < KERNBASE
    PROVE  /\ (g + 2) * PGSIZE \in Nat
           /\ \A i \in Nat : i < g + 2 => i \in Page /\ i * PGSIZE < (g + 2) * PGSIZE
<1>1. (g + 2) * PGSIZE \in Nat /\ g + 2 \in Nat
  BY Consts
<1>2. \A i \in Nat : i < g + 2 => i * PGSIZE < (g + 2) * PGSIZE
  BY <1>1, Times, Consts
<1>3. QED
  BY <1>1, <1>2, PageNumbers, Consts

\* An exec() that gives up.
ExecFails(p) == ExecBad(p) /\ UNCHANGED <<cur, kstack, sz, killed, np, addr>>

\* exec(): out of memory, the old memory is kept.
LEMMA ExecFailsKeeps ==
    ASSUME VmInv, NEW p \in Proc, pc[p] \in Execs, ExecFails(p)
    PROVE  Kept
<1>1. UNCHANGED <<cur, kstack, sz, killed, np, addr>>
  BY Zenon DEF ExecFails
<1>2. Stage(p) /\ Sized(p) /\ Account(Has, free) /\ Owned(new[p]) \in SUBSET Frame
  BY Zenon, AtProc, Apart
<1>3. /\ new' \in [Proc -> Dir] /\ new'[p] = NoDir /\ pc' \in [Proc -> VmPoints]
      /\ pc'[p] = "user" /\ page' \in [Proc -> Nat] /\ img' \in [Proc -> Image \cup {None}]
      /\ \A r \in Proc \ {p} : /\ new'[r] = new[r] /\ pc'[r] = pc[r]
                               /\ page'[r] = page[r] /\ img'[r] = img[r]
  BY Zenon, EmptyDir DEF ExecFails, ExecBad, Return, VmInv, VmTypeOK, VmPoints
<1>4. /\ data' \in [Frame -> Data] /\ \A f \in Frame : data'[f] = data[f] \/ f \in Mine(p)
      /\ \A f \in Frame \ Owned(new[p]) : data'[f] = data[f]
  BY DEF ExecFails, ExecBad, Kfree, VmInv, VmTypeOK, Data, Junk, Mine
<1>5. VmTypeOK'
  BY <1>1, <1>3, <1>4 DEF VmInv, VmTypeOK
<1>6. Leaves({p})
  <2>1. \A r \in Proc \ {p} : \A f \in Owned(cur[r]) \cup Owned(new[r]) : data'[f] = data[f]
    BY Zenon, <1>4, UntouchedBy
  <2>2. QED
    BY Zenon, <1>1, <1>3, <2>1 DEF Leaves
<1>7. Account(Has, free)'
  <2>1. Same(new', new, p) /\ Owned(new'[p]) = {}
    BY Zenon, <1>3, EmptyDir DEF Same
  <2>2. Account(HasOf(cur, new', kstack), free \cup Owned(new[p]))
    BY Zenon, <1>2, <2>1, NewGives DEF Has
  <2>3. free' = free \cup Owned(new[p])
    BY Zenon DEF ExecFails, ExecBad, Kfree
  <2>4. QED
    BY Zenon, <1>1, <2>2, <2>3 DEF Has
<1>8. OneToOne(cur[p])' /\ OneToOne(new[p])'
  BY Zenon, <1>1, <1>3, AtProc, EmptyDir
<1>9. Stage(p)' /\ Copied(p)' /\ Loaded(p)'
  BY Zenon, <1>1, <1>2, <1>3 DEF Stage, Copied, Loaded, Execs, Forks
<1>10. Sized(p)'
  BY Zenon, <1>1, <1>2, <1>3 DEF Sized, Alive, Execs
<1>11. Shows(p)
  <2>1. \A f \in Owned(cur[p]) : data'[f] = data[f]
    BY Zenon, <1>2, <1>4, Apart
  <2>2. cur'[p] = cur[p] /\ sz'[p] = sz[p] /\ ((p \in Alive)' <=> p \in Alive)
    BY Zenon, <1>1, <1>3 DEF Alive, Execs
  <2>3. QED
    BY Zenon, <2>1, <2>2, Unseen DEF Shows
<1>12. QED
  BY <1>1, <1>5, <1>6, <1>7, <1>8, <1>9, <1>10, <1>11, Alone DEF Local, Execs

\* exec(): setupkvm().
LEMMA ExecBeginKeeps ==
    ASSUME VmInv, NEW p \in Proc, NEW m \in Image, ExecBegin(p, m)
    PROVE  Kept
<1> DEFINE u == [NoDir EXCEPT !.root = Kalloc]
<1>1. /\ UNCHANGED <<data, cur, kstack, sz, killed, np, addr>> /\ free' = free \ {Kalloc}
      /\ pc[p] = "user" /\ free # {} /\ m.memsz < KERNBASE
  BY Zenon DEF ExecBegin, Begins, Does
<1>2. /\ Stage(p) /\ Sized(p) /\ Account(Has, free) /\ free \in SUBSET Frame
      /\ Kalloc \in free /\ new[p] = NoDir
  BY Zenon, <1>1, AtProc, Apart DEF Kalloc, Stage, Execs
<1>3. /\ u \in Dir /\ OneToOne(u) /\ Owned(u) = {Kalloc}
      /\ \A i \in Page : u.pte[i] = None
  BY Zenon, <1>2, RootOnly
<1>4. new' \in [Proc -> Dir] /\ new'[p] = u /\ \A r \in Proc \ {p} : new'[r] = new[r]
  BY <1>2, <1>3 DEF ExecBegin, VmInv, VmTypeOK
<1> HIDE DEF u
<1>5. /\ pc' \in [Proc -> VmPoints] /\ pc'[p] = "exec_load"
      /\ page' \in [Proc -> Nat] /\ page'[p] = 0
      /\ img' \in [Proc -> Image \cup {None}] /\ img'[p] = m
      /\ \A r \in Proc \ {p} : pc'[r] = pc[r] /\ page'[r] = page[r] /\ img'[r] = img[r]
  BY Zenon DEF ExecBegin, VmInv, VmTypeOK, VmPoints, Execs
<1>6. VmTypeOK'
  BY Zenon, <1>1, <1>4, <1>5 DEF VmInv, VmTypeOK
<1>7. Leaves({p})
  BY Zenon, <1>1, <1>4, <1>5 DEF Leaves
<1>8. Account(Has, free)'
  <2>1. Same(new', new, p) /\ Owned(new'[p]) = Owned(new[p]) \cup {Kalloc}
    BY Zenon, <1>2, <1>3, <1>4, EmptyDir DEF Same
  <2>2. Account(HasOf(cur, new', kstack), free \ {Kalloc})
    BY Zenon, <1>2, <2>1, NewTakes DEF Has
  <2>3. QED
    BY Zenon, <1>1, <2>2 DEF Has
<1>9. OneToOne(cur[p])' /\ OneToOne(new[p])'
  BY Zenon, <1>1, <1>3, <1>4, AtProc
<1>10. Stage(p)' /\ Copied(p)'
  BY Zenon, <1>1, <1>2, <1>5 DEF Stage, Copied, Execs, Forks
<1>11. Sized(p)'
  BY Zenon, <1>1, <1>2, <1>5 DEF Sized, Alive
<1>12. Loaded(p)'
  <2>1. page'[p] <= m.pages /\ \A i \in Page : ~(i < page'[p])
    <3>1. m.pages \in Nat /\ page'[p] = 0
      BY Zenon, <1>5, Images
    <3>2. QED
      BY <3>1, Below
  <2>2. \A i \in Page : new'[p].pte[i] = None
    BY Zenon, <1>3, <1>4
  <2>3. QED
    BY <1>1, <1>5, <2>1, <2>2, Zenon DEF Loaded
<1>13. Shows(p)
  BY Zenon, <1>1, <1>5, Unseen DEF Shows, Alive
<1>14. QED
  BY Zenon, <1>1, <1>6, <1>7, <1>8, <1>9, <1>10, <1>11, <1>12, <1>13, Alone DEF Local

\* exec(): a page of the program.
LEMMA ExecLoadKeeps ==
    ASSUME VmInv, NEW p \in Proc, ExecLoad(p)
    PROVE  Kept
<1> DEFINE i == page[p]
           m == img[p]
           g == Guard(m)
<1>1. UNCHANGED <<cur, kstack, sz, killed, np, addr>> /\ pc[p] = "exec_load" /\ pc[p] \in Execs
  BY Zenon DEF ExecLoad, Execs
<1>2. /\ Stage(p) /\ Sized(p) /\ Loaded(p) /\ Account(Has, free) /\ i \in Nat
      /\ OneToOne(cur[p]) /\ OneToOne(new[p])
  BY Zenon, AtProc
<1>3. /\ m \in Image /\ m.memsz < KERNBASE /\ i <= m.pages
      /\ \A j \in Page : new[p].pte[j] # None <=> j < i
      /\ \A j \in Page : new[p].pte[j] # None
                         => data[new[p].pte[j]] = IF j < m.pages THEN 1 ELSE 0
  BY Zenon, <1>1, <1>2 DEF Stage, Loaded
<1>4. /\ m.pages \in Nat \ {0} /\ g \in Nat
      /\ \A j \in Nat : j < m.pages => j < g /\ j \in Page
  BY Zenon, <1>3, Images
<1> HIDE DEF i, m, g
<1>5. CASE UNCHANGED <<free, data, new, pc, page, img>>
  <2>1. VmTypeOK'
    BY Zenon, <1>1, <1>5 DEF VmInv, VmTypeOK
  <2>2. QED
    BY Zenon, <1>1, <1>5, <2>1, Nobody
<1>6. CASE ExecBad(p)
  BY Zenon, <1>1, <1>6, ExecFailsKeeps DEF ExecFails
<1>7. CASE /\ i < m.pages /\ Room(new[p]) /\ MapsNew(p, i, TRUE, 1)
           /\ page' = [page EXCEPT ![p] = i + 1] /\ UNCHANGED <<pc, img>>
  <2>1. i \in Page /\ new[p].pte[i] = None /\ 1 \in Data
    BY Zenon, <1>2, <1>3, <1>4, <1>7, Below, Contents
  <2>2. /\ new' \in [Proc -> Dir] /\ data' \in [Frame -> Data] /\ Account(Has, free)'
        /\ \A r \in Proc \ {p} : new'[r] = new[r]
        /\ OneToOne(new[p])' /\ new'[p].pte[i] = Kalloc /\ Kalloc \in free
        /\ \A j \in Page \ {i} : new'[p].pte[j] = new[p].pte[j]
        /\ \A f \in Frame \ free : data'[f] = data[f]
    <3>1. Room(new[p]) /\ MapsNew(p, i, TRUE, 1) /\ cur' = cur /\ kstack' = kstack
      BY Zenon, <1>1, <1>7
    <3>2. QED
      BY <2>1, <3>1, MappingNew, Zenon
  <2>3. data'[Kalloc] = 1
    BY Zenon, <1>2, <1>7, <2>2, Apart DEF MapsNew, Take, VmInv, VmTypeOK
  <2>4. page' \in [Proc -> Nat] /\ page'[p] = i + 1 /\ \A r \in Proc \ {p} : page'[r] = page[r]
    BY <1>2, <1>7 DEF VmInv, VmTypeOK
  <2>5. VmTypeOK'
    BY Zenon, <1>1, <1>7, <2>2, <2>4 DEF VmInv, VmTypeOK
  <2>6. Leaves({p})
    <3>1. \A r \in Proc \ {p} : \A f \in Owned(cur[r]) \cup Owned(new[r]) : data'[f] = data[f]
      BY Zenon, <2>2, UntouchedBy
    <3>2. QED
      BY Zenon, <1>1, <1>7, <2>2, <2>4, <3>1 DEF Leaves
  <2>7. Stage(p)' /\ Sized(p)' /\ Copied(p)'
    BY Zenon, <1>1, <1>2, <1>7 DEF Stage, Sized, Alive, Copied, Execs, Forks
  <2>8. Loaded(p)'
    <3>1. \A j \in Page : new[p].pte[j] # None => data'[new[p].pte[j]] = data[new[p].pte[j]]
      BY Zenon, <2>2, InUse
    <3>2. i + 1 <= m.pages /\ \A j \in Page : j < i + 1 <=> j < i \/ j = i
      <4>1. m.pages \in Nat /\ i \in Nat /\ i < m.pages
        BY Zenon, <1>2, <1>4, <1>7
      <4>2. QED
        BY <4>1, Below
    <3>3. Kalloc # None
      BY Zenon, <1>2, <2>2, Apart, Consts
    <3>4. ASSUME NEW j \in Page
          PROVE  /\ new'[p].pte[j] # None <=> j < i + 1
                 /\ new'[p].pte[j] # None
                    => data'[new'[p].pte[j]] = IF j < m.pages THEN 1 ELSE 0
      <4>1. CASE j = i
        BY Zenon, <1>7, <2>2, <2>3, <3>2, <3>3, <4>1
      <4>2. CASE j # i
        BY <1>3, <2>2, <3>1, <3>2, <4>2
      <4>3. QED
        BY Zenon, <4>1, <4>2
    <3>5. img'[p] = m /\ pc'[p] = "exec_load"
      BY Zenon, <1>1, <1>7 DEF m
    <3>6. QED
      BY Zenon, <1>3, <2>4, <3>2, <3>4, <3>5 DEF Loaded
  <2>9. OneToOne(cur[p])'
    BY Zenon, <1>1, <1>2
  <2>10. Shows(p)
    <3>1. \A f \in Owned(cur[p]) : data'[f] = data[f]
      BY Zenon, <1>2, <2>2, Apart
    <3>2. cur'[p] = cur[p] /\ sz'[p] = sz[p] /\ ((p \in Alive)' <=> p \in Alive)
      BY Zenon, <1>1, <1>7 DEF Alive
    <3>3. QED
      BY Zenon, <3>1, <3>2, Unseen DEF Shows
  <2>11. QED
    BY Zenon, <1>1, <2>2, <2>5, <2>6, <2>7, <2>8, <2>9, <2>10, Alone DEF Local
<1>8. CASE /\ i = m.pages /\ (g + 2) * PGSIZE < KERNBASE
           /\ pc' = [pc EXCEPT ![p] = IF Eager(g * PGSIZE, (g + 2) * PGSIZE)
                                      THEN "exec_stack" ELSE "exec_args"]
           /\ page' = [page EXCEPT ![p] = g] /\ UNCHANGED <<free, data, new, img>>
  <2>1. /\ pc' \in [Proc -> VmPoints] /\ pc'[p] \in {"exec_stack", "exec_args"}
        /\ page' \in [Proc -> Nat] /\ page'[p] = g
        /\ \A r \in Proc \ {p} : pc'[r] = pc[r] /\ page'[r] = page[r]
    BY Zenon, <1>4, <1>8 DEF VmInv, VmTypeOK, VmPoints, Execs
  <2>2. VmTypeOK'
    BY Zenon, <1>1, <1>8, <2>1 DEF VmInv, VmTypeOK
  <2>3. Leaves({p})
    BY Zenon, <1>1, <1>8, <2>1 DEF Leaves
  <2>4. Stage(p)' /\ Sized(p)' /\ Copied(p)'
    BY Zenon, <1>1, <1>2, <1>8, <2>1 DEF Stage, Sized, Alive, Copied, Execs, Forks
  <2>5. Loaded(p)'
    <3>1. g \in g..(g + 2) /\ \A j \in Page : ~(g <= j /\ j < g)
      BY <1>4, PageNumbers
    <3>2. img'[p] = m /\ Guard(img'[p]) = g /\ new'[p] = new[p] /\ data' = data
      BY Zenon, <1>8 DEF m, g
    <3>3. QED
      BY <1>3, <1>8, <2>1, <3>1, <3>2 DEF Loaded
  <2>6. Account(Has, free)' /\ OneToOne(cur[p])' /\ OneToOne(new[p])'
    BY Zenon, <1>1, <1>2, <1>8 DEF Has
  <2>7. Shows(p)
    <3>1. /\ cur'[p] = cur[p] /\ sz'[p] = sz[p] /\ ((p \in Alive)' <=> p \in Alive)
          /\ data' = data
      BY Zenon, <1>1, <1>8, <2>1 DEF Alive
    <3>2. QED
      BY Zenon, <3>1, Unseen DEF Shows
  <2>8. QED
    BY Zenon, <1>1, <2>2, <2>3, <2>4, <2>5, <2>6, <2>7, Alone DEF Local
<1>9. QED
  BY Zenon, <1>5, <1>6, <1>7, <1>8 DEF ExecLoad, MapsNew, i, m, g

\* exec(): a page of the guard and the stack.
LEMMA ExecStackKeeps ==
    ASSUME VmInv, NEW p \in Proc, ExecStack(p)
    PROVE  Kept
<1> DEFINE i == page[p]
           m == img[p]
           g == Guard(m)
<1>1. UNCHANGED <<cur, kstack, sz, killed, np, addr>> /\ pc[p] = "exec_stack" /\ pc[p] \in Execs
  BY Zenon DEF ExecStack, Execs
<1>2. /\ Stage(p) /\ Sized(p) /\ Loaded(p) /\ Account(Has, free) /\ i \in Nat
      /\ OneToOne(cur[p]) /\ OneToOne(new[p])
  BY Zenon, AtProc
<1>3. /\ m \in Image /\ m.memsz < KERNBASE /\ (g + 2) * PGSIZE < KERNBASE /\ i \in g..(g + 2)
      /\ \A j \in Page : new[p].pte[j] # None <=> j < m.pages \/ (g <= j /\ j < i)
      /\ \A j \in Page : new[p].pte[j] # None
                         => data[new[p].pte[j]] = IF j < m.pages THEN 1 ELSE 0
  BY Zenon, <1>1, <1>2 DEF Stage, Loaded
<1>4. /\ m.pages \in Nat \ {0} /\ g \in Nat
      /\ \A j \in Nat : j < m.pages => j < g
  BY Zenon, <1>3, Images
<1> HIDE DEF i, m, g
<1>5. CASE ExecBad(p)
  BY Zenon, <1>1, <1>5, ExecFailsKeeps DEF ExecFails
<1>6. CASE /\ i < g + 2 /\ Room(new[p]) /\ MapsNew(p, i, TRUE, 0)
           /\ page' = [page EXCEPT ![p] = i + 1] /\ UNCHANGED <<pc, img>>
  <2>1. i \in Page /\ new[p].pte[i] = None /\ 0 \in Data /\ ~(i < m.pages)
    <3>1. i \in Page /\ g <= i
      <4>1. i \in Nat /\ g \in Nat /\ g <= i /\ i < g + 2 /\ (g + 2) * PGSIZE < KERNBASE
        BY <1>2, <1>3, <1>4, <1>6
      <4>2. QED
        BY Zenon, <4>1, StackPages
    <3>2. ~(i < m.pages) /\ ~(i < i)
      BY <1>2, <1>4, <3>1
    <3>3. QED
      BY <1>3, <3>1, <3>2 DEF Data
  <2>2. /\ new' \in [Proc -> Dir] /\ data' \in [Frame -> Data] /\ Account(Has, free)'
        /\ \A r \in Proc \ {p} : new'[r] = new[r]
        /\ OneToOne(new[p])' /\ new'[p].pte[i] = Kalloc /\ Kalloc \in free
        /\ \A j \in Page \ {i} : new'[p].pte[j] = new[p].pte[j]
        /\ \A f \in Frame \ free : data'[f] = data[f]
    <3>1. Room(new[p]) /\ MapsNew(p, i, TRUE, 0) /\ cur' = cur /\ kstack' = kstack
      BY Zenon, <1>1, <1>6
    <3>2. QED
      BY <2>1, <3>1, MappingNew, Zenon
  <2>3. data'[Kalloc] = 0
    BY Zenon, <1>2, <1>6, <2>2, Apart DEF MapsNew, Take, VmInv, VmTypeOK
  <2>4. page' \in [Proc -> Nat] /\ page'[p] = i + 1 /\ \A r \in Proc \ {p} : page'[r] = page[r]
    BY <1>2, <1>6 DEF VmInv, VmTypeOK
  <2>5. VmTypeOK'
    BY Zenon, <1>1, <1>6, <2>2, <2>4 DEF VmInv, VmTypeOK
  <2>6. Leaves({p})
    <3>1. \A r \in Proc \ {p} : \A f \in Owned(cur[r]) \cup Owned(new[r]) : data'[f] = data[f]
      BY Zenon, <2>2, UntouchedBy
    <3>2. QED
      BY Zenon, <1>1, <1>6, <2>2, <2>4, <3>1 DEF Leaves
  <2>7. Stage(p)' /\ Sized(p)' /\ Copied(p)'
    BY Zenon, <1>1, <1>2, <1>6 DEF Stage, Sized, Alive, Copied, Execs, Forks
  <2>8. Loaded(p)'
    <3>1. \A j \in Page : new[p].pte[j] # None => data'[new[p].pte[j]] = data[new[p].pte[j]]
      BY Zenon, <2>2, InUse
    <3>2. i + 1 \in g..(g + 2) /\ g <= i /\ \A j \in Page : j < i + 1 <=> j < i \/ j = i
      <4>1. i \in g..(g + 2) /\ i < g + 2
        BY Zenon, <1>3, <1>6
      <4>2. QED
        BY <1>2, <1>4, <4>1, Below
    <3>3. Kalloc # None
      BY Zenon, <1>2, <2>2, Apart, Consts
    <3>4. ASSUME NEW j \in Page
          PROVE  /\ new'[p].pte[j] # None <=> j < m.pages \/ (g <= j /\ j < i + 1)
                 /\ new'[p].pte[j] # None
                    => data'[new'[p].pte[j]] = IF j < m.pages THEN 1 ELSE 0
      <4>1. CASE j = i
        BY <2>1, <2>2, <2>3, <3>2, <3>3, <4>1
      <4>2. CASE j # i
        BY <1>3, <2>2, <3>1, <3>2, <4>2
      <4>3. QED
        BY Zenon, <4>1, <4>2
    <3>5. img'[p] = m /\ Guard(img'[p]) = g /\ pc'[p] = "exec_stack"
      BY Zenon, <1>1, <1>6 DEF m, g
    <3>6. QED
      BY Zenon, <1>3, <2>4, <3>2, <3>4, <3>5 DEF Loaded
  <2>9. OneToOne(cur[p])'
    BY Zenon, <1>1, <1>2
  <2>10. Shows(p)
    <3>1. \A f \in Owned(cur[p]) : data'[f] = data[f]
      BY Zenon, <1>2, <2>2, Apart
    <3>2. cur'[p] = cur[p] /\ sz'[p] = sz[p] /\ ((p \in Alive)' <=> p \in Alive)
      BY Zenon, <1>1, <1>6 DEF Alive
    <3>3. QED
      BY Zenon, <3>1, <3>2, Unseen DEF Shows
  <2>11. QED
    BY <1>1, <2>2, <2>5, <2>6, <2>7, <2>8, <2>9, <2>10, Alone DEF Local
<1>7. CASE pc' = [pc EXCEPT ![p] = "exec_args"] /\ UNCHANGED <<free, data, new, page, img>>
  <2>1. /\ pc' \in [Proc -> VmPoints] /\ pc'[p] = "exec_args"
        /\ \A r \in Proc \ {p} : pc'[r] = pc[r]
    BY Zenon, <1>7 DEF VmInv, VmTypeOK, VmPoints, Execs
  <2>2. VmTypeOK'
    BY Zenon, <1>1, <1>7, <2>1 DEF VmInv, VmTypeOK
  <2>3. Leaves({p})
    BY Zenon, <1>1, <1>7, <2>1 DEF Leaves
  <2>4. Stage(p)' /\ Sized(p)' /\ Copied(p)'
    BY Zenon, <1>1, <1>2, <1>7, <2>1 DEF Stage, Sized, Alive, Copied, Execs, Forks
  <2>5. Loaded(p)'
    BY Zenon, <1>1, <1>2, <1>7, <2>1 DEF Loaded, Guard, PGROUNDUP
  <2>6. Account(Has, free)' /\ OneToOne(cur[p])' /\ OneToOne(new[p])'
    BY Zenon, <1>1, <1>2, <1>7 DEF Has
  <2>7. Shows(p)
    <3>1. /\ cur'[p] = cur[p] /\ sz'[p] = sz[p] /\ ((p \in Alive)' <=> p \in Alive)
          /\ data' = data
      BY Zenon, <1>1, <1>7, <2>1 DEF Alive
    <3>2. QED
      BY Zenon, <3>1, Unseen DEF Shows
  <2>8. QED
    BY Zenon, <1>1, <2>2, <2>3, <2>4, <2>5, <2>6, <2>7, Alone DEF Local
<1>8. QED
  BY Zenon, <1>5, <1>6, <1>7 DEF ExecStack, MapsNew, i, m, g

\* exec() switches to the new image, the arguments in page f of it.
ExecSwitches(p, g, f) ==
    /\ f # None /\ cur' = [cur EXCEPT ![p] = Clearpteu(new[p], g)]
    /\ free' = free \cup Owned(cur[p])
    /\ data' = [h \in Frame |-> IF h = f THEN 1
                                ELSE IF h \in Owned(cur[p]) THEN Junk ELSE data[h]]
    /\ sz' = [sz EXCEPT ![p] = (g + 2) * PGSIZE] /\ new' = [new EXCEPT ![p] = NoDir]
    /\ Return(p) /\ page' = [page EXCEPT ![p] = 0] /\ img' = [img EXCEPT ![p] = None]

\* exec(): the arguments, and the switch to the new memory.
LEMMA ExecArgsKeeps ==
    ASSUME VmInv, NEW p \in Proc, ExecArgs(p)
    PROVE  Kept
<1> DEFINE m == img[p]
           g == Guard(m)
           f == Uva2ka(new[p], g + 1)
<1>1. UNCHANGED <<kstack, killed, np, addr>> /\ pc[p] = "exec_args" /\ pc[p] \in Execs
  BY Zenon DEF ExecArgs, Execs
<1>2. /\ Stage(p) /\ Loaded(p) /\ Account(Has, free) /\ page[p] \in Nat
      /\ cur[p] \in Dir /\ new[p] \in Dir /\ OneToOne(new[p])
  BY Zenon, AtProc
<1>3. /\ m \in Image /\ (g + 2) * PGSIZE < KERNBASE /\ page[p] \in g..(g + 2)
      /\ \A j \in Page : new[p].pte[j] # None <=> j < m.pages \/ (g <= j /\ j < page[p])
      /\ \A j \in Page : new[p].pte[j] # None
                         => data[new[p].pte[j]] = IF j < m.pages THEN 1 ELSE 0
  BY Zenon, <1>1, <1>2 DEF Stage, Loaded
<1>4. m.pages \in Nat \ {0} /\ g \in Nat /\ \A j \in Nat : j < m.pages => j < g
  BY Zenon, <1>3, Images
<1> HIDE DEF m, g, f
<1>5. /\ g \in Page /\ g + 1 \in Page /\ (g + 2) * PGSIZE \in 0..(KERNBASE - 1)
      /\ \A j \in Nat : j < g + 2 => j \in Page /\ j * PGSIZE < (g + 2) * PGSIZE
  <2>1. /\ (g + 2) * PGSIZE \in Nat
        /\ \A j \in Nat : j < g + 2 => j \in Page /\ j * PGSIZE < (g + 2) * PGSIZE
    BY Zenon, <1>3, <1>4, StackPages
  <2>2. g < g + 2 /\ g + 1 < g + 2 /\ g + 1 \in Nat
    BY <1>4
  <2>3. QED
    BY <1>3, <1>4, <2>1, <2>2, Consts
<1>6. \A j \in Page : new[p].pte[j] # None => j * PGSIZE < (g + 2) * PGSIZE
  <2>1. \A j \in Page : j \in Nat /\ (j < m.pages => j < g + 2) /\ (j < page[p] => j < g + 2)
    <3>1. page[p] \in Nat /\ page[p] <= g + 2 /\ g \in Nat /\ \A j \in Nat : j < m.pages => j < g
      BY <1>2, <1>3, <1>4
    <3>2. QED
      BY <3>1, PageNumbers
  <2>2. QED
    BY <1>3, <1>5, <2>1, Zenon
<1>7. CASE ExecBad(p) /\ UNCHANGED <<cur, sz>>
  BY Zenon, <1>1, <1>7, ExecFailsKeeps DEF ExecFails
<1>8. CASE ExecSwitches(p, g, f)
  <2>1. f = new[p].pte[g + 1] /\ f # None /\ f \in Owned(new[p]) /\ f \in Frame
    <3>1. f = new[p].pte[g + 1] /\ f # None
      BY Zenon, <1>8 DEF ExecSwitches, Uva2ka, f
    <3>2. QED
      BY Zenon, <1>5, <3>1, InUse
  <2>2. /\ cur' \in [Proc -> Dir] /\ OneToOne(cur[p])' /\ Owned(cur'[p]) = Owned(new[p])
        /\ cur'[p].pte = new[p].pte /\ \A r \in Proc \ {p} : cur'[r] = cur[r]
    <3> DEFINE u == Clearpteu(new[p], g)
    <3>1. u \in Dir /\ OneToOne(u) /\ Owned(u) = Owned(new[p]) /\ u.pte = new[p].pte
      BY Zenon, <1>2, <1>5, Cleared
    <3> HIDE DEF u
    <3>2. /\ cur' \in [Proc -> Dir] /\ cur'[p] = u /\ \A r \in Proc \ {p} : cur'[r] = cur[r]
      BY Zenon, <1>8, <3>1 DEF ExecSwitches, VmInv, VmTypeOK, u
    <3>3. QED
      BY Zenon, <3>1, <3>2
  <2>3. /\ new' \in [Proc -> Dir] /\ new'[p] = NoDir /\ pc' \in [Proc -> VmPoints]
        /\ pc'[p] = "user" /\ page' \in [Proc -> Nat] /\ img' \in [Proc -> Image \cup {None}]
        /\ \A r \in Proc \ {p} : /\ new'[r] = new[r] /\ pc'[r] = pc[r]
                                 /\ page'[r] = page[r] /\ img'[r] = img[r]
    BY Zenon, <1>8, EmptyDir DEF ExecSwitches, Return, VmInv, VmTypeOK, VmPoints
  <2>4. /\ sz' \in [Proc -> 0..(KERNBASE - 1)] /\ sz'[p] = (g + 2) * PGSIZE
        /\ \A r \in Proc \ {p} : sz'[r] = sz[r]
    BY Zenon, <1>5, <1>8 DEF ExecSwitches, VmInv, VmTypeOK
  <2>5. /\ data' \in [Frame -> Data] /\ data'[f] = 1
        /\ \A h \in Frame : h # f /\ h \notin Owned(cur[p]) => data'[h] = data[h]
    BY Zenon, <1>8, <2>1, Contents DEF ExecSwitches, VmInv, VmTypeOK
  <2>6. VmTypeOK'
    BY <1>1, <2>2, <2>3, <2>4, <2>5 DEF VmInv, VmTypeOK
  <2>7. Leaves({p})
    <3>1. \A h \in Frame : data'[h] = data[h] \/ h \in free \/ h \in Mine(p)
      BY Zenon, <2>1, <2>5 DEF Mine
    <3>2. \A r \in Proc \ {p} : \A h \in Owned(cur[r]) \cup Owned(new[r]) : data'[h] = data[h]
      BY Zenon, <3>1, UntouchedBy
    <3>3. QED
      BY Zenon, <1>1, <2>2, <2>3, <2>4, <3>2 DEF Leaves
  <2>8. Account(Has, free)'
    <3>1. /\ Same(cur', cur, p) /\ Same(new', new, p)
          /\ Owned(cur'[p]) = Owned(new[p]) /\ Owned(new'[p]) = {}
      BY Zenon, <2>2, <2>3, EmptyDir DEF Same
    <3>2. Account(HasOf(cur', new', kstack), free \cup Owned(cur[p]))
      BY Zenon, <1>2, <3>1, Switches DEF Has
    <3>3. free' = free \cup Owned(cur[p])
      BY Zenon, <1>8 DEF ExecSwitches
    <3>4. QED
      BY <1>1, <3>2, <3>3 DEF Has
  <2>9. OneToOne(new[p])'
    BY Zenon, <2>3, EmptyDir
  <2>10. Stage(p)' /\ Copied(p)' /\ Loaded(p)'
    BY Zenon, <1>1, <1>2, <2>3 DEF Stage, Copied, Loaded, Execs, Forks
  <2>11. Sized(p)'
    BY Zenon, <1>6, <2>2, <2>3, <2>4 DEF Sized
  <2>12. Shows(p)
    <3>1. p \in Alive /\ (p \in Alive)' /\ Length(p)' = (g + 2) * PGSIZE
      BY Zenon, <1>1, <2>3, <2>4 DEF Alive, Length
    <3>2. \A j \in Page : new[p].pte[j] # None => data'[new[p].pte[j]] =
                            IF j < m.pages \/ j = g + 1 THEN 1 ELSE 0
      <4>1. \A j \in Page : new[p].pte[j] # None =>
                new[p].pte[j] \in Frame /\ new[p].pte[j] \notin Owned(cur[p])
        BY Zenon, <1>2, InUse, Apart
      <4>2. \A j \in Page : new[p].pte[j] = f => j = g + 1
        BY Zenon, <1>2, <1>5, <2>1, OneToOneIs
      <4>3. QED
        BY <1>3, <2>1, <2>5, <4>1, <4>2
    <3>3. \A j \in Page : j < m.pages \/ j = g + 1 => new[p].pte[j] # None
      BY Zenon, <1>3, <2>1
    <3>4. \A j \in Page : Content(p, j)' = IF j < m.pages \/ j = g + 1 THEN 1 ELSE 0
      BY <2>2, <3>1, <3>2, <3>3 DEF Content
    <3>5. QED
      BY Zenon, <1>3, <3>1, <3>4 DEF Shows, g
  <2>13. QED
    BY Zenon, <1>1, <2>2, <2>6, <2>7, <2>8, <2>9, <2>10, <2>11, <2>12, Alone DEF Local
<1>9. QED
  BY Zenon, <1>7, <1>8 DEF ExecArgs, ExecSwitches, m, g, f

----------------------------------------------------------------------------
(* The whole system.                                                       *)

\* userinit() finds the four pages it takes.
LEMMA InitFrames ==
    LET k == CHOOSE f \in Frame : TRUE
        r == CHOOSE f \in Frame \ {k} : TRUE
        t == CHOOSE f \in Frame \ {k, r} : TRUE
        m == CHOOSE f \in Frame \ {k, r, t} : TRUE
    IN  /\ k \in Frame /\ r \in Frame \ {k} /\ t \in Frame \ {k, r}
        /\ m \in Frame \ {k, r, t}
<1> DEFINE k == CHOOSE f \in Frame : TRUE
           r == CHOOSE f \in Frame \ {k} : TRUE
           t == CHOOSE f \in Frame \ {k, r} : TRUE
           m == CHOOSE f \in Frame \ {k, r, t} : TRUE
<1>1. Frame # {} /\ \A f, g, h \in Frame : Frame \ {f, g, h} # {}
  BY VmAssumption, Zenon
<1>2. k \in Frame
  BY <1>1, Zenon
<1>3. r \in Frame \ {k}
  <2>1. Frame \ {k, k, k} # {}
    BY <1>1, <1>2, Zenon
  <2>2. Frame \ {k} # {}
    BY <2>1, Zenon
  <2>3. QED
    BY <2>2, Zenon
<1>4. t \in Frame \ {k, r}
  <2>1. Frame \ {k, r, r} # {}
    BY <1>1, <1>2, <1>3, Zenon
  <2>2. Frame \ {k, r} # {}
    BY <2>1, Zenon
  <2>3. QED
    BY <2>2, Zenon
<1>5. m \in Frame \ {k, r, t}
  <2>1. k \in Frame /\ r \in Frame /\ t \in Frame
    BY <1>2, <1>3, <1>4, Zenon
  <2>2. Frame \ {k, r, t} # {}
    BY <1>1, <2>1, Zenon
  <2>3. QED
    BY <2>2, Zenon
<1>6. QED
  BY <1>2, <1>3, <1>4, <1>5, Zenon

\* userinit(): the first process, with one page.
LEMMA InitIs ==
    ASSUME Init
    PROVE  \E k, r, t, m \in Frame :
            /\ k # r /\ k # t /\ k # m /\ r # t /\ r # m /\ t # m
            /\ free = Frame \ {k, r, t, m}
            /\ cur = [p \in Proc |->
                        IF p = InitProc
                        THEN [NoDir EXCEPT !.root = r, !.tab = t, !.pte[0] = m, !.user = {0}]
                        ELSE NoDir]
            /\ kstack = [p \in Proc |-> IF p = InitProc THEN k ELSE None]
            /\ data = [f \in Frame |-> IF f = m THEN 1 ELSE Junk]
<1> DEFINE k == CHOOSE f \in Frame : TRUE
           r == CHOOSE f \in Frame \ {k} : TRUE
           t == CHOOSE f \in Frame \ {k, r} : TRUE
           m == CHOOSE f \in Frame \ {k, r, t} : TRUE
<1>1. /\ k \in Frame /\ r \in Frame \ {k} /\ t \in Frame \ {k, r}
      /\ m \in Frame \ {k, r, t}
  BY InitFrames, Zenon
<1>2. /\ free = Frame \ {k, r, t, m}
      /\ cur = [p \in Proc |->
                  IF p = InitProc
                  THEN [NoDir EXCEPT !.root = r, !.tab = t, !.pte[0] = m, !.user = {0}]
                  ELSE NoDir]
      /\ kstack = [p \in Proc |-> IF p = InitProc THEN k ELSE None]
      /\ data = [f \in Frame |-> IF f = m THEN 1 ELSE Junk]
  BY Zenon DEF Init
<1> HIDE DEF k, r, t, m
<1>3. k # r /\ k # t /\ k # m /\ r # t /\ r # m /\ t # m
  BY <1>1, Zenon
<1>4. QED
  BY <1>1, <1>2, <1>3, Zenon

\* The same, entry by entry.
LEMMA InitAt ==
    ASSUME Init
    PROVE  \E k, r, t, m \in Frame :
            /\ k # r /\ k # t /\ k # m /\ r # t /\ r # m /\ t # m
            /\ free = Frame \ {k, r, t, m}
            /\ cur \in [Proc -> Dir] /\ kstack \in [Proc -> Frame \cup {None}]
            /\ data \in [Frame -> Data] /\ data[m] = 1
            /\ cur[InitProc].root = r /\ cur[InitProc].tab = t /\ kstack[InitProc] = k
            /\ \A i \in Page : cur[InitProc].pte[i] = IF i = 0 THEN m ELSE None
            /\ \A p \in Proc \ {InitProc} : cur[p] = NoDir /\ kstack[p] = None
<1>1. PICK k, r, t, m \in Frame :
            /\ k # r /\ k # t /\ k # m /\ r # t /\ r # m /\ t # m
            /\ free = Frame \ {k, r, t, m}
            /\ cur = [p \in Proc |->
                        IF p = InitProc
                        THEN [NoDir EXCEPT !.root = r, !.tab = t, !.pte[0] = m, !.user = {0}]
                        ELSE NoDir]
            /\ kstack = [p \in Proc |-> IF p = InitProc THEN k ELSE None]
            /\ data = [f \in Frame |-> IF f = m THEN 1 ELSE Junk]
  BY InitIs, Zenon
<1> DEFINE u == [NoDir EXCEPT !.root = r, !.tab = t, !.pte[0] = m, !.user = {0}]
<1>2. /\ u \in Dir /\ u.root = r /\ u.tab = t
      /\ \A i \in Page : u.pte[i] = IF i = 0 THEN m ELSE None
  BY Zenon, PageNumbers DEF NoDir, Dir
<1>3. data \in [Frame -> Data] /\ data[m] = 1
  BY <1>1 DEF Data, Junk
<1> HIDE DEF u
<1>4. /\ cur \in [Proc -> Dir] /\ cur[InitProc] = u
      /\ \A p \in Proc \ {InitProc} : cur[p] = NoDir
  <2>1. cur = [p \in Proc |-> IF p = InitProc THEN u ELSE NoDir]
    BY <1>1, Zenon DEF u
  <2>2. QED
    BY Zenon, <1>2, <2>1, EmptyDir, Consts
<1>5. /\ kstack \in [Proc -> Frame \cup {None}] /\ kstack[InitProc] = k
      /\ \A p \in Proc \ {InitProc} : kstack[p] = None
  BY Zenon, <1>1, Consts
<1>6. /\ k # r /\ k # t /\ k # m /\ r # t /\ r # m /\ t # m
      /\ free = Frame \ {k, r, t, m}
      /\ cur[InitProc].root = r /\ cur[InitProc].tab = t
      /\ \A i \in Page : cur[InitProc].pte[i] = IF i = 0 THEN m ELSE None
      /\ \A p \in Proc \ {InitProc} : cur[p] = NoDir /\ kstack[p] = None
  BY Zenon, <1>1, <1>2, <1>4, <1>5
<1>7. QED
  BY <1>3, <1>4, <1>5, <1>6, Zenon

\* The invariant holds after userinit().
LEMMA InitVm == Init => VmInv /\ Spaces!Init
<1> SUFFICES ASSUME Init PROVE VmInv /\ Spaces!Init
  OBVIOUS
<1>1. PICK k, r, t, m \in Frame :
            /\ k # r /\ k # t /\ k # m /\ r # t /\ r # m /\ t # m
            /\ free = Frame \ {k, r, t, m}
            /\ cur \in [Proc -> Dir] /\ kstack \in [Proc -> Frame \cup {None}]
            /\ data \in [Frame -> Data] /\ data[m] = 1
            /\ cur[InitProc].root = r /\ cur[InitProc].tab = t /\ kstack[InitProc] = k
            /\ \A i \in Page : cur[InitProc].pte[i] = IF i = 0 THEN m ELSE None
            /\ \A p \in Proc \ {InitProc} : cur[p] = NoDir /\ kstack[p] = None
  BY InitAt, Zenon
<1>2. /\ new = [p \in Proc |-> NoDir] /\ sz = [p \in Proc |-> IF p = InitProc THEN PGSIZE ELSE 0]
      /\ killed = [p \in Proc |-> FALSE] /\ page = [p \in Proc |-> 0]
      /\ pc = [p \in Proc |-> IF p = InitProc THEN "user" ELSE "unused"]
      /\ np = [p \in Proc |-> None] /\ img = [p \in Proc |-> None] /\ addr = [p \in Proc |-> 0]
  BY Zenon DEF Init
<1>3. VmTypeOK
  <2>1. sz \in [Proc -> 0..(KERNBASE - 1)] /\ addr \in [Proc -> 0..(KERNBASE - 1)]
    BY <1>2, Consts
  <2>2. new \in [Proc -> Dir] /\ pc \in [Proc -> VmPoints]
    BY Zenon, <1>2, EmptyDir DEF VmPoints
  <2>3. /\ killed \in [Proc -> BOOLEAN] /\ page \in [Proc -> Nat]
        /\ np \in [Proc -> Proc \cup {None}] /\ img \in [Proc -> Image \cup {None}]
    BY Zenon, <1>2
  <2>4. QED
    BY <1>1, <2>1, <2>2, <2>3 DEF VmTypeOK
<1>4. /\ \A p \in Proc : new[p] = NoDir /\ np[p] = None /\ addr[p] = 0
      /\ \A p \in Proc \ {InitProc} : pc[p] = "unused" /\ sz[p] = 0
      /\ pc[InitProc] = "user" /\ sz[InitProc] = PGSIZE /\ InitProc \in Proc
  BY <1>2, Consts
<1>5. Account(Has, free)
  <2>1. Owned(cur[InitProc]) = {r, t, m} /\ \A p \in Proc \ {InitProc} : Owned(cur[p]) = {}
    BY <1>1, OwnedIs, EmptyDir, PageNumbers, Consts
  <2>2. \A p \in Proc : Owned(new[p]) = {}
    BY Zenon, <1>4, EmptyDir
  <2>3. ASSUME NEW z \in Table
        PROVE  Has[z] = IF z = CurOf(InitProc) THEN {r, t, m}
                        ELSE IF z = StackOf(InitProc) THEN {k} ELSE {}
    <3>1. PICK p \in Proc : z = CurOf(p) \/ z = NewOf(p) \/ z = StackOf(p)
      BY <2>3 DEF Table, CurOf, NewOf, StackOf
    <3>2. /\ Has[CurOf(p)] = Owned(cur[p]) /\ Has[NewOf(p)] = Owned(new[p])
          /\ Has[StackOf(p)] = {kstack[p]} \ {None}
      BY HasAt DEF Has
    <3>3. /\ NewOf(p) # CurOf(InitProc) /\ NewOf(p) # StackOf(InitProc)
          /\ CurOf(p) # StackOf(InitProc) /\ StackOf(p) # CurOf(InitProc)
          /\ CurOf(p) = CurOf(InitProc) <=> p = InitProc
          /\ StackOf(p) = StackOf(InitProc) <=> p = InitProc
      BY Zenon DEF CurOf, NewOf, StackOf
    <3>4. /\ {kstack[p]} \ {None} = IF p = InitProc THEN {k} ELSE {}
          /\ Owned(cur[p]) = IF p = InitProc THEN {r, t, m} ELSE {}
          /\ Owned(new[p]) = {}
      BY <1>1, <2>1, <2>2, Consts
    <3>5. QED
      BY <3>1, <3>2, <3>3, <3>4
  <2>4. CurOf(InitProc) \in Table /\ StackOf(InitProc) \in Table
        /\ CurOf(InitProc) # StackOf(InitProc)
    BY Zenon, <1>4 DEF Table, CurOf, StackOf
  <2>5. QED
    BY <1>1, <2>3, <2>4 DEF Account
<1>6. \A p \in Proc : OneToOne(cur[p]) /\ OneToOne(new[p])
  <2>1. OneToOne(cur[InitProc])
    BY Zenon, <1>1, OneToOneIs, Consts
  <2>2. QED
    BY <1>1, <1>4, <2>1, EmptyDir
<1>7. ASSUME NEW p \in Proc PROVE Local(p)
  <2>1. Stage(p) /\ Copied(p) /\ Loaded(p)
    BY Zenon, <1>1, <1>4, Consts DEF Stage, Copied, Loaded, Forks, Execs
  <2>2. 0 * PGSIZE < PGSIZE
    BY Consts
  <2>3. Sized(p)
    BY <1>1, <1>4, <2>2 DEF Sized, Alive
  <2>4. QED
    BY Zenon, <2>1, <2>3 DEF Local
<1>8. VmInv
  BY <1>3, <1>4, <1>5, <1>6, <1>7 DEF VmInv
<1>9. Spaces!Init
  <2>1. Alive = {InitProc}
    BY Zenon, <1>4 DEF Alive
  <2>2. Size = [p \in Proc |-> IF p = InitProc THEN PGSIZE ELSE 0]
    BY Zenon, <1>4, <2>1 DEF Size, Length
  <2>3. ASSUME NEW p \in Proc
        PROVE  [i \in Page |-> Content(p, i)] =
                IF p = InitProc THEN [Spaces!Zero EXCEPT ![0] = 1] ELSE Spaces!Zero
    <3>1. \A i \in Page : Content(p, i) = IF p = InitProc /\ i = 0 THEN 1 ELSE 0
      BY Zenon, <1>1, <2>1, Consts DEF Content
    <3>2. QED
      BY Zenon, <3>1 DEF Spaces!Zero
  <2>4. Mem = [p \in Proc |-> IF p = InitProc THEN [Spaces!Zero EXCEPT ![0] = 1]
                                            ELSE Spaces!Zero]
    BY <2>3, Zenon DEF Mem
  <2>5. QED
    BY <2>1, <2>2, <2>4, Zenon DEF Spaces!Init, Size, Mem, Length, Content
<1>10. QED
  BY Zenon, <1>8, <1>9

\* Every step of a process keeps the invariant.
LEMMA StepKeeps ==
    ASSUME VmInv, NEW p \in Proc, Step(p)
    PROVE  Kept
<1>1. CASE \E a \in 0..(KERNBASE - 1) : Access(p, a) \/ Syscall(p, a)
  BY <1>1, AccessKeeps, SyscallKeeps, Zenon
<1>2. CASE \E n \in SbrkArgs : SbrkGrow(p, n) \/ SbrkShrink(p, n)
  BY <1>2, SbrkGrowKeeps, SbrkShrinkKeeps, Zenon
<1>3. CASE \E q \in Proc : ForkAlloc(p, q)
  BY <1>3, ForkAllocKeeps, Zenon
<1>4. CASE \E m \in Image : ExecBegin(p, m)
  BY <1>4, ExecBeginKeeps, Zenon
<1>5. CASE Copy(p) \/ Grow(p) \/ Exit(p) \/ Reap(p)
  BY <1>5, CopyKeeps, GrowKeeps, ExitKeeps, ReapKeeps, Zenon
<1>6. CASE ForkDir(p) \/ ForkPage(p) \/ ExecLoad(p) \/ ExecStack(p) \/ ExecArgs(p)
  BY <1>6, ForkDirKeeps, ForkPageKeeps, ExecLoadKeeps, ExecStackKeeps, ExecArgsKeeps, Zenon
<1>7. QED
  BY <1>1, <1>2, <1>3, <1>4, <1>5, <1>6, Zenon DEF Step

\* Every step keeps the invariant.
LEMMA NextKeeps ==
    ASSUME VmInv, [Next]_vars
    PROVE  Kept
<1>1. CASE UNCHANGED vars
  <2>1. /\ UNCHANGED <<free, data, cur, new, kstack, sz, pc, page, np, img, addr>>
        /\ killed' = killed
    BY Zenon, <1>1 DEF vars, cvars
  <2>2. VmTypeOK'
    BY Zenon, <2>1 DEF VmInv, VmTypeOK
  <2>3. QED
    BY Zenon, <2>1, <2>2, Nobody
<1>2. CASE \E p \in Proc : Step(p)
  BY <1>2, StepKeeps, Zenon
<1>3. QED
  BY <1>1, <1>2, Zenon DEF Next, Halted

\* The invariant of the memory system holds at every step, in every
\* interleaving of the system calls and page faults of any number of processes
\* with any amount of memory.
THEOREM VmInvariant == Spec => []VmInv
<1>1. Init => VmInv
  BY InitVm, Zenon
<1>2. VmInv /\ [Next]_vars => VmInv'
  BY NextKeeps, Zenon DEF Kept
<1>3. QED
  BY <1>1, <1>2, PTL DEF Spec

\* No path through fork(), exec(), sbrk(), exit(), wait() or a page fault leaks
\* a physical page, frees one twice or maps one twice, those that run out of
\* memory half way included, and no page is mapped at or above p->sz.
THEOREM NoPageLost == Spec => []FramesAccounted
<1>1. ASSUME VmInv PROVE FramesAccounted
  <2>1. Account(Has, free) /\ \A p \in Proc : OneToOne(cur[p]) /\ OneToOne(new[p]) /\ Sized(p)
    BY <1>1, Zenon DEF VmInv, Local
  <2>2. \A p \in Proc : \A f : f \in Mine(p) <=>
            f \in Has[CurOf(p)] \/ f \in Has[NewOf(p)] \/ f \in Has[StackOf(p)]
    BY HasAt DEF Has, Mine
  <2>3. ASSUME NEW f \in Frame PROVE f \in free <=> \A p \in Proc : f \notin Mine(p)
    <3>1. \A p \in Proc : CurOf(p) \in Table /\ NewOf(p) \in Table /\ StackOf(p) \in Table
      BY Zenon, HasAt
    <3>2. \A z \in Table : \E p \in Proc : z = CurOf(p) \/ z = NewOf(p) \/ z = StackOf(p)
      BY DEF Table, CurOf, NewOf, StackOf
    <3>3. f \in free <=> \A z \in Table : f \notin Has[z]
      BY <2>1, Zenon DEF Account
    <3>4. QED
      BY <2>2, <3>1, <3>2, <3>3, Zenon
  <2>4. free = Frame \ UNION {Mine(p) : p \in Proc}
    BY <2>1, <2>3 DEF Account
  <2>5. ASSUME NEW p \in Proc, NEW q \in Proc, p # q PROVE Mine(p) \cap Mine(q) = {}
    BY <2>1, <2>5, ApartOthers DEF Mine
  <2>6. ASSUME NEW p \in Proc
        PROVE  /\ Owned(cur[p]) \cap Owned(new[p]) = {}
               /\ kstack[p] \notin Owned(cur[p]) \cup Owned(new[p])
    <3>1. None \notin Owned(cur[p]) \cup Owned(new[p])
      BY Zenon, OwnedIs
    <3>2. QED
      BY Zenon, <2>1, <3>1, Apart
  <2>7. \A p \in Alive, i \in Page :
            cur[p].pte[i] # None /\ pc[p] # "grow" => i * PGSIZE < sz[p]
    BY Zenon, <2>1 DEF Sized, Alive
  <2>8. QED
    BY <2>1, <2>4, <2>5, <2>6, <2>7, Zenon DEF FramesAccounted
<1>2. QED
  BY <1>1, VmInvariant, PTL

\* Every process has a memory of its own: nothing another process does changes
\* it, pages that are allocated lazily are zeros as if they had been there,
\* fork() copies it in one step and exec() replaces it in one step or not at all.
THEOREM MemoryIsPrivate == Spec => ImplementsAddressSpaces
<1>1. Init => Spaces!Init
  BY InitVm, Zenon
<1>2. VmInv /\ [Next]_vars => [Spaces!Next]_(Spaces!avars)
  <2> SUFFICES ASSUME VmInv, [Next]_vars PROVE SpaceStep
    BY Zenon DEF SpaceStep, Spaces!avars, Size, Mem, Length, Content
  <2>1. QED
    BY NextKeeps, Zenon DEF Kept
<1>3. QED
  BY <1>1, <1>2, VmInvariant, PTL DEF Spec, ImplementsAddressSpaces, Spaces!Spec
====
