------------------------------ MODULE VmSteps -------------------------------
(***************************************************************************)
(* The inductive invariant of Vm, VmInv, and the steps that keep it on the *)
(* memory of one process: page faults, reads and writes, sbrk(), exec().   *)
(* Who has a physical page is one function, Has, from page tables and      *)
(* kernel stacks to sets of pages: VmInv says that no page has two owners  *)
(* and that every page has an owner or is free.                            *)
(***************************************************************************)
EXTENDS Vm, TLAPS

\* The provers' time for each leaf.
USE SMTT(60), ZenonT(60)

\* What can have physical pages: the page table of each process, the one its
\* exec() builds, and its kernel stack.  HasOf gives the pages they have.
Table == Proc \X {"cur", "new", "stack"}
CurOf(p) == <<p, "cur">>
NewOf(p) == <<p, "new">>
StackOf(p) == <<p, "stack">>
HasIn(c, n, k, z) ==
    CASE z[2] = "cur" -> Owned(c[z[1]])
      [] z[2] = "new" -> Owned(n[z[1]])
      [] z[2] = "stack" -> {k[z[1]]} \ {None}
HasOf(c, n, k) == [z \in Table |-> HasIn(c, n, k, z)]
Has == HasOf(cur, new, kstack)

\* Only the pages of z differ; only the entry of p differs.
Differs(G, H, z) == \A y \in Table \ {z} : G[y] = H[y]
Same(d, c, p) == \A r \in Proc \ {p} : d[r] = c[r]

\* Every page is in one part of H, or in the free list F.
Account(H, F) ==
    /\ \A z \in Table : H[z] \in SUBSET Frame
    /\ F \in SUBSET Frame
    /\ \A f \in Frame : f \in F <=> \A z \in Table : f \notin H[z]
    /\ \A y, z \in Table : y # z => H[y] \cap H[z] = {}

Dir == [root : Frame \cup {None}, tab : Frame \cup {None},
        pte : [Page -> Frame \cup {None}], user : SUBSET Page]
Forks == {"fork_dir", "fork_page"}
Execs == {"exec_load", "exec_stack", "exec_args"}
VmPoints == {"unused", "embryo", "user", "copy", "grow", "zombie"} \cup Forks \cup Execs

VmTypeOK ==
    /\ data \in [Frame -> Data]
    /\ cur \in [Proc -> Dir] /\ new \in [Proc -> Dir]
    /\ kstack \in [Proc -> Frame \cup {None}]
    /\ sz \in [Proc -> 0..(KERNBASE - 1)] /\ addr \in [Proc -> 0..(KERNBASE - 1)]
    /\ killed \in [Proc -> BOOLEAN] /\ pc \in [Proc -> VmPoints]
    /\ page \in [Proc -> Nat] /\ np \in [Proc -> Proc \cup {None}]
    /\ img \in [Proc -> Image \cup {None}]

\* What a process is doing, and what it has then.
Stage(p) ==
    /\ pc[p] = "unused" => cur[p] = NoDir
    /\ pc[p] = "unused" <=> kstack[p] = None
    /\ pc[p] \notin Execs => new[p] = NoDir
    /\ pc[p] \in Execs => img[p] \in Image
    /\ pc[p] \in Forks <=> np[p] # None
    /\ pc[p] = "copy" => addr[p] < sz[p]

\* No page above the size of the process, but for those sbrk() adds, all zero.
Sized(p) ==
    /\ p \in Alive /\ pc[p] # "grow" =>
        \A i \in Page : cur[p].pte[i] # None => i * PGSIZE < sz[p]
    /\ pc[p] = "grow" =>
        /\ sz[p] <= addr[p]
        /\ \A i \in Page : i < page[p] => i * PGSIZE < addr[p]
        /\ \A i \in Page : i * PGSIZE < sz[p] => i < page[p]
        /\ \A i \in Page : cur[p].pte[i] # None => i < page[p]
        /\ \A i \in Page : cur[p].pte[i] # None /\ i * PGSIZE >= sz[p]
                            => data[cur[p].pte[i]] = 0

\* The child of a fork() in progress has copies of the first pages.
Copied(p) ==
    pc[p] \in Forks =>
        LET t == cur[p]  u == cur[np[p]] IN
        /\ pc[np[p]] = "embryo"
        /\ pc[p] = "fork_dir" => u = NoDir
        /\ pc[p] = "fork_page" =>
            \A i \in Page :
                /\ u.pte[i] # None <=> i < page[p] /\ t.pte[i] # None
                /\ u.pte[i] # None => data[u.pte[i]] = data[t.pte[i]]

\* The image exec() has built so far.
Loaded(p) ==
    pc[p] \in Execs =>
        LET t == new[p]  m == img[p]  g == Guard(m) IN
        /\ m.memsz < KERNBASE
        /\ pc[p] = "exec_load" =>
            page[p] <= m.pages /\ \A i \in Page : t.pte[i] # None <=> i < page[p]
        /\ pc[p] # "exec_load" =>
            /\ (g + 2) * PGSIZE < KERNBASE /\ page[p] \in g..(g + 2)
            /\ \A i \in Page :
                t.pte[i] # None <=> i < m.pages \/ (g <= i /\ i < page[p])
        /\ \A i \in Page :
            t.pte[i] # None => data[t.pte[i]] = IF i < m.pages THEN 1 ELSE 0

Local(p) == Stage(p) /\ Sized(p) /\ Copied(p) /\ Loaded(p)

VmInv ==
    /\ VmTypeOK /\ Account(Has, free)
    /\ \A p, q \in Proc : np[p] = np[q] /\ np[p] # None => p = q
    /\ \A p \in Proc : OneToOne(cur[p]) /\ OneToOne(new[p]) /\ Local(p)

\* What a process sees of its memory.
Length(r) == IF r \in Alive THEN sz[r] ELSE 0
Content(r, i) ==
    IF r \in Alive /\ cur[r].pte[i] # None THEN data[cur[r].pte[i]] ELSE 0

\* It sees no difference, it sees one that AddressSpaces allows, and a new
\* process sees what its parent sees.
Blind(r) ==
    /\ (r \in Alive)' <=> r \in Alive
    /\ Length(r)' = Length(r) /\ \A i \in Page : Content(r, i)' = Content(r, i)
Shows(p) ==
    \/ Blind(p)
    \/ /\ p \in Alive /\ (p \in Alive)'
       /\ \/ /\ Length(p)' = Length(p)
             /\ \E k \in Page :
                 /\ k * PGSIZE < Length(p)
                 /\ \A i \in Page : Content(p, i)' = IF i = k THEN 1 ELSE Content(p, i)
          \/ \E n \in 0..KERNBASE :
              /\ Length(p)' = n
              /\ \A i \in Page :
                  Content(p, i)' = IF i * PGSIZE < n THEN Content(p, i) ELSE 0
          \/ Length(p)' = Length(p) /\ \A i \in Page : Content(p, i)' = 0
          \/ \E m \in Image :
              /\ Length(p)' = (Guard(m) + 2) * PGSIZE
              /\ \A i \in Page :
                  Content(p, i)' = IF i < m.pages \/ i = Guard(m) + 1 THEN 1 ELSE 0
    \/ /\ p \in Alive /\ ~(p \in Alive)'
       /\ Length(p)' = 0 /\ \A i \in Page : Content(p, i)' = 0
Copies(p, q) ==
    /\ p \in Alive /\ Blind(p) /\ q \notin Alive /\ (q \in Alive)'
    /\ Length(q)' = Length(p) /\ \A i \in Page : Content(q, i)' = Content(p, i)

\* The variables of AddressSpaces.
Size == [p \in Proc |-> Length(p)]
Mem == [p \in Proc |-> [i \in Page |-> Content(p, i)]]
SpaceStep == Spaces!Next \/ UNCHANGED <<Alive, Size, Mem>>

\* A step keeps the invariant and is one of AddressSpaces, or none.
Kept == VmInv' /\ SpaceStep

----------------------------------------------------------------------------
(* Addresses and page numbers.                                             *)

\* Integer division, by what it is used for.
LEMMA Division ==
    ASSUME NEW a \in Int, NEW n \in Nat \ {0}
    PROVE  LET i == a \div n IN i \in Int /\ i * n <= a /\ a < (i + 1) * n
<1> DEFINE i == a \div n
           r == a % n
<1>1. i \in Int /\ r \in 0..(n - 1) /\ a = n * i + r
  OBVIOUS
<1> HIDE DEF i, r
<1>2. i \in Int /\ i * n <= a /\ a < (i + 1) * n
  BY <1>1
<1>3. QED
  BY Zenon, <1>2 DEF i

\* A multiple of the page size grows with its factor.
LEMMA Times ==
    ASSUME NEW i \in Int, NEW j \in Int, NEW n \in Nat \ {0}
    PROVE  i * n \in Int /\ (i < j <=> i * n < j * n)
OBVIOUS

\* The assumptions on the constants, as the proofs cite them.
LEMMA Consts ==
    /\ PGSIZE \in Nat \ {0} /\ KERNBASE \in Nat /\ PGSIZE < KERNBASE
    /\ None \notin Frame /\ None \notin Proc /\ InitProc \in Proc
BY Zenon, VmAssumption

\* The arguments of sbrk() are integers.
LEMMA Args == SbrkArgs \subseteq Int
BY Zenon, VmAssumption

\* A page number is one whose page starts below KERNBASE.
LEMMA PageNumbers ==
    /\ Page \subseteq Nat /\ 0 \in Page
    /\ \A i \in Nat : i \in Page <=> i * PGSIZE < KERNBASE
    /\ \A i \in Page : i * PGSIZE \in Nat
<1> DEFINE n == KERNBASE \div PGSIZE
<1>1. KERNBASE % PGSIZE = 0
  BY Zenon, VmAssumption
<1>2. n \in Int /\ KERNBASE = n * PGSIZE
  BY <1>1, Consts
<1>3. Page = 0..(n - 1)
  BY Zenon DEF Page
<1> HIDE DEF n
<1>4. n > 0
  BY <1>2, Consts
<1>5. \A i \in Nat : i < n <=> i * PGSIZE < KERNBASE
  BY <1>2, Times, Consts
<1>6. QED
  BY <1>2, <1>3, <1>4, <1>5, Consts

\* Comparing the numbers of pages.
LEMMA Below ==
    /\ \A i \in Page : i \in Nat /\ ~(i < 0)
    /\ \A n \in Nat : n + 1 \in Nat /\ ~(n < n)
    /\ \A n \in Nat : \A i \in Page : i < n + 1 <=> i < n \/ i = n
BY PageNumbers

\* A size is that of pages below KERNBASE.
LEMMA Bounded ==
    ASSUME NEW n \in 0..(KERNBASE - 1)
    PROVE  n \in Nat /\ n \in 0..KERNBASE /\ \A i \in Nat : i * PGSIZE < n => i \in Page
<1>1. n \in Nat /\ n \in 0..KERNBASE
  BY Consts
<1>2. \A i \in Nat : i * PGSIZE < n => i * PGSIZE < KERNBASE
  BY Consts
<1>3. QED
  BY Zenon, <1>1, <1>2, PageNumbers

\* What kfree() writes and what a new page holds.
LEMMA Contents == 0 \in Data /\ 1 \in Data /\ Junk \in Data
BY DEF Data, Junk

\* The page of an address.
LEMMA PageOf ==
    ASSUME NEW a \in 0..(KERNBASE - 1)
    PROVE  a \div PGSIZE \in Page /\ (a \div PGSIZE) * PGSIZE <= a
<1> DEFINE i == a \div PGSIZE
<1>1. i \in Int /\ i * PGSIZE <= a /\ a < (i + 1) * PGSIZE
  BY Division, Consts
<1> HIDE DEF i
<1>2. 0 * PGSIZE < (i + 1) * PGSIZE
  BY <1>1, Consts
<1>3. 0 < i + 1
  BY <1>1, <1>2, Times, Consts
<1>4. i \in Nat /\ i * PGSIZE < KERNBASE
  BY <1>1, <1>3, Consts
<1>5. QED
  BY Zenon, <1>1, <1>4, PageNumbers DEF i

\* PGROUNDUP() is the first page that begins at or above the address.
LEMMA RoundUp ==
    ASSUME NEW a \in Nat
    PROVE  /\ PGROUNDUP(a) \in Nat
           /\ \A i \in Nat : PGROUNDUP(a) <= i <=> a <= i * PGSIZE
<1> DEFINE g == (a + PGSIZE - 1) \div PGSIZE
<1>1. /\ g \in Int /\ g * PGSIZE <= a + PGSIZE - 1
      /\ a + PGSIZE - 1 < (g + 1) * PGSIZE
  BY Division, Consts
<1>2. PGROUNDUP(a) = g
  BY Zenon DEF PGROUNDUP
<1> HIDE DEF g
<1>3. 0 * PGSIZE < (g + 1) * PGSIZE /\ (g + 1) * PGSIZE = g * PGSIZE + PGSIZE
  BY <1>1, Consts
<1>4. g \in Nat
  <2>1. 0 < g + 1
    BY <1>1, <1>3, Times, Consts
  <2>2. QED
    BY <1>1, <2>1
<1>5. ASSUME NEW i \in Nat, g <= i PROVE a <= i * PGSIZE
  <2>1. g * PGSIZE <= i * PGSIZE
    BY <1>4, <1>5, Consts
  <2>2. QED
    BY <1>1, <1>3, <1>4, <2>1, Consts
<1>6. ASSUME NEW i \in Nat, a <= i * PGSIZE PROVE g <= i
  <2>1. (i + 1) * PGSIZE = i * PGSIZE + PGSIZE
    BY Consts
  <2>2. g * PGSIZE < (i + 1) * PGSIZE
    BY <1>1, <1>4, <1>6, <2>1, Consts
  <2>3. g < i + 1
    BY <1>4, <2>2, Times, Consts
  <2>4. QED
    BY <1>4, <2>3
<1>7. QED
  BY Zenon, <1>2, <1>4, <1>5, <1>6

\* The pages of a program lie below its guard page.
LEMMA Images ==
    ASSUME NEW m \in Image
    PROVE  /\ m.pages \in Nat \ {0} /\ m.memsz \in Nat
           /\ Guard(m) \in Nat /\ \A i \in Nat : i < m.pages => i < Guard(m)
           /\ m.memsz < KERNBASE => \A i \in Nat : i < m.pages => i \in Page
<1> DEFINE g == Guard(m)
<1>1. m.pages \in Nat \ {0} /\ m.memsz \in Nat /\ (m.pages - 1) * PGSIZE < m.memsz
  BY VmAssumption, Zenon
<1>2. g \in Nat /\ \A i \in Nat : g <= i <=> m.memsz <= i * PGSIZE
  BY Zenon, <1>1, RoundUp DEF Guard
<1> HIDE DEF g
<1>3. ASSUME NEW i \in Nat, i < m.pages PROVE i * PGSIZE \in Nat /\ i * PGSIZE < m.memsz
  <2>1. i <= m.pages - 1 /\ m.pages - 1 \in Nat
    BY <1>1, <1>3
  <2>2. i * PGSIZE <= (m.pages - 1) * PGSIZE
    BY <2>1, Consts
  <2>3. QED
    BY <1>1, <2>1, <2>2, Consts
<1>4. ASSUME NEW i \in Nat, i < m.pages PROVE i < g /\ (m.memsz < KERNBASE => i \in Page)
  BY <1>1, <1>2, <1>3, <1>4, PageNumbers, Consts
<1>5. QED
  BY Zenon, <1>1, <1>2, <1>4 DEF g

\* The pages below the top of the stack.
\* The pages between two sizes.
LEMMA BetweenIs ==
    ASSUME NEW old, NEW newsz \in Nat
    PROVE  /\ Between(old, newsz) \in SUBSET Page
           /\ \A i \in Page : i \in Between(old, newsz) <=>
                                newsz <= i * PGSIZE /\ i * PGSIZE < old
BY Zenon, RoundUp, PageNumbers DEF Between

----------------------------------------------------------------------------
(* Giving pages, taking them back and moving them.                         *)

\* Pages of the free list go to one table: the account stays right.
LEMMA Give ==
    ASSUME NEW H, NEW F, Account(H, F), NEW z \in Table, NEW S \in SUBSET F,
           NEW G, Differs(G, H, z), G[z] = H[z] \cup S
    PROVE  Account(G, F \ S)
<1>1. (\A y \in Table : G[y] \in SUBSET Frame) /\ F \ S \in SUBSET Frame
  BY Zenon DEF Account, Differs
<1>2. \A y \in Table : S \cap H[y] = {}
  BY Zenon DEF Account
<1>3. \A f \in Frame : f \in F \ S <=> \A y \in Table : f \notin G[y]
  BY Zenon DEF Account, Differs
<1>4. \A x, y \in Table : x # y => G[x] \cap G[y] = {}
  BY Zenon, <1>2 DEF Account, Differs
<1>5. QED
  BY Zenon, <1>1, <1>3, <1>4 DEF Account

\* Pages of one table go to the free list: the account stays right.
LEMMA TakeBack ==
    ASSUME NEW H, NEW F, Account(H, F), NEW z \in Table, NEW S \in SUBSET H[z],
           NEW G, Differs(G, H, z), G[z] = H[z] \ S
    PROVE  Account(G, F \cup S)
<1>1. (\A y \in Table : G[y] \in SUBSET Frame) /\ F \cup S \in SUBSET Frame
  BY Zenon DEF Account, Differs
<1>2. \A y \in Table \ {z} : S \cap H[y] = {}
  BY Zenon DEF Account
<1>3. \A f \in Frame : f \in F \cup S <=> \A y \in Table : f \notin G[y]
  BY Zenon, <1>2 DEF Account, Differs
<1>4. \A x, y \in Table : x # y => G[x] \cap G[y] = {}
  BY <1>2 DEF Account, Differs
<1>5. QED
  BY Zenon, <1>1, <1>3, <1>4 DEF Account

\* exec() frees the old image and puts the new one in its place.
LEMMA Move ==
    ASSUME NEW H, NEW F, Account(H, F), NEW y \in Table, NEW z \in Table, y # z,
           NEW G, \A x \in Table \ {y, z} : G[x] = H[x],
           G[y] = H[z], G[z] = {}
    PROVE  Account(G, F \cup H[y])
<1>1. (\A x \in Table : G[x] \in SUBSET Frame) /\ F \cup H[y] \in SUBSET Frame
  BY Zenon DEF Account
<1>2. \A x, w \in Table : x # w => G[x] \cap G[w] = {}
  BY Zenon DEF Account
<1>3. \A f \in Frame : f \in F \cup H[y] <=> \A x \in Table : f \notin G[x]
  BY Zenon DEF Account
<1>4. QED
  BY Zenon, <1>1, <1>2, <1>3 DEF Account

----------------------------------------------------------------------------
(* The pages of the state.                                                 *)

\* What a process has in its three tables.
LEMMA HasAt ==
    ASSUME NEW c, NEW n, NEW k, NEW p \in Proc
    PROVE  /\ HasOf(c, n, k)[CurOf(p)] = Owned(c[p])
           /\ HasOf(c, n, k)[NewOf(p)] = Owned(n[p])
           /\ HasOf(c, n, k)[StackOf(p)] = {k[p]} \ {None}
           /\ CurOf(p) \in Table /\ NewOf(p) \in Table /\ StackOf(p) \in Table
           /\ CurOf(p) # NewOf(p)
BY Zenon DEF HasOf, HasIn, Table, CurOf, NewOf, StackOf

\* One of them changes.
LEMMA CurChanges ==
    ASSUME NEW c, NEW n, NEW k, NEW d, NEW p \in Proc, Same(d, c, p)
    PROVE  Differs(HasOf(d, n, k), HasOf(c, n, k), CurOf(p))
BY DEF Differs, HasOf, HasIn, Table, CurOf, Same

\* The table exec() builds for one process changes.
LEMMA NewChanges ==
    ASSUME NEW c, NEW n, NEW k, NEW m, NEW p \in Proc, Same(m, n, p)
    PROVE  Differs(HasOf(c, m, k), HasOf(c, n, k), NewOf(p))
BY DEF Differs, HasOf, HasIn, Table, NewOf, Same

\* The kernel stack of one process changes.
LEMMA StackChanges ==
    ASSUME NEW c, NEW n, NEW k, NEW l, NEW p \in Proc, Same(l, k, p)
    PROVE  Differs(HasOf(c, n, l), HasOf(c, n, k), StackOf(p))
BY DEF Differs, HasOf, HasIn, Table, StackOf, Same

\* The page table of p takes pages from the free list.
LEMMA CurTakes ==
    ASSUME NEW c, NEW n, NEW k, NEW F, Account(HasOf(c, n, k), F),
           NEW d, NEW p \in Proc, Same(d, c, p),
           NEW S \in SUBSET F, Owned(d[p]) = Owned(c[p]) \cup S
    PROVE  Account(HasOf(d, n, k), F \ S)
<1>1. Differs(HasOf(d, n, k), HasOf(c, n, k), CurOf(p))
  BY Zenon, CurChanges
<1>2. HasOf(d, n, k)[CurOf(p)] = Owned(d[p]) /\ HasOf(c, n, k)[CurOf(p)] = Owned(c[p]) /\ CurOf(p) \in Table
  BY HasAt
<1>3. QED
  BY Zenon, <1>1, <1>2, Give

\* The page table of p gives pages back.
LEMMA CurGives ==
    ASSUME NEW c, NEW n, NEW k, NEW F, Account(HasOf(c, n, k), F),
           NEW d, NEW p \in Proc, Same(d, c, p),
           NEW S \in SUBSET Owned(c[p]), Owned(d[p]) = Owned(c[p]) \ S
    PROVE  Account(HasOf(d, n, k), F \cup S)
<1>1. Differs(HasOf(d, n, k), HasOf(c, n, k), CurOf(p))
  BY Zenon, CurChanges
<1>2. HasOf(d, n, k)[CurOf(p)] = Owned(d[p]) /\ HasOf(c, n, k)[CurOf(p)] = Owned(c[p]) /\ CurOf(p) \in Table
  BY HasAt
<1>3. QED
  BY Zenon, <1>1, <1>2, TakeBack

\* The table exec() builds for p takes pages from the free list.
LEMMA NewTakes ==
    ASSUME NEW c, NEW n, NEW k, NEW F, Account(HasOf(c, n, k), F),
           NEW m, NEW p \in Proc, Same(m, n, p),
           NEW S \in SUBSET F, Owned(m[p]) = Owned(n[p]) \cup S
    PROVE  Account(HasOf(c, m, k), F \ S)
<1>1. Differs(HasOf(c, m, k), HasOf(c, n, k), NewOf(p))
  BY Zenon, NewChanges
<1>2. HasOf(c, m, k)[NewOf(p)] = Owned(m[p]) /\ HasOf(c, n, k)[NewOf(p)] = Owned(n[p]) /\ NewOf(p) \in Table
  BY HasAt
<1>3. QED
  BY Zenon, <1>1, <1>2, Give

\* The table exec() builds for p gives pages back.
LEMMA NewGives ==
    ASSUME NEW c, NEW n, NEW k, NEW F, Account(HasOf(c, n, k), F),
           NEW m, NEW p \in Proc, Same(m, n, p), Owned(m[p]) = {}
    PROVE  Account(HasOf(c, m, k), F \cup Owned(n[p]))
<1>1. Owned(m[p]) = Owned(n[p]) \ Owned(n[p])
  OBVIOUS
<1>2. Differs(HasOf(c, m, k), HasOf(c, n, k), NewOf(p))
  BY Zenon, NewChanges
<1>3. HasOf(c, m, k)[NewOf(p)] = Owned(m[p]) /\ HasOf(c, n, k)[NewOf(p)] = Owned(n[p]) /\ NewOf(p) \in Table
  BY HasAt
<1>4. QED
  BY Zenon, <1>1, <1>2, <1>3, TakeBack

\* allocproc(): p takes a kernel stack from the free list.
LEMMA StackTakes ==
    ASSUME NEW c, NEW n, NEW k, NEW F, Account(HasOf(c, n, k), F),
           NEW l, NEW p \in Proc, Same(l, k, p), k[p] = None, l[p] \in F
    PROVE  Account(HasOf(c, n, l), F \ {l[p]})
<1>1. {l[p]} \ {None} = ({k[p]} \ {None}) \cup {l[p]}
  BY Zenon, Consts DEF Account
<1>2. Differs(HasOf(c, n, l), HasOf(c, n, k), StackOf(p))
  BY Zenon, StackChanges
<1>3. HasOf(c, n, l)[StackOf(p)] = {l[p]} \ {None} /\ HasOf(c, n, k)[StackOf(p)] = {k[p]} \ {None} /\ StackOf(p) \in Table
  BY HasAt
<1>4. QED
  BY Zenon, <1>1, <1>2, <1>3, Give

\* The kernel stack of p is given back.
LEMMA StackGives ==
    ASSUME NEW c, NEW n, NEW k, NEW F, Account(HasOf(c, n, k), F),
           NEW l, NEW p \in Proc, Same(l, k, p), l[p] = None, k[p] # None
    PROVE  Account(HasOf(c, n, l), F \cup {k[p]})
<1>1. {l[p]} \ {None} = ({k[p]} \ {None}) \ {k[p]}
  OBVIOUS
<1>2. Differs(HasOf(c, n, l), HasOf(c, n, k), StackOf(p))
  BY Zenon, StackChanges
<1>3. HasOf(c, n, l)[StackOf(p)] = {l[p]} \ {None} /\ HasOf(c, n, k)[StackOf(p)] = {k[p]} \ {None} /\ StackOf(p) \in Table
  BY HasAt
<1>4. QED
  BY Zenon, <1>1, <1>2, <1>3, TakeBack

\* exec(): the new image becomes the image.
LEMMA Switches ==
    ASSUME NEW c, NEW n, NEW k, NEW F, Account(HasOf(c, n, k), F),
           NEW d, NEW m, NEW p \in Proc, Same(d, c, p), Same(m, n, p),
           Owned(d[p]) = Owned(n[p]), Owned(m[p]) = {}
    PROVE  Account(HasOf(d, m, k), F \cup Owned(c[p]))
<1>1. \A x \in Table \ {CurOf(p), NewOf(p)} : HasOf(d, m, k)[x] = HasOf(c, n, k)[x]
  BY CurChanges, NewChanges DEF Differs
<1>2. /\ CurOf(p) \in Table /\ NewOf(p) \in Table /\ CurOf(p) # NewOf(p)
      /\ HasOf(d, m, k)[CurOf(p)] = Owned(n[p]) /\ HasOf(d, m, k)[NewOf(p)] = {}
      /\ HasOf(c, n, k)[CurOf(p)] = Owned(c[p]) /\ HasOf(c, n, k)[NewOf(p)] = Owned(n[p])
  BY HasAt
<1>3. QED
  BY Zenon, <1>1, <1>2, Move

----------------------------------------------------------------------------
(* Page tables.                                                            *)

\* The pages of a table: directory, page table page, mapped pages.
LEMMA OwnedIs ==
    ASSUME NEW t
    PROVE  \A f : f \in Owned(t) <=>
                  f # None /\ (f = t.root \/ f = t.tab \/ \E i \in Page : f = t.pte[i])
BY Zenon DEF Owned, Pages

\* OneToOne, pair by pair.
LEMMA OneToOneIs ==
    ASSUME NEW t
    PROVE  OneToOne(t) <=>
            /\ \A i, j \in Page : t.pte[i] # None /\ t.pte[i] = t.pte[j] => i = j
            /\ t.root # None => t.root # t.tab
            /\ \A i \in Page : t.pte[i] # None => t.pte[i] # t.root /\ t.pte[i] # t.tab
BY Zenon DEF OneToOne, Pages

\* A slot without memory owns nothing.
LEMMA EmptyDir ==
    /\ NoDir \in Dir /\ OneToOne(NoDir) /\ Owned(NoDir) = {}
    /\ \A i \in Page : NoDir.pte[i] = None
<1>1. /\ NoDir \in Dir /\ NoDir.root = None /\ NoDir.tab = None
      /\ \A i \in Page : NoDir.pte[i] = None
  BY Zenon DEF NoDir, Dir
<1>2. QED
  BY Zenon, <1>1, OwnedIs, OneToOneIs

\* setupkvm().
LEMMA RootOnly ==
    ASSUME NEW f \in Frame
    PROVE  LET u == [NoDir EXCEPT !.root = f] IN
           /\ u \in Dir /\ OneToOne(u) /\ Owned(u) = {f}
           /\ \A i \in Page : u.pte[i] = None
<1> DEFINE u == [NoDir EXCEPT !.root = f]
<1>1. /\ u \in Dir /\ u.root = f /\ u.tab = None
      /\ \A i \in Page : u.pte[i] = None
  BY Zenon DEF NoDir, Dir
<1> HIDE DEF u
<1>2. OneToOne(u) /\ Owned(u) = {f}
  BY <1>1, OwnedIs, OneToOneIs, Consts
<1>3. QED
  BY Zenon, <1>1, <1>2 DEF u

\* clearpteu() does not change which pages there are.
LEMMA Cleared ==
    ASSUME NEW t \in Dir, OneToOne(t), NEW i \in Page
    PROVE  LET u == Clearpteu(t, i) IN
           u \in Dir /\ OneToOne(u) /\ Owned(u) = Owned(t) /\ u.pte = t.pte
<1> DEFINE u == Clearpteu(t, i)
<1>1. u \in Dir /\ u.root = t.root /\ u.tab = t.tab /\ u.pte = t.pte
  BY Zenon DEF Dir, Clearpteu
<1> HIDE DEF u
<1>2. OneToOne(u) /\ Owned(u) = Owned(t)
  BY <1>1 DEF OneToOne, Owned, Pages
<1>3. QED
  BY Zenon, <1>1, <1>2 DEF u

\* What kalloc() returns.
LEMMA KallocIs ==
    ASSUME NEW t, Room(t)
    PROVE  /\ Kalloc \in free /\ Kalloc \in Taken(t) /\ Taken(t) \subseteq free
           /\ t.tab = None => Kalloc2 \in free /\ Kalloc2 # Kalloc
           /\ \A f : f \in Taken(t) <=> f = Kalloc \/ (t.tab = None /\ f = Kalloc2)
<1>1. Kalloc \in free
  BY Zenon DEF Kalloc, Room
<1>2. t.tab = None => Kalloc2 \in free \ {Kalloc}
  BY Zenon, <1>1 DEF Kalloc2, Room
<1>3. QED
  BY Zenon, <1>1, <1>2 DEF Taken

\* mappages() of a new page.
LEMMA Maps ==
    ASSUME free \in SUBSET Frame, NEW t \in Dir, OneToOne(t), Owned(t) \cap free = {},
           Room(t), NEW i \in Page, t.pte[i] = None, NEW flags
    PROVE  LET u == Mapped(t, i, flags) IN
           /\ u \in Dir /\ OneToOne(u) /\ Owned(u) = Owned(t) \cup Taken(t)
           /\ u.pte[i] = Kalloc /\ \A j \in Page \ {i} : u.pte[j] = t.pte[j]
<1> DEFINE u == Mapped(t, i, flags)
<1>1. /\ Kalloc \in Frame /\ Kalloc \notin Owned(t) /\ Kalloc # None
      /\ t.tab = None => Kalloc2 \in Frame /\ Kalloc2 \notin Owned(t)
                         /\ Kalloc2 # None /\ Kalloc2 # Kalloc
      /\ \A f : f \in Taken(t) <=> f = Kalloc \/ (t.tab = None /\ f = Kalloc2)
  BY Zenon, KallocIs, Consts
<1>2. /\ u \in Dir /\ u.root = t.root
      /\ u.tab = IF t.tab = None THEN Kalloc2 ELSE t.tab
      /\ u.pte[i] = Kalloc /\ \A j \in Page \ {i} : u.pte[j] = t.pte[j]
  BY Zenon, <1>1 DEF Mapped, Dir
<1> HIDE DEF u
<1>3. Owned(u) = Owned(t) \cup Taken(t)
  BY <1>1, <1>2, OwnedIs
<1>4. OneToOne(u)
  BY <1>1, <1>2, OwnedIs, OneToOneIs
<1>5. QED
  BY Zenon, <1>2, <1>3, <1>4 DEF u

\* deallocuvm().
LEMMA Unmaps ==
    ASSUME NEW t \in Dir, OneToOne(t), NEW S \in SUBSET Page
    PROVE  LET u == Dealloc(t, S)
               F == {t.pte[j] : j \in S} \ {None}
           IN  /\ u \in Dir /\ OneToOne(u) /\ Owned(u) = Owned(t) \ F
               /\ F \in SUBSET Owned(t)
               /\ \A j \in Page : u.pte[j] = IF j \in S THEN None ELSE t.pte[j]
<1> DEFINE u == Dealloc(t, S)
           F == {t.pte[j] : j \in S} \ {None}
<1>1. /\ u \in Dir /\ u.root = t.root /\ u.tab = t.tab
      /\ \A j \in Page : u.pte[j] = IF j \in S THEN None ELSE t.pte[j]
  BY Zenon DEF Dealloc, Dir
<1>2. \A f : f \in F <=> f # None /\ \E j \in S : f = t.pte[j]
  OBVIOUS
<1> HIDE DEF u, F
<1>3. Owned(u) = Owned(t) \ F
  BY <1>1, <1>2, OwnedIs, OneToOneIs
<1>4. OneToOne(u) /\ F \in SUBSET Owned(t)
  BY <1>1, <1>2, OwnedIs, OneToOneIs
<1>5. QED
  BY Zenon, <1>1, <1>3, <1>4 DEF u, F

----------------------------------------------------------------------------
(* A step of some processes does not disturb the others.                   *)

\* Pages belong to one process, and not to the free list.
LEMMA Apart ==
    ASSUME Account(Has, free), NEW p \in Proc
    PROVE  /\ free \in SUBSET Frame
           /\ Owned(cur[p]) \in SUBSET Frame /\ Owned(new[p]) \in SUBSET Frame
           /\ Owned(cur[p]) \cap free = {} /\ Owned(new[p]) \cap free = {}
           /\ Owned(cur[p]) \cap Owned(new[p]) = {}
           /\ kstack[p] # None =>
                /\ kstack[p] \in Frame \ free
                /\ kstack[p] \notin Owned(cur[p]) \cup Owned(new[p])
<1>1. /\ CurOf(p) \in Table /\ NewOf(p) \in Table /\ StackOf(p) \in Table
      /\ CurOf(p) # NewOf(p) /\ CurOf(p) # StackOf(p) /\ NewOf(p) # StackOf(p)
  BY Zenon DEF CurOf, NewOf, StackOf, Table
<1>2. /\ Has[CurOf(p)] = Owned(cur[p]) /\ Has[NewOf(p)] = Owned(new[p])
      /\ Has[StackOf(p)] = {kstack[p]} \ {None}
  BY HasAt DEF Has
<1>3. QED
  BY <1>1, <1>2 DEF Account

\* Two processes share no page.
LEMMA ApartOthers ==
    ASSUME Account(Has, free), NEW p \in Proc, NEW r \in Proc, p # r
    PROVE  /\ Owned(cur[p]) \cap Owned(cur[r]) = {}
           /\ Owned(cur[p]) \cap Owned(new[r]) = {}
           /\ Owned(new[p]) \cap Owned(cur[r]) = {}
           /\ Owned(new[p]) \cap Owned(new[r]) = {}
           /\ kstack[p] # None => kstack[p] \notin Owned(cur[r]) \cup Owned(new[r])
                                  /\ kstack[p] # kstack[r]
<1>1. /\ CurOf(p) \in Table /\ NewOf(p) \in Table /\ StackOf(p) \in Table
      /\ CurOf(r) \in Table /\ NewOf(r) \in Table /\ StackOf(r) \in Table
      /\ CurOf(p) \notin {CurOf(r), NewOf(r), StackOf(r)}
      /\ NewOf(p) \notin {CurOf(r), NewOf(r), StackOf(r)}
      /\ StackOf(p) \notin {CurOf(r), NewOf(r), StackOf(r)}
  BY Zenon DEF CurOf, NewOf, StackOf, Table
<1>2. /\ Has[CurOf(p)] = Owned(cur[p]) /\ Has[NewOf(p)] = Owned(new[p])
      /\ Has[StackOf(p)] = {kstack[p]} \ {None}
      /\ Has[CurOf(r)] = Owned(cur[r]) /\ Has[NewOf(r)] = Owned(new[r])
      /\ Has[StackOf(r)] = {kstack[r]} \ {None}
  BY HasAt DEF Has
<1>3. QED
  BY <1>1, <1>2 DEF Account

\* What a step of the processes P leaves to the others.
Leaves(P) ==
    \A r \in Proc \ P :
        /\ cur'[r] = cur[r] /\ new'[r] = new[r] /\ kstack'[r] = kstack[r]
        /\ sz'[r] = sz[r] /\ pc'[r] = pc[r] /\ page'[r] = page[r]
        /\ np'[r] = np[r] /\ img'[r] = img[r] /\ addr'[r] = addr[r]
        /\ \A f \in Owned(cur[r]) \cup Owned(new[r]) : data'[f] = data[f]

\* A step of the processes in P keeps the invariant of the others.
LEMMA Others ==
    ASSUME VmInv, NEW P \in SUBSET Proc, Leaves(P), \A r \in Proc \ P : np[r] \notin P,
           NEW r \in Proc \ P
    PROVE  OneToOne(cur[r])' /\ OneToOne(new[r])' /\ Local(r)'
<1>1. /\ r \in Proc /\ OneToOne(cur[r]) /\ OneToOne(new[r])
      /\ Stage(r) /\ Sized(r) /\ Copied(r) /\ Loaded(r)
  BY Zenon DEF VmInv, Local
<1>2. /\ cur'[r] = cur[r] /\ new'[r] = new[r] /\ kstack'[r] = kstack[r]
      /\ sz'[r] = sz[r] /\ pc'[r] = pc[r] /\ page'[r] = page[r]
      /\ np'[r] = np[r] /\ img'[r] = img[r] /\ addr'[r] = addr[r]
      /\ \A f \in Owned(cur[r]) \cup Owned(new[r]) : data'[f] = data[f]
  BY Zenon DEF Leaves
<1>3. /\ \A i \in Page : cur[r].pte[i] # None => data'[cur[r].pte[i]] = data[cur[r].pte[i]]
      /\ \A i \in Page : new[r].pte[i] # None => data'[new[r].pte[i]] = data[new[r].pte[i]]
  BY Zenon, <1>2, OwnedIs
<1>4. OneToOne(cur[r])' /\ OneToOne(new[r])'
  BY <1>1, <1>2 DEF OneToOne, Pages
<1>5. Stage(r)'
  BY Zenon, <1>1, <1>2 DEF Stage
<1>6. Sized(r)'
  BY <1>1, <1>2, <1>3 DEF Sized, Alive
<1>7. Loaded(r)'
  BY <1>1, <1>2, <1>3 DEF Loaded, Guard, PGROUNDUP
<1>8. Copied(r)'
  <2>1. CASE pc[r] \notin Forks
    BY Zenon, <1>2, <2>1 DEF Copied
  <2>2. CASE pc[r] \in Forks
    <3>1. np[r] \in Proc \ P
      BY Zenon, <1>1, <2>2 DEF Stage, VmInv, VmTypeOK
    <3>2. /\ cur'[np[r]] = cur[np[r]] /\ pc'[np[r]] = pc[np[r]]
          /\ \A f \in Owned(cur[np[r]]) : data'[f] = data[f]
      BY <3>1 DEF Leaves
    <3>3. \A i \in Page : cur[np[r]].pte[i] # None
                          => data'[cur[np[r]].pte[i]] = data[cur[np[r]].pte[i]]
      BY Zenon, <3>2, OwnedIs
    <3>4. /\ Copied(r) /\ cur'[r] = cur[r] /\ pc'[r] = pc[r] /\ page'[r] = page[r]
          /\ np'[r] = np[r]
      BY <1>1, <1>2, Zenon
    <3>5. QED
      BY <1>3, <3>2, <3>3, <3>4 DEF Copied
  <2>3. QED
    BY Zenon, <2>1, <2>2
<1>9. QED
  BY <1>4, <1>5, <1>6, <1>7, <1>8 DEF Local

\* A step of the processes in P is not seen by the others.
LEMMA OthersBlind ==
    ASSUME NEW P \in SUBSET Proc, Leaves(P), NEW r \in Proc \ P
    PROVE  Blind(r)
<1>1. /\ cur'[r] = cur[r] /\ sz'[r] = sz[r] /\ pc'[r] = pc[r]
      /\ \A f \in Owned(cur[r]) : data'[f] = data[f]
  BY DEF Leaves
<1>2. \A i \in Page : cur[r].pte[i] # None => data'[cur[r].pte[i]] = data[cur[r].pte[i]]
  BY Zenon, <1>1, OwnedIs
<1>3. (r \in Alive)' <=> r \in Alive
  BY Zenon, <1>1 DEF Alive
<1>4. QED
  BY Zenon, <1>1, <1>2, <1>3 DEF Blind, Length, Content

\* Nobody sees a difference.
LEMMA AllBlind ==
    ASSUME \A r \in Proc : Blind(r)
    PROVE  SpaceStep
<1>1. Alive' = Alive
  BY Zenon DEF Blind, Alive
<1>2. Size' = Size
  BY Zenon DEF Blind, Size
<1>3. Mem' = Mem
  BY Zenon DEF Blind, Mem
<1>4. QED
  BY Zenon, <1>1, <1>2, <1>3 DEF SpaceStep

\* A step that only p sees is a step of AddressSpaces.
LEMMA OneSees ==
    ASSUME NEW p \in Proc, \A r \in Proc \ {p} : Blind(r), Shows(p)
    PROVE  SpaceStep
<1>1. CASE Blind(p)
  BY Zenon, <1>1, AllBlind
<1>2. /\ Size' = [Size EXCEPT ![p] = Length(p)']
      /\ Mem' = [Mem EXCEPT ![p] = [i \in Page |-> Content(p, i)']]
  <2>1. Size' = [Size EXCEPT ![p] = Length(p)']
    BY Zenon DEF Blind, Size
  <2>2. Mem' = [Mem EXCEPT ![p] = [i \in Page |-> Content(p, i)']]
    BY Zenon DEF Blind, Mem
  <2>3. QED
    BY Zenon, <2>1, <2>2
<1>3. /\ Size[p] = Length(p) /\ Mem[p] = [i \in Page |-> Content(p, i)]
      /\ Size \in [Proc -> {Size[r] : r \in Proc}]
      /\ Mem \in [Proc -> {Mem[r] : r \in Proc}]
  BY Zenon DEF Size, Mem
<1>4. CASE p \in Alive /\ (p \in Alive)'
  <2>1. Alive' = Alive
    BY Zenon, <1>4 DEF Blind, Alive
  <2>2. CASE /\ Length(p)' = Length(p)
             /\ \E k \in Page :
                 /\ k * PGSIZE < Length(p)
                 /\ \A i \in Page : Content(p, i)' = IF i = k THEN 1 ELSE Content(p, i)
    <3>1. PICK k \in Page : /\ k * PGSIZE < Length(p)
                            /\ \A i \in Page : Content(p, i)' = IF i = k THEN 1 ELSE Content(p, i)
      BY Zenon, <2>2
    <3>2. [i \in Page |-> Content(p, i)'] = [Mem[p] EXCEPT ![k] = 1]
      BY Zenon, <1>3, <3>1
    <3>3. Mem' = [Mem EXCEPT ![p][k] = 1]
      BY <1>2, <3>2, Zenon
    <3>4. Size' = Size
      BY Zenon, <1>2, <1>3, <2>2
    <3>5. k \in Spaces!PagesBelow(Size[p])
      BY Zenon, <1>3, <3>1 DEF Spaces!PagesBelow
    <3>6. Spaces!Store(p, k)
      BY Zenon, <1>4, <2>1, <3>3, <3>4, <3>5 DEF Spaces!Store, Size, Mem, Length, Content
    <3>7. QED
      BY Zenon, <3>6 DEF SpaceStep, Spaces!Next
  <2>3. CASE \E n \in 0..KERNBASE :
              /\ Length(p)' = n
              /\ \A i \in Page :
                  Content(p, i)' = IF i * PGSIZE < n THEN Content(p, i) ELSE 0
    <3>1. PICK n \in 0..KERNBASE :
              /\ Length(p)' = n
              /\ \A i \in Page :
                  Content(p, i)' = IF i * PGSIZE < n THEN Content(p, i) ELSE 0
      BY Zenon, <2>3
    <3>2. [i \in Page |-> Content(p, i)'] =
          [i \in Page |-> IF i \in Spaces!PagesBelow(n) THEN Mem[p][i] ELSE 0]
      BY Zenon, <1>3, <3>1 DEF Spaces!PagesBelow
    <3>3. Mem' = [Mem EXCEPT ![p] =
                   [i \in Page |-> IF i \in Spaces!PagesBelow(n) THEN Mem[p][i] ELSE 0]]
      BY <1>2, <3>2, Zenon
    <3>4. Size' = [Size EXCEPT ![p] = n]
      BY Zenon, <1>2, <3>1
    <3>5. Spaces!Resize(p, n)
      BY Zenon, <1>4, <2>1, <3>3, <3>4 DEF Spaces!Resize, Size, Mem, Length, Content
    <3>6. QED
      BY Zenon, <3>5 DEF SpaceStep, Spaces!Next
  <2>4. CASE Length(p)' = Length(p) /\ \A i \in Page : Content(p, i)' = 0
    <3>1. Mem' = [Mem EXCEPT ![p] = Spaces!Zero]
      BY <1>2, <2>4, Zenon DEF Spaces!Zero
    <3>2. Size' = Size
      BY Zenon, <1>2, <1>3, <2>4
    <3>3. Spaces!Clear(p)
      BY Zenon, <1>4, <2>1, <3>1, <3>2 DEF Spaces!Clear, Size, Mem, Length, Content
    <3>4. QED
      BY Zenon, <3>3 DEF SpaceStep, Spaces!Next
  <2>5. CASE \E m \in Image :
              /\ Length(p)' = (Guard(m) + 2) * PGSIZE
              /\ \A i \in Page :
                  Content(p, i)' = IF i < m.pages \/ i = Guard(m) + 1 THEN 1 ELSE 0
    <3>1. PICK m \in Image :
              /\ Length(p)' = (Guard(m) + 2) * PGSIZE
              /\ \A i \in Page :
                  Content(p, i)' = IF i < m.pages \/ i = Guard(m) + 1 THEN 1 ELSE 0
      BY Zenon, <2>5
    <3> DEFINE top == (m.memsz + PGSIZE - 1) \div PGSIZE + 1
    <3>2. top = Guard(m) + 1 /\ top + 1 = Guard(m) + 2
      <4>1. Guard(m) \in Nat
        BY Zenon, Images
      <4>2. QED
        BY <4>1 DEF Guard, PGROUNDUP
    <3> HIDE DEF top
    <3>3. Size' = [Size EXCEPT ![p] = (top + 1) * PGSIZE]
      BY <1>2, <3>1, <3>2, Zenon
    <3>4. [i \in Page |-> Content(p, i)'] =
          [i \in Page |-> IF i < m.pages \/ i = top THEN 1 ELSE 0]
      BY Zenon, <3>1, <3>2
    <3>5. Mem' = [Mem EXCEPT ![p] = [i \in Page |-> IF i < m.pages \/ i = top THEN 1 ELSE 0]]
      BY <1>2, <3>4, Zenon
    <3>6. Spaces!Exec(p, m)
      BY Zenon, <1>4, <2>1, <3>3, <3>5 DEF Spaces!Exec, Size, Mem, Length, Content, top
    <3>7. QED
      BY Zenon, <3>6 DEF SpaceStep, Spaces!Next
  <2>6. QED
    BY Zenon, <1>1, <1>4, <2>2, <2>3, <2>4, <2>5 DEF Shows
<1>5. CASE /\ p \in Alive /\ ~(p \in Alive)'
           /\ Length(p)' = 0 /\ \A i \in Page : Content(p, i)' = 0
  <2>1. Alive' = Alive \ {p}
    BY Zenon, <1>5 DEF Blind, Alive
  <2>2. Mem' = [Mem EXCEPT ![p] = Spaces!Zero]
    BY <1>2, <1>5, Zenon DEF Spaces!Zero
  <2>3. Size' = [Size EXCEPT ![p] = 0]
    BY Zenon, <1>2, <1>5
  <2>4. Spaces!Exit(p)
    BY Zenon, <1>5, <2>1, <2>2, <2>3 DEF Spaces!Exit, Size, Mem, Length, Content
  <2>5. QED
    BY Zenon, <2>4 DEF SpaceStep, Spaces!Next
<1>6. QED
  BY Zenon, <1>1, <1>4, <1>5 DEF Shows

\* A step that gives q the memory of p is a step of AddressSpaces.
LEMMA OneCopies ==
    ASSUME NEW p \in Proc, NEW q \in Proc, \A r \in Proc \ {q} : Blind(r), Copies(p, q)
    PROVE  SpaceStep
<1>1. Alive' = Alive \cup {q}
  BY Zenon DEF Blind, Alive, Copies
<1>2. Size' = [Size EXCEPT ![q] = Size[p]]
  BY Zenon DEF Blind, Size, Copies
<1>3. [i \in Page |-> Content(q, i)'] = Mem[p]
  BY Zenon DEF Mem, Copies
<1>4. Mem' = [Mem EXCEPT ![q] = Mem[p]]
  <2>1. Mem' = [Mem EXCEPT ![q] = [i \in Page |-> Content(q, i)']]
    BY Zenon DEF Blind, Mem
  <2>2. QED
    BY <1>3, <2>1, Zenon
<1>5. Spaces!Fork(p, q)
  BY Zenon, <1>1, <1>2, <1>4 DEF Spaces!Fork, Copies, Size, Mem, Length, Content
<1>6. QED
  BY Zenon, <1>5 DEF SpaceStep, Spaces!Next
\* Who keeps table, size and pages sees no difference.
LEMMA Unseen ==
    ASSUME NEW p \in Proc, cur'[p] = cur[p], sz'[p] = sz[p], (p \in Alive)' <=> p \in Alive,
           \A f \in Owned(cur[p]) : data'[f] = data[f]
    PROVE  Blind(p)
<1>1. \A i \in Page : cur[p].pte[i] # None => data'[cur[p].pte[i]] = data[cur[p].pte[i]]
  BY Zenon, OwnedIs
<1>2. QED
  BY Zenon, <1>1 DEF Blind, Length, Content

\* A slot without a process sees no difference.
LEMMA Absent ==
    ASSUME NEW p \in Proc, p \notin Alive, ~(p \in Alive)'
    PROVE  Blind(p)
BY Zenon DEF Blind, Length, Content

\* A step of p alone.
LEMMA Alone ==
    ASSUME VmInv, NEW p \in Proc, pc[p] # "embryo", Leaves({p}), VmTypeOK',
           Account(Has, free)', np'[p] = np[p] \/ np'[p] = None,
           OneToOne(cur[p])', OneToOne(new[p])', Local(p)', Shows(p)
    PROVE  Kept
<1>1. \A r \in Proc \ {p} : np[r] \notin {p}
  <2>1. \A r \in Proc : np[r] # None => pc[np[r]] = "embryo"
    BY Zenon DEF VmInv, Local, Copied, Stage
  <2>2. QED
    BY Zenon, <2>1, Consts
<1>2. \A r \in Proc : OneToOne(cur[r])' /\ OneToOne(new[r])' /\ Local(r)'
  BY Zenon, <1>1, Others
<1>3. \A q, r \in Proc : np'[q] = np'[r] /\ np'[q] # None => q = r
  <2>1. \A r \in Proc \ {p} : np'[r] = np[r]
    BY Zenon DEF Leaves
  <2>2. QED
    BY <2>1 DEF VmInv
<1>4. VmInv'
  BY Zenon, <1>2, <1>3 DEF VmInv
<1>5. SpaceStep
  <2>1. \A r \in Proc \ {p} : Blind(r)
    BY Zenon, OthersBlind
  <2>2. QED
    BY Zenon, <2>1, OneSees
<1>6. QED
  BY Zenon, <1>4, <1>5 DEF Kept

\* A step of p with the child of its fork().
LEMMA Together ==
    ASSUME VmInv, NEW p \in Proc, NEW q \in Proc, q # p,
           pc[p] # "embryo", pc[q] # "embryo" \/ np[p] = q,
           Leaves({p, q}), VmTypeOK', Account(Has, free)',
           (np'[p] = q /\ pc[q] # "embryo") \/ np'[p] = np[p] \/ np'[p] = None, np'[q] = None,
           OneToOne(cur[p])', OneToOne(new[p])', Local(p)',
           OneToOne(cur[q])', OneToOne(new[q])', Local(q)',
           Blind(p), Blind(q) \/ Copies(p, q)
    PROVE  Kept
<1>1. \A r \in Proc \ {p} : np[r] # p /\ np[r] # q
  <2>1. \A r \in Proc : np[r] # None => pc[np[r]] = "embryo"
    BY Zenon DEF VmInv, Local, Copied, Stage
  <2>2. \A r \in Proc \ {p} : np[r] # None => np[r] # np[p]
    BY Zenon DEF VmInv
  <2>3. QED
    BY Zenon, <2>1, <2>2, Consts
<1>2. \A r \in Proc : OneToOne(cur[r])' /\ OneToOne(new[r])' /\ Local(r)'
  BY <1>1, Others
<1>3. \A x, y \in Proc : np'[x] = np'[y] /\ np'[x] # None => x = y
  <2>1. \A r \in Proc \ {p, q} : np'[r] = np[r]
    BY Zenon DEF Leaves
  <2>2. QED
    BY <1>1, <2>1 DEF VmInv
<1>4. VmInv'
  BY Zenon, <1>2, <1>3 DEF VmInv
<1>5. SpaceStep
  <2>1. \A r \in Proc \ {p, q} : Blind(r)
    BY Zenon, OthersBlind
  <2>2. QED
    BY Zenon, <2>1, AllBlind, OneCopies
<1>6. QED
  BY Zenon, <1>4, <1>5 DEF Kept

----------------------------------------------------------------------------
(* What the steps do to page tables and pages.                             *)

\* The invariant at one process.
LEMMA AtProc ==
    ASSUME VmInv, NEW p \in Proc
    PROVE  /\ cur[p] \in Dir /\ new[p] \in Dir /\ OneToOne(cur[p]) /\ OneToOne(new[p])
           /\ sz[p] \in 0..(KERNBASE - 1) /\ addr[p] \in 0..(KERNBASE - 1) /\ page[p] \in Nat
           /\ Stage(p) /\ Sized(p) /\ Copied(p) /\ Loaded(p) /\ Account(Has, free)
BY Zenon DEF VmInv, VmTypeOK, Local

\* The pages of a process are in use.
LEMMA InUse ==
    ASSUME VmInv, NEW p \in Proc, NEW i \in Page
    PROVE  /\ cur[p].pte[i] # None =>
                /\ cur[p].pte[i] \in Owned(cur[p]) /\ cur[p].pte[i] \in Frame \ free
                /\ data[cur[p].pte[i]] \in Data
           /\ new[p].pte[i] # None =>
                new[p].pte[i] \in Owned(new[p]) /\ new[p].pte[i] \in Frame \ free
<1>1. /\ cur[p].pte[i] # None => cur[p].pte[i] \in Owned(cur[p])
      /\ new[p].pte[i] # None => new[p].pte[i] \in Owned(new[p])
  BY Zenon, OwnedIs
<1>2. \A f \in Owned(cur[p]) \cup Owned(new[p]) : f \in Frame \ free
  BY Zenon, Apart DEF VmInv
<1>3. \A f \in Frame : data[f] \in Data
  BY Zenon DEF VmInv, VmTypeOK
<1>4. QED
  BY Zenon, <1>1, <1>2, <1>3

\* A page for cur[p], for new[p]; pages of cur[p] go back to the free list.
MapsCur(p, i, flags, v) ==
    cur' = [cur EXCEPT ![p] = Mapped(cur[p], i, flags)] /\ Take(cur[p], v)
MapsNew(p, i, flags, v) ==
    new' = [new EXCEPT ![p] = Mapped(new[p], i, flags)] /\ Take(new[p], v)
UnmapsCur(p, S) ==
    /\ cur' = [cur EXCEPT ![p] = Dealloc(cur[p], S)]
    /\ Kfree({cur[p].pte[i] : i \in S} \ {None})

\* mappages() of a new page in the page table of p.
LEMMA MappingCur ==
    ASSUME VmInv, NEW p \in Proc, Room(cur[p]), NEW i \in Page, cur[p].pte[i] = None,
           NEW flags, NEW v \in Data, MapsCur(p, i, flags, v), new' = new, kstack' = kstack
    PROVE  /\ cur' \in [Proc -> Dir] /\ data' \in [Frame -> Data] /\ Account(Has, free)'
           /\ \A r \in Proc \ {p} : cur'[r] = cur[r]
           /\ OneToOne(cur[p])' /\ cur'[p].pte[i] = Kalloc /\ Kalloc \in free
           /\ \A j \in Page \ {i} : cur'[p].pte[j] = cur[p].pte[j]
           /\ data'[Kalloc] = v /\ \A f \in Frame \ free : data'[f] = data[f]
<1> DEFINE u == Mapped(cur[p], i, flags)
<1>1. /\ cur \in [Proc -> Dir] /\ data \in [Frame -> Data] /\ cur[p] \in Dir
      /\ OneToOne(cur[p]) /\ free \in SUBSET Frame /\ Owned(cur[p]) \cap free = {}
      /\ Kalloc \in free /\ Taken(cur[p]) \in SUBSET free
  BY Zenon, AtProc, Apart, KallocIs DEF VmInv, VmTypeOK
<1>2. /\ u \in Dir /\ OneToOne(u) /\ Owned(u) = Owned(cur[p]) \cup Taken(cur[p])
      /\ u.pte[i] = Kalloc /\ \A j \in Page \ {i} : u.pte[j] = cur[p].pte[j]
  BY <1>1, Maps
<1> HIDE DEF u
<1>3. cur' \in [Proc -> Dir] /\ cur'[p] = u /\ \A r \in Proc \ {p} : cur'[r] = cur[r]
  BY Zenon, <1>1, <1>2 DEF MapsCur, u
<1>4. /\ data' \in [Frame -> Data] /\ data'[Kalloc] = v
      /\ \A f \in Frame \ free : data'[f] = data[f]
  BY Zenon, <1>1 DEF MapsCur, Take
<1>5. Account(Has, free)'
  <2>1. Account(HasOf(cur, new, kstack), free)
    BY Zenon DEF VmInv, Has
  <2>2. Same(cur', cur, p) /\ Owned(cur'[p]) = Owned(cur[p]) \cup Taken(cur[p])
    BY Zenon, <1>2, <1>3 DEF Same
  <2>3. Account(HasOf(cur', new, kstack), free \ Taken(cur[p]))
    BY Zenon, <1>1, <2>1, <2>2, CurTakes
  <2>4. free' = free \ Taken(cur[p])
    BY Zenon DEF MapsCur, Take
  <2>5. QED
    BY Zenon, <2>3, <2>4 DEF Has
<1>6. QED
  BY Zenon, <1>1, <1>2, <1>3, <1>4, <1>5

\* mappages() of a new page in the table exec() builds.
LEMMA MappingNew ==
    ASSUME VmInv, NEW p \in Proc, Room(new[p]), NEW i \in Page, new[p].pte[i] = None,
           NEW flags, NEW v \in Data, MapsNew(p, i, flags, v), cur' = cur, kstack' = kstack
    PROVE  /\ new' \in [Proc -> Dir] /\ data' \in [Frame -> Data] /\ Account(Has, free)'
           /\ \A r \in Proc \ {p} : new'[r] = new[r]
           /\ OneToOne(new[p])' /\ new'[p].pte[i] = Kalloc /\ Kalloc \in free
           /\ \A j \in Page \ {i} : new'[p].pte[j] = new[p].pte[j]
           /\ data'[Kalloc] = v /\ \A f \in Frame \ free : data'[f] = data[f]
<1> DEFINE u == Mapped(new[p], i, flags)
<1>1. /\ new \in [Proc -> Dir] /\ data \in [Frame -> Data] /\ new[p] \in Dir
      /\ OneToOne(new[p]) /\ free \in SUBSET Frame /\ Owned(new[p]) \cap free = {}
      /\ Kalloc \in free /\ Taken(new[p]) \in SUBSET free
  BY Zenon, AtProc, Apart, KallocIs DEF VmInv, VmTypeOK
<1>2. /\ u \in Dir /\ OneToOne(u) /\ Owned(u) = Owned(new[p]) \cup Taken(new[p])
      /\ u.pte[i] = Kalloc /\ \A j \in Page \ {i} : u.pte[j] = new[p].pte[j]
  BY <1>1, Maps
<1> HIDE DEF u
<1>3. new' \in [Proc -> Dir] /\ new'[p] = u /\ \A r \in Proc \ {p} : new'[r] = new[r]
  BY Zenon, <1>1, <1>2 DEF MapsNew, u
<1>4. /\ data' \in [Frame -> Data] /\ data'[Kalloc] = v
      /\ \A f \in Frame \ free : data'[f] = data[f]
  BY Zenon, <1>1 DEF MapsNew, Take
<1>5. Account(Has, free)'
  <2>1. Account(HasOf(cur, new, kstack), free)
    BY Zenon DEF VmInv, Has
  <2>2. Same(new', new, p) /\ Owned(new'[p]) = Owned(new[p]) \cup Taken(new[p])
    BY Zenon, <1>2, <1>3 DEF Same
  <2>3. Account(HasOf(cur, new', kstack), free \ Taken(new[p]))
    BY Zenon, <1>1, <2>1, <2>2, NewTakes
  <2>4. free' = free \ Taken(new[p])
    BY Zenon DEF MapsNew, Take
  <2>5. QED
    BY Zenon, <2>3, <2>4 DEF Has
<1>6. QED
  BY Zenon, <1>1, <1>2, <1>3, <1>4, <1>5

\* deallocuvm() of one page of p.
LEMMA UnmappingCur ==
    ASSUME VmInv, NEW p \in Proc, NEW S \in SUBSET Page, UnmapsCur(p, S),
           new' = new, kstack' = kstack
    PROVE  /\ cur' \in [Proc -> Dir] /\ data' \in [Frame -> Data] /\ Account(Has, free)'
           /\ \A r \in Proc \ {p} : cur'[r] = cur[r]
           /\ OneToOne(cur[p])'
           /\ \A j \in Page : cur'[p].pte[j] = IF j \in S THEN None ELSE cur[p].pte[j]
           /\ \A f \in Frame : f \notin Owned(cur[p]) \/ f \in Owned(cur'[p])
                               => data'[f] = data[f]
<1> DEFINE u == Dealloc(cur[p], S)
           F == {cur[p].pte[j] : j \in S} \ {None}
<1>1. /\ cur \in [Proc -> Dir] /\ data \in [Frame -> Data] /\ cur[p] \in Dir
      /\ OneToOne(cur[p]) /\ Owned(cur[p]) \in SUBSET Frame
  BY Zenon, AtProc, Apart DEF VmInv, VmTypeOK
<1>2. /\ u \in Dir /\ OneToOne(u) /\ Owned(u) = Owned(cur[p]) \ F
      /\ F \in SUBSET Owned(cur[p])
      /\ \A j \in Page : u.pte[j] = IF j \in S THEN None ELSE cur[p].pte[j]
  BY <1>1, Unmaps
<1> HIDE DEF u, F
<1>3. cur' \in [Proc -> Dir] /\ cur'[p] = u /\ \A r \in Proc \ {p} : cur'[r] = cur[r]
  BY Zenon, <1>1, <1>2 DEF UnmapsCur, u
<1>4. free' = free \cup F /\ data' = [f \in Frame |-> IF f \in F THEN Junk ELSE data[f]]
  BY Zenon DEF UnmapsCur, Kfree, F
<1>5. data' \in [Frame -> Data] /\ \A f \in Frame \ F : data'[f] = data[f]
  BY <1>1, <1>4 DEF Data, Junk
<1>6. Account(Has, free)'
  <2>1. Account(HasOf(cur, new, kstack), free)
    BY Zenon DEF VmInv, Has
  <2>2. Same(cur', cur, p) /\ Owned(cur'[p]) = Owned(cur[p]) \ F
    BY Zenon, <1>2, <1>3 DEF Same
  <2>3. Account(HasOf(cur', new, kstack), free \cup F)
    BY Zenon, <1>2, <2>1, <2>2, CurGives
  <2>4. QED
    BY Zenon, <1>4, <2>3 DEF Has
<1>7. QED
  BY Zenon, <1>1, <1>2, <1>3, <1>5, <1>6

\* A step that changes free pages and pages of P leaves the others theirs.
LEMMA Untouched ==
    ASSUME VmInv, NEW P \in SUBSET Proc,
           \A f \in Frame : data'[f] = data[f] \/ f \in free \/ \E q \in P : f \in Mine(q)
    PROVE  \A r \in Proc \ P : \A f \in Owned(cur[r]) \cup Owned(new[r]) : data'[f] = data[f]
<1> SUFFICES ASSUME NEW r \in Proc \ P, NEW f \in Owned(cur[r]) \cup Owned(new[r])
             PROVE  data'[f] = data[f]
  OBVIOUS
<1>1. r \in Proc /\ Account(Has, free) /\ f \in Frame \ free
  BY Zenon, Apart DEF VmInv
<1>2. ASSUME NEW q \in P, f \in Mine(q) PROVE FALSE
  <2>1. q \in Proc /\ q # r
    OBVIOUS
  <2>2. QED
    BY <1>1, <1>2, <2>1, ApartOthers DEF Mine
<1>3. QED
  BY Zenon, <1>1, <1>2

\* Writing to free pages and to its own, p touches nobody else's.
LEMMA UntouchedBy ==
    ASSUME VmInv, NEW p \in Proc,
           \A f \in Frame : data'[f] = data[f] \/ f \in free \/ f \in Mine(p)
    PROVE  \A r \in Proc \ {p} : \A f \in Owned(cur[r]) \cup Owned(new[r]) : data'[f] = data[f]
<1>1. {p} \in SUBSET Proc
  OBVIOUS
<1>2. \A f \in Frame : data'[f] = data[f] \/ f \in free \/ \E q \in {p} : f \in Mine(q)
  OBVIOUS
<1>3. QED
  BY <1>1, <1>2, Untouched, Zenon

\* A step that is about nothing here.
LEMMA Nobody ==
    ASSUME VmInv, VmTypeOK',
           UNCHANGED <<free, data, cur, new, kstack, sz, pc, page, np, img, addr>>
    PROVE  Kept
<1>1. Leaves({})
  BY Zenon DEF Leaves
<1>2. \A r \in Proc : OneToOne(cur[r])' /\ OneToOne(new[r])' /\ Local(r)'
  BY <1>1, Others
<1>3. Account(Has, free)' /\ \A q, r \in Proc : np'[q] = np'[r] /\ np'[q] # None => q = r
  BY Zenon DEF VmInv, Has
<1>4. VmInv'
  BY Zenon, <1>2, <1>3 DEF VmInv
<1>5. SpaceStep
  <2>1. \A r \in Proc : Blind(r)
    BY <1>1, OthersBlind
  <2>2. QED
    BY Zenon, <2>1, AllBlind
<1>6. QED
  BY Zenon, <1>4, <1>5 DEF Kept

\* Pages still mapped keep their content.
LEMMA Remains ==
    ASSUME VmInv, NEW p \in Proc, NEW i \in Page,
           cur'[p].pte[i] = cur[p].pte[i],
           \A f \in Frame : f \notin Owned(cur[p]) \/ f \in Owned(cur'[p])
                            => data'[f] = data[f],
           cur[p].pte[i] # None
    PROVE  data'[cur'[p].pte[i]] = data[cur[p].pte[i]]
<1>1. cur[p].pte[i] \in Owned(cur[p]) /\ cur[p].pte[i] \in Owned(cur'[p])
  BY Zenon, OwnedIs
<1>2. cur[p].pte[i] \in Frame
  BY Zenon, <1>1, AtProc, Apart
<1>3. QED
  BY Zenon, <1>1, <1>2

\* A page that comes as zeros is not seen.
LEMMA ZeroPage ==
    ASSUME VmInv, NEW p \in Proc, NEW i \in Page, cur[p].pte[i] = None,
           data'[cur'[p].pte[i]] = 0,
           \A j \in Page \ {i} : cur'[p].pte[j] = cur[p].pte[j],
           \A f \in Frame \ free : data'[f] = data[f],
           sz'[p] = sz[p], (p \in Alive)' <=> p \in Alive
    PROVE  Blind(p)
<1>1. \A j \in Page : cur[p].pte[j] # None => data'[cur[p].pte[j]] = data[cur[p].pte[j]]
  <2>1. Account(Has, free)
    BY Zenon, AtProc
  <2>2. QED
    BY <2>1, OwnedIs, Apart
<1>2. \A j \in Page : Content(p, j)' = Content(p, j)
  BY Zenon, <1>1 DEF Content
<1>3. QED
  BY Zenon, <1>2 DEF Blind, Length

----------------------------------------------------------------------------
(* The actions.                                                            *)

\* handle_lazy_allocation().
LEMMA LazyKeeps ==
    ASSUME VmInv, NEW p \in Proc, NEW a \in 0..(KERNBASE - 1), pc[p] \in {"user", "copy"},
           CanMap(p, a) => cur[p].pte[a \div PGSIZE] = None,
           LazyAllocation(p, a), UNCHANGED <<new, kstack, sz, pc, page, cvars>>
    PROVE  Kept
<1> DEFINE i == a \div PGSIZE
<1>0. /\ new' = new /\ kstack' = kstack /\ sz' = sz /\ pc' = pc /\ page' = page
      /\ np' = np /\ img' = img /\ addr' = addr
  BY Zenon DEF cvars
<1>1. i \in Page /\ i * PGSIZE <= a
  BY Zenon, PageOf
<1> HIDE DEF i
<1>2. CASE CanMap(p, a) /\ MapsCur(p, i, TRUE, 0) /\ killed' = killed
  <2>1. Room(cur[p]) /\ cur[p].pte[i] = None /\ 0 \in Data /\ a < sz[p]
    BY <1>2 DEF CanMap, Data, i
  <2>2. /\ cur' \in [Proc -> Dir] /\ data' \in [Frame -> Data] /\ Account(Has, free)'
        /\ \A r \in Proc \ {p} : cur'[r] = cur[r]
        /\ OneToOne(cur[p])' /\ cur'[p].pte[i] = Kalloc /\ Kalloc \in free
        /\ \A j \in Page \ {i} : cur'[p].pte[j] = cur[p].pte[j]
        /\ \A f \in Frame \ free : data'[f] = data[f]
    BY Zenon, <1>0, <1>1, <1>2, <2>1, MappingCur
  <2>3. VmTypeOK'
    BY <1>0, <1>2, <2>2 DEF VmInv, VmTypeOK
  <2>4. Leaves({p})
    <3>1. \A r \in Proc \ {p} : \A f \in Owned(cur[r]) \cup Owned(new[r]) : data'[f] = data[f]
      BY Zenon, <2>2, UntouchedBy
    <3>2. QED
      BY Zenon, <1>0, <2>2, <3>1 DEF Leaves
  <2>5. Local(p)'
    <3>1. Stage(p) /\ Sized(p) /\ Copied(p) /\ Loaded(p) /\ sz[p] \in Nat
      BY AtProc
    <3>2. Stage(p)' /\ Copied(p)' /\ Loaded(p)'
      BY Zenon, <1>0, <3>1 DEF Stage, Copied, Loaded, Forks, Execs
    <3>3. i * PGSIZE < sz[p]
      BY <1>1, <2>1, <3>1, PageNumbers
    <3>4. Sized(p)'
      BY Zenon, <1>0, <2>2, <3>1, <3>3 DEF Sized, Alive
    <3>5. QED
      BY Zenon, <3>2, <3>4 DEF Local
  <2>6. OneToOne(new[p])'
    BY Zenon, <1>0, AtProc
  <2>7. Shows(p)
    <3>1. data'[Kalloc] = 0
      BY Zenon, <1>2, <2>2, Apart DEF MapsCur, Take, VmInv, VmTypeOK
    <3>2. data'[cur'[p].pte[i]] = 0 /\ sz'[p] = sz[p] /\ ((p \in Alive)' <=> p \in Alive)
      BY Zenon, <1>0, <2>2, <3>1 DEF Alive
    <3>3. QED
      BY Zenon, <1>1, <2>1, <2>2, <3>2, ZeroPage DEF Shows
  <2>8. QED
    BY Zenon, <1>0, <2>2, <2>3, <2>4, <2>5, <2>6, <2>7, Alone
<1>3. CASE killed' = [killed EXCEPT ![p] = TRUE] /\ UNCHANGED <<free, data, cur>>
  <2>1. VmTypeOK'
    BY Zenon, <1>0, <1>3 DEF VmInv, VmTypeOK
  <2>2. QED
    BY Zenon, <1>0, <1>3, <2>1, Nobody
<1>4. QED
  BY Zenon, <1>2, <1>3 DEF LazyAllocation, MapsCur, i

\* A page is written.
LEMMA Store ==
    ASSUME NEW d \in [Frame -> Data], NEW f
    PROVE  /\ [d EXCEPT ![f] = 1] \in [Frame -> Data]
           /\ \A g \in Frame \ {f} : [d EXCEPT ![f] = 1][g] = d[g]
           /\ f \in Frame => [d EXCEPT ![f] = 1][f] = 1
<1>1. 1 \in Data
  BY DEF Data
<1>2. QED
  BY Zenon, <1>1

\* The program, or the kernel for it, stores into a page that is there.
Stores(p, i) ==
    /\ cur[p].pte[i] # None /\ pc[p] \in {"user", "copy"} /\ pc'[p] = "user"
    /\ data'[cur[p].pte[i]] = 1 /\ \A f \in Frame \ {cur[p].pte[i]} : data'[f] = data[f]
    /\ \A r \in Proc \ {p} : pc'[r] = pc[r] /\ addr'[r] = addr[r]
    /\ UNCHANGED <<free, cur, new, kstack, sz, page, np, img>>

\* A process writes to a page it has.
LEMMA StoreKeeps ==
    ASSUME VmInv, VmTypeOK', NEW p \in Proc, NEW i \in Page, Stores(p, i)
    PROVE  Kept
<1>0. /\ cur[p].pte[i] # None /\ pc[p] \in {"user", "copy"} /\ pc'[p] = "user"
      /\ data'[cur[p].pte[i]] = 1 /\ \A f \in Frame \ {cur[p].pte[i]} : data'[f] = data[f]
      /\ \A r \in Proc \ {p} : pc'[r] = pc[r] /\ addr'[r] = addr[r]
      /\ UNCHANGED <<free, cur, new, kstack, sz, page, np, img>>
  BY Zenon DEF Stores
<1>1. cur[p].pte[i] \in Owned(cur[p])
  BY Zenon, <1>0, OwnedIs
<1>2. \A r \in Proc \ {p} : \A f \in Owned(cur[r]) \cup Owned(new[r]) : data'[f] = data[f]
  BY Zenon, <1>0, <1>1, UntouchedBy DEF Mine
<1>3. Leaves({p})
  BY Zenon, <1>0, <1>2 DEF Leaves
<1>4. OneToOne(cur[p])' /\ OneToOne(new[p])' /\ Account(Has, free)'
  BY Zenon, <1>0, AtProc DEF Has
<1>5. Stage(p) /\ Sized(p)
  BY Zenon, AtProc
<1>6. Stage(p)'
  BY Zenon, <1>0, <1>5 DEF Stage, Execs, Forks
<1>7. Sized(p)' /\ Copied(p)' /\ Loaded(p)'
  BY Zenon, <1>0, <1>5 DEF Sized, Alive, Copied, Loaded, Execs, Forks
<1>8. Shows(p)
  <2>1. /\ p \in Alive /\ (p \in Alive)' /\ Length(p)' = Length(p)
        /\ i * PGSIZE < Length(p)
    BY Zenon, <1>0, <1>5 DEF Alive, Length, Sized
  <2>2. \A j \in Page : cur[p].pte[j] # None =>
            /\ cur[p].pte[j] \in Frame
            /\ j # i => cur[p].pte[j] # cur[p].pte[i]
    BY Zenon, AtProc, InUse DEF OneToOne
  <2>3. \A j \in Page : Content(p, j)' = IF j = i THEN 1 ELSE Content(p, j)
    BY <1>0, <2>1, <2>2 DEF Content
  <2>4. QED
    BY <2>1, <2>3, Zenon DEF Shows
<1>9. QED
  BY Zenon, <1>0, <1>3, <1>4, <1>6, <1>7, <1>8, Alone DEF Local

\* A load or store of a program, with its page fault.
LEMMA AccessKeeps ==
    ASSUME VmInv, NEW p \in Proc, NEW a \in 0..(KERNBASE - 1), Access(p, a)
    PROVE  Kept
<1> DEFINE i == a \div PGSIZE
<1>1. i \in Page /\ pc[p] = "user"
  BY Zenon, PageOf DEF Access, Does
<1> HIDE DEF i
<1>2. UNCHANGED <<new, kstack, sz, pc, page, cvars, calls>>
  BY Zenon DEF Access
<1>3. CASE /\ cur[p].pte[i] # None /\ data' = [data EXCEPT ![cur[p].pte[i]] = 1]
           /\ UNCHANGED <<free, cur, killed, panic>>
  <2>1. /\ data' \in [Frame -> Data] /\ data'[cur[p].pte[i]] = 1
        /\ \A f \in Frame \ {cur[p].pte[i]} : data'[f] = data[f]
    <3>1. cur[p].pte[i] \in Frame /\ data \in [Frame -> Data]
      BY Zenon, <1>1, <1>3, AtProc, OwnedIs, Apart DEF VmInv, VmTypeOK
    <3>2. QED
      BY <1>3, <3>1, Store
  <2>2. VmTypeOK'
    BY Zenon, <1>2, <1>3, <2>1 DEF VmInv, VmTypeOK, cvars
  <2>3. Stores(p, i)
    BY <1>1, <1>2, <1>3, <2>1 DEF cvars, Stores
  <2>4. QED
    BY <1>1, <2>2, <2>3, StoreKeeps
<1>4. CASE UNCHANGED <<free, data, cur, killed>>
  <2>1. VmTypeOK'
    BY Zenon, <1>2, <1>4 DEF VmInv, VmTypeOK, cvars
  <2>2. QED
    BY Zenon, <1>2, <1>4, <2>1, Nobody DEF cvars
<1>5. CASE /\ cur[p].pte[i] = None \/ ~CanMap(p, a)
           /\ LazyAllocation(p, a) /\ UNCHANGED panic
  BY Zenon, <1>1, <1>2, <1>5, LazyKeeps DEF i
<1>6. QED
  BY Zenon, <1>3, <1>4, <1>5 DEF Access, i

\* A system call copies to user memory.
LEMMA CopyKeeps ==
    ASSUME VmInv, NEW p \in Proc, Copy(p)
    PROVE  Kept
<1> DEFINE a == addr[p]
           i == a \div PGSIZE
<1>1. a \in 0..(KERNBASE - 1) /\ i \in Page /\ pc[p] = "copy"
  BY Zenon, PageOf, AtProc DEF Copy
<1> HIDE DEF i
<1>2. UNCHANGED <<new, kstack, sz, page, np, img, panic, calls>>
  BY Zenon DEF Copy
<1>3. CASE /\ cur[p].pte[i] # None /\ data' = [data EXCEPT ![cur[p].pte[i]] = 1]
           /\ Return(p) /\ addr' = [addr EXCEPT ![p] = 0]
           /\ UNCHANGED <<free, cur, killed>>
  <2>1. /\ data' \in [Frame -> Data] /\ data'[cur[p].pte[i]] = 1
        /\ \A f \in Frame \ {cur[p].pte[i]} : data'[f] = data[f]
    <3>1. cur[p].pte[i] \in Frame /\ data \in [Frame -> Data]
      BY Zenon, <1>1, <1>3, AtProc, OwnedIs, Apart DEF VmInv, VmTypeOK
    <3>2. QED
      BY <1>3, <3>1, Store
  <2>2. /\ pc' \in [Proc -> VmPoints] /\ addr' \in [Proc -> 0..(KERNBASE - 1)]
        /\ pc'[p] = "user" /\ \A r \in Proc \ {p} : pc'[r] = pc[r] /\ addr'[r] = addr[r]
    BY <1>3, Consts DEF VmInv, VmTypeOK, VmPoints, Return
  <2>3. VmTypeOK'
    BY <1>2, <1>3, <2>1, <2>2 DEF VmInv, VmTypeOK
  <2>4. Stores(p, i)
    BY <1>1, <1>2, <1>3, <2>1, <2>2 DEF Stores
  <2>5. QED
    BY <1>1, <2>3, <2>4, StoreKeeps
<1>4. CASE cur[p].pte[i] = None /\ LazyAllocation(p, a) /\ UNCHANGED <<pc, addr>>
  BY <1>1, <1>2, <1>4, LazyKeeps DEF cvars, i
<1>5. QED
  BY Zenon, <1>3, <1>4 DEF Copy, i

\* A system call checks the address it will copy to.
LEMMA SyscallKeeps ==
    ASSUME VmInv, NEW p \in Proc, NEW a \in 0..(KERNBASE - 1), Syscall(p, a)
    PROVE  Kept
<1>1. /\ UNCHANGED <<free, data, cur, new, kstack, sz, killed, page, np, img>>
      /\ pc[p] = "user" /\ a < sz[p]
  BY Zenon DEF Syscall, Does
<1>2. /\ pc' \in [Proc -> VmPoints] /\ pc'[p] = "copy" /\ \A r \in Proc \ {p} : pc'[r] = pc[r]
      /\ addr' \in [Proc -> 0..(KERNBASE - 1)] /\ addr'[p] = a
      /\ \A r \in Proc \ {p} : addr'[r] = addr[r]
  BY Zenon DEF Syscall, VmInv, VmTypeOK, VmPoints
<1>3. VmTypeOK'
  BY Zenon, <1>1, <1>2 DEF VmInv, VmTypeOK
<1>4. Leaves({p})
  BY Zenon, <1>1, <1>2 DEF Leaves
<1>5. OneToOne(cur[p])' /\ OneToOne(new[p])' /\ Account(Has, free)'
  BY Zenon, <1>1, AtProc DEF Has
<1>6. Stage(p) /\ Sized(p)
  BY Zenon, AtProc
<1>7. Stage(p)'
  BY Zenon, <1>1, <1>2, <1>6 DEF Stage, Execs, Forks
<1>8. Sized(p)' /\ Copied(p)' /\ Loaded(p)'
  BY Zenon, <1>1, <1>2, <1>6 DEF Sized, Alive, Copied, Loaded, Execs, Forks
<1>9. Shows(p)
  BY <1>1, <1>2, Unseen DEF Alive, Shows
<1>10. QED
  BY <1>1, <1>3, <1>4, <1>5, <1>7, <1>8, <1>9, Alone DEF Local

\* sbrk() with a positive argument.
LEMMA SbrkGrowKeeps ==
    ASSUME VmInv, NEW p \in Proc, NEW n \in SbrkArgs, SbrkGrow(p, n)
    PROVE  Kept
<1> DEFINE newsz == sz[p] + n
<1>1. /\ UNCHANGED <<free, data, cur, new, kstack, killed, np, img>>
      /\ pc[p] = "user" /\ n > 0 /\ newsz < KERNBASE
  BY Zenon DEF SbrkGrow, Begins, Does
<1>2. /\ sz[p] \in Nat /\ n \in Int /\ newsz \in 0..(KERNBASE - 1) /\ sz[p] <= newsz
      /\ Stage(p) /\ Sized(p)
  <2>1. n \in Int /\ sz[p] \in 0..(KERNBASE - 1) /\ Stage(p) /\ Sized(p)
    BY Zenon, AtProc, Args
  <2>2. QED
    BY <1>1, <2>1, Consts
<1>3. OneToOne(cur[p])' /\ OneToOne(new[p])' /\ Account(Has, free)'
  BY Zenon, <1>1, AtProc DEF Has
<1> HIDE DEF newsz
<1>7. \A i \in Page : cur[p].pte[i] # None => i * PGSIZE < sz[p] /\ i * PGSIZE < newsz
  <2>1. \A i \in Page : cur[p].pte[i] # None => i * PGSIZE < sz[p]
    BY Zenon, <1>1, <1>2 DEF Sized, Alive
  <2>2. \A i \in Page : i * PGSIZE < sz[p] => i * PGSIZE < newsz
    <3>1. sz[p] \in Nat /\ newsz \in Nat /\ sz[p] <= newsz
      BY <1>2
    <3>2. QED
      BY <3>1, PageNumbers
  <2>3. QED
    BY Zenon, <2>1, <2>2
<1>4. CASE /\ pc' = [pc EXCEPT ![p] = "grow"] /\ page' = [page EXCEPT ![p] = PGROUNDUP(sz[p])]
           /\ addr' = [addr EXCEPT ![p] = newsz] /\ UNCHANGED sz
  <2>1. /\ PGROUNDUP(sz[p]) \in Nat
        /\ \A i \in Page : i < PGROUNDUP(sz[p]) <=> i * PGSIZE < sz[p]
    BY <1>2, RoundUp, PageNumbers
  <2>2. /\ pc' \in [Proc -> VmPoints] /\ pc'[p] = "grow"
        /\ page' \in [Proc -> Nat] /\ page'[p] = PGROUNDUP(sz[p])
        /\ addr' \in [Proc -> 0..(KERNBASE - 1)] /\ addr'[p] = newsz
        /\ \A r \in Proc \ {p} : pc'[r] = pc[r] /\ page'[r] = page[r] /\ addr'[r] = addr[r]
    BY Zenon, <1>2, <1>4, <2>1 DEF VmInv, VmTypeOK, VmPoints
  <2>3. VmTypeOK'
    BY Zenon, <1>1, <1>4, <2>2 DEF VmInv, VmTypeOK
  <2>4. Leaves({p})
    BY Zenon, <1>1, <1>4, <2>2 DEF Leaves
  <2>5. Stage(p)' /\ Copied(p)' /\ Loaded(p)'
    BY Zenon, <1>1, <1>2, <2>2 DEF Stage, Copied, Loaded, Execs, Forks
  <2>6. Sized(p)'
    <3>1. /\ \A i \in Page : i < PGROUNDUP(sz[p]) => i * PGSIZE < newsz
          /\ \A i \in Page : cur[p].pte[i] # None
                             => i < PGROUNDUP(sz[p]) /\ ~(i * PGSIZE >= sz[p])
      <4>1. ASSUME NEW i \in Page
            PROVE  /\ i < PGROUNDUP(sz[p]) => i * PGSIZE < newsz
                   /\ i * PGSIZE < sz[p] => i < PGROUNDUP(sz[p]) /\ ~(i * PGSIZE >= sz[p])
        BY <1>2, <2>1, PageNumbers
      <4>2. QED
        BY <1>7, <4>1, Zenon
    <3>2. QED
      BY <1>1, <1>2, <1>4, <2>1, <2>2, <3>1 DEF Sized
  <2>7. Shows(p)
    BY <1>1, <1>4, <2>2, Unseen DEF Alive, Shows
  <2>8. QED
    BY <1>1, <1>3, <2>3, <2>4, <2>5, <2>6, <2>7, Alone DEF Local
<1>5. CASE sz' = [sz EXCEPT ![p] = newsz] /\ UNCHANGED <<pc, page, addr>>
  <2>1. /\ sz' \in [Proc -> 0..(KERNBASE - 1)] /\ sz'[p] = newsz
        /\ \A r \in Proc \ {p} : sz'[r] = sz[r]
    BY Zenon, <1>2, <1>5 DEF VmInv, VmTypeOK
  <2>2. VmTypeOK'
    BY <1>1, <1>5, <2>1 DEF VmInv, VmTypeOK
  <2>3. Leaves({p})
    BY Zenon, <1>1, <1>5, <2>1 DEF Leaves
  <2>4. Stage(p)' /\ Copied(p)' /\ Loaded(p)'
    BY Zenon, <1>1, <1>2, <1>5 DEF Stage, Copied, Loaded, Execs, Forks
  <2>5. Sized(p)'
    <3>1. pc'[p] = "user" /\ \A i \in Page : cur'[p].pte[i] # None => i * PGSIZE < sz'[p]
      BY <1>1, <1>5, <1>7, <2>1, Zenon
    <3>2. QED
      BY Zenon, <3>1 DEF Sized
  <2>6. Shows(p)
    <3>1. /\ p \in Alive /\ (p \in Alive)' /\ Length(p)' = newsz /\ newsz \in 0..KERNBASE
          /\ \A i \in Page : Content(p, i)' = Content(p, i)
      BY Zenon, <1>1, <1>2, <1>5, <2>1, Bounded DEF Alive, Length, Content
    <3>2. \A i \in Page : Content(p, i)' = IF i * PGSIZE < newsz THEN Content(p, i) ELSE 0
      BY <1>7, <3>1 DEF Content
    <3>3. QED
      BY <3>1, <3>2, Zenon DEF Shows
  <2>7. QED
    BY <1>1, <1>3, <2>2, <2>3, <2>4, <2>5, <2>6, Alone DEF Local
<1>6. QED
  BY Zenon, <1>4, <1>5 DEF SbrkGrow, newsz

\* sbrk() with a negative argument.
LEMMA SbrkShrinkKeeps ==
    ASSUME VmInv, NEW p \in Proc, NEW n \in SbrkArgs, SbrkShrink(p, n)
    PROVE  Kept
<1> DEFINE newsz == sz[p] + n
           S == Between(sz[p], newsz)
<1>1. /\ UNCHANGED <<new, kstack, killed, pc, page, np, img, addr>>
      /\ pc[p] = "user" /\ n < 0 /\ newsz >= 0 /\ UnmapsCur(p, S)
      /\ sz' = IF newsz = 0 THEN sz ELSE [sz EXCEPT ![p] = newsz]
  BY Zenon DEF SbrkShrink, Begins, Does, cvars, UnmapsCur
<1>2. /\ sz[p] \in 0..(KERNBASE - 1) /\ n \in Int /\ newsz \in 0..(KERNBASE - 1)
      /\ Stage(p) /\ Sized(p)
  <2>1. n \in Int /\ sz[p] \in 0..(KERNBASE - 1) /\ Stage(p) /\ Sized(p)
    BY Zenon, AtProc, Args
  <2>2. QED
    BY <1>1, <2>1, Consts
<1>3. /\ S \in SUBSET Page
      /\ \A i \in Page : i \in S <=> newsz <= i * PGSIZE /\ i * PGSIZE < sz[p]
  BY <1>2, BetweenIs
<1> HIDE DEF newsz, S
<1>4. /\ cur' \in [Proc -> Dir] /\ data' \in [Frame -> Data] /\ Account(Has, free)'
      /\ \A r \in Proc \ {p} : cur'[r] = cur[r]
      /\ OneToOne(cur[p])'
      /\ \A j \in Page : cur'[p].pte[j] = IF j \in S THEN None ELSE cur[p].pte[j]
      /\ \A f \in Frame : f \notin Owned(cur[p]) \/ f \in Owned(cur'[p])
                          => data'[f] = data[f]
  BY Zenon, <1>1, <1>3, UnmappingCur
<1>5. /\ sz' \in [Proc -> 0..(KERNBASE - 1)]
      /\ (newsz = 0 /\ sz'[p] = sz[p]) \/ sz'[p] = newsz
      /\ \A r \in Proc \ {p} : sz'[r] = sz[r]
  BY Zenon, <1>1, <1>2 DEF VmInv, VmTypeOK
<1>6. VmTypeOK'
  BY <1>1, <1>4, <1>5 DEF VmInv, VmTypeOK
<1>7. Leaves({p})
  <2>1. \A r \in Proc \ {p} : \A f \in Owned(cur[r]) \cup Owned(new[r]) : data'[f] = data[f]
    <3>1. \A f \in Frame : data'[f] = data[f] \/ f \in free \/ f \in Mine(p)
      BY Zenon, <1>4 DEF Mine
    <3>2. QED
      BY Zenon, <3>1, UntouchedBy
  <2>2. QED
    BY Zenon, <1>1, <1>4, <1>5, <2>1 DEF Leaves
<1>8. Stage(p)' /\ Copied(p)' /\ Loaded(p)'
  BY Zenon, <1>1, <1>2 DEF Stage, Copied, Loaded, Execs, Forks
<1>9. \A i \in Page : cur'[p].pte[i] # None => i * PGSIZE < sz[p] /\ i * PGSIZE < newsz
  <2>1. \A i \in Page : cur[p].pte[i] # None => i * PGSIZE < sz[p]
    BY Zenon, <1>1, <1>2 DEF Sized, Alive
  <2>2. \A i \in Page : cur'[p].pte[i] # None => i \notin S /\ cur[p].pte[i] # None
    BY Zenon, <1>4
  <2>3. ASSUME NEW i \in Page, cur'[p].pte[i] # None PROVE i * PGSIZE < newsz
    <3>1. i * PGSIZE \in Nat /\ i \notin S /\ i * PGSIZE < sz[p]
      BY <2>1, <2>2, <2>3, PageNumbers
    <3>2. QED
      BY <1>2, <1>3, <3>1
  <2>4. QED
    BY <2>1, <2>2, <2>3, Zenon
<1>10. Sized(p)'
  <2>1. \A i \in Page : cur'[p].pte[i] # None => i * PGSIZE < sz'[p]
    BY <1>5, <1>9, Zenon
  <2>2. QED
    BY Zenon, <1>1, <2>1 DEF Sized
<1>11. OneToOne(new[p])'
  BY Zenon, <1>1, AtProc
<1>12. Shows(p)
  <2>1. /\ p \in Alive /\ (p \in Alive)' /\ Length(p) = sz[p] /\ Length(p)' = sz'[p]
        /\ newsz \in 0..KERNBASE
    BY <1>1, <1>2, Consts DEF Alive, Length
  <2>2. \A i \in Page : Content(p, i)' = IF i \in S THEN 0 ELSE Content(p, i)
    BY Zenon, <1>1, <1>4, <2>1, Remains DEF Content
  <2>3. \A i \in Page : /\ ~(i * PGSIZE < newsz) => Content(p, i)' = 0
                        /\ i * PGSIZE < newsz => i \notin S
    <3>1. \A i \in Page : ~(i * PGSIZE < newsz) => cur'[p].pte[i] = None
      BY Zenon, <1>9
    <3>2. \A i \in Page : ~(i * PGSIZE < newsz) => Content(p, i)' = 0
      BY Zenon, <3>1 DEF Content
    <3>3. ASSUME NEW i \in Page, i * PGSIZE < newsz PROVE i \notin S
      <4>1. i * PGSIZE \in Nat /\ ~(newsz <= i * PGSIZE)
        BY <1>2, <3>3, PageNumbers
      <4>2. QED
        BY <1>3, <4>1, Zenon
    <3>4. QED
      BY <3>2, <3>3, Zenon
  <2>4. CASE sz'[p] = newsz
    <3>1. \A i \in Page : Content(p, i)' = IF i * PGSIZE < newsz THEN Content(p, i) ELSE 0
      BY Zenon, <2>2, <2>3
    <3>2. QED
      BY <2>1, <2>4, <3>1, Zenon DEF Shows
  <2>5. CASE newsz = 0 /\ sz'[p] = sz[p]
    <3>1. \A i \in Page : Content(p, i)' = 0
      <4>1. \A i \in Page : ~(i * PGSIZE < newsz)
        BY <2>5, PageNumbers
      <4>2. QED
        BY <2>3, <4>1, Zenon
    <3>2. QED
      BY <2>1, <2>5, <3>1, Zenon DEF Shows
  <2>6. QED
    BY <1>5, <2>4, <2>5
<1>13. QED
  BY Zenon, <1>1, <1>4, <1>6, <1>7, <1>8, <1>10, <1>11, <1>12, Alone DEF Local

\* growproc(): a page of allocuvm(), and the end of it.
LEMMA GrowKeeps ==
    ASSUME VmInv, NEW p \in Proc, Grow(p)
    PROVE  Kept
<1> DEFINE i == page[p]
           S == Between(addr[p], sz[p])
<1>1. UNCHANGED <<new, kstack, killed, np, img>> /\ pc[p] = "grow"
  BY Zenon DEF Grow
<1>2. /\ i \in Nat /\ sz[p] \in 0..(KERNBASE - 1) /\ addr[p] \in 0..(KERNBASE - 1)
      /\ Stage(p) /\ Sized(p) /\ Account(Has, free)
  BY Zenon, AtProc
<1>3. /\ sz[p] <= addr[p]
      /\ \A j \in Page : j < i => j * PGSIZE < addr[p]
      /\ \A j \in Page : j * PGSIZE < sz[p] => j < i
      /\ \A j \in Page : cur[p].pte[j] # None => j < i
      /\ \A j \in Page : cur[p].pte[j] # None /\ j * PGSIZE >= sz[p]
                          => data[cur[p].pte[j]] = 0
  BY Zenon, <1>1, <1>2 DEF Sized
<1>4. OneToOne(new[p])'
  BY Zenon, <1>1, AtProc
<1>5. ASSUME pc'[p] \in {"user", "grow"}, addr'[p] \in {0, addr[p]}
      PROVE  Stage(p)' /\ Copied(p)' /\ Loaded(p)'
  BY Zenon, <1>1, <1>2, <1>5 DEF Stage, Copied, Loaded, Execs, Forks
<1> HIDE DEF i, S
<1>6. CASE /\ i * PGSIZE >= addr[p] /\ sz' = [sz EXCEPT ![p] = addr[p]] /\ Return(p)
           /\ page' = [page EXCEPT ![p] = 0] /\ addr' = [addr EXCEPT ![p] = 0]
           /\ UNCHANGED <<free, data, cur>>
  <2>1. /\ sz' \in [Proc -> 0..(KERNBASE - 1)] /\ sz'[p] = addr[p]
        /\ pc' \in [Proc -> VmPoints] /\ pc'[p] = "user" /\ page' \in [Proc -> Nat]
        /\ addr' \in [Proc -> 0..(KERNBASE - 1)] /\ addr'[p] = 0
        /\ \A r \in Proc \ {p} : /\ sz'[r] = sz[r] /\ pc'[r] = pc[r]
                                 /\ page'[r] = page[r] /\ addr'[r] = addr[r]
    BY <1>2, <1>6, Consts DEF VmInv, VmTypeOK, VmPoints, Return
  <2>2. VmTypeOK'
    BY <1>1, <1>6, <2>1 DEF VmInv, VmTypeOK
  <2>3. Leaves({p})
    BY Zenon, <1>1, <1>6, <2>1 DEF Leaves
  <2>4. Sized(p)'
    BY Zenon, <1>3, <1>6, <2>1 DEF Sized
  <2>5. OneToOne(cur[p])' /\ Account(Has, free)'
    BY Zenon, <1>1, <1>6, AtProc DEF Has
  <2>6. Shows(p)
    <3>1. /\ p \in Alive /\ (p \in Alive)' /\ Length(p)' = addr[p] /\ addr[p] \in 0..KERNBASE
          /\ \A j \in Page : Content(p, j)' = Content(p, j)
      BY Zenon, <1>1, <1>2, <1>6, <2>1, Bounded DEF Alive, Length, Content
    <3>2. \A j \in Page : ~(j * PGSIZE < addr[p]) => cur[p].pte[j] = None
      BY <1>3, Zenon
    <3>3. \A j \in Page : Content(p, j)' = IF j * PGSIZE < addr[p] THEN Content(p, j) ELSE 0
      BY Zenon, <3>1, <3>2 DEF Content
    <3>4. QED
      BY <3>1, <3>3, Zenon DEF Shows
  <2>7. QED
    BY Zenon, <1>1, <1>4, <1>5, <2>1, <2>2, <2>3, <2>4, <2>5, <2>6, Alone DEF Local
<1>7. CASE /\ i * PGSIZE < addr[p] /\ Room(cur[p]) /\ MapsCur(p, i, TRUE, 0)
           /\ page' = [page EXCEPT ![p] = i + 1] /\ UNCHANGED <<sz, pc, addr>>
  <2>1. i \in Page /\ cur[p].pte[i] = None /\ 0 \in Data
    BY Zenon, <1>2, <1>3, <1>7, Below, Bounded, Contents
  <2>2. /\ cur' \in [Proc -> Dir] /\ data' \in [Frame -> Data] /\ Account(Has, free)'
        /\ \A r \in Proc \ {p} : cur'[r] = cur[r]
        /\ OneToOne(cur[p])' /\ cur'[p].pte[i] = Kalloc /\ Kalloc \in free
        /\ \A j \in Page \ {i} : cur'[p].pte[j] = cur[p].pte[j]
        /\ \A f \in Frame \ free : data'[f] = data[f]
    <3>1. Room(cur[p]) /\ MapsCur(p, i, TRUE, 0) /\ new' = new /\ kstack' = kstack
      BY Zenon, <1>1, <1>7
    <3>2. QED
      BY Zenon, <2>1, <3>1, MappingCur
  <2>3. page' \in [Proc -> Nat] /\ page'[p] = i + 1 /\ \A r \in Proc \ {p} : page'[r] = page[r]
    BY <1>2, <1>7 DEF VmInv, VmTypeOK
  <2>4. VmTypeOK'
    BY Zenon, <1>1, <1>7, <2>2, <2>3 DEF VmInv, VmTypeOK
  <2>5. Leaves({p})
    <3>1. \A r \in Proc \ {p} : \A f \in Owned(cur[r]) \cup Owned(new[r]) : data'[f] = data[f]
      BY Zenon, <2>2, UntouchedBy
    <3>2. QED
      BY Zenon, <1>1, <1>7, <2>2, <2>3, <3>1 DEF Leaves
  <2>6. \A j \in Page \ {i} : cur[p].pte[j] # None => data'[cur[p].pte[j]] = data[cur[p].pte[j]]
    BY Zenon, <2>2, InUse
  <2>7. /\ \A j \in Page : j < i + 1 => j * PGSIZE < addr[p]
        /\ \A j \in Page : j * PGSIZE < sz[p] => j < i + 1
        /\ \A j \in Page : cur'[p].pte[j] # None => j < i + 1
    <3>1. \A j \in Page : j \in Nat /\ (j < i + 1 <=> j < i \/ j = i)
      BY Zenon, <1>2, Below
    <3>2. QED
      BY <1>3, <1>7, <2>2, <3>1, Zenon
  <2>11. data'[Kalloc] = 0
    BY Zenon, <1>2, <1>7, <2>2, Apart DEF MapsCur, Take, VmInv, VmTypeOK
  <2>8. \A j \in Page : cur'[p].pte[j] # None /\ j * PGSIZE >= sz[p]
                        => data'[cur'[p].pte[j]] = 0
    BY Zenon, <1>3, <2>2, <2>6, <2>11
  <2>9. Sized(p)'
    BY Zenon, <1>1, <1>3, <1>7, <2>3, <2>7, <2>8 DEF Sized
  <2>10. Shows(p)
    <3>1. data'[cur'[p].pte[i]] = 0 /\ sz'[p] = sz[p] /\ ((p \in Alive)' <=> p \in Alive)
      BY Zenon, <1>7, <2>2, <2>11 DEF Alive
    <3>2. QED
      BY Zenon, <2>1, <2>2, <3>1, ZeroPage DEF Shows
  <2>12. QED
    BY Zenon, <1>1, <1>4, <1>5, <1>7, <2>2, <2>4, <2>5, <2>9, <2>10, Alone DEF Local
<1>8. CASE /\ UnmapsCur(p, S) /\ Return(p) /\ UNCHANGED sz
           /\ page' = [page EXCEPT ![p] = 0] /\ addr' = [addr EXCEPT ![p] = 0]
  <2>1. /\ S \in SUBSET Page
        /\ \A j \in Page : j \in S <=> sz[p] <= j * PGSIZE /\ j * PGSIZE < addr[p]
    BY Zenon, <1>2, Bounded, BetweenIs DEF S
  <2>2. /\ cur' \in [Proc -> Dir] /\ data' \in [Frame -> Data] /\ Account(Has, free)'
        /\ \A r \in Proc \ {p} : cur'[r] = cur[r]
        /\ OneToOne(cur[p])'
        /\ \A j \in Page : cur'[p].pte[j] = IF j \in S THEN None ELSE cur[p].pte[j]
        /\ \A f \in Frame : f \notin Owned(cur[p]) \/ f \in Owned(cur'[p])
                            => data'[f] = data[f]
    BY Zenon, <1>1, <1>8, <2>1, UnmappingCur
  <2>3. /\ pc' \in [Proc -> VmPoints] /\ pc'[p] = "user" /\ page' \in [Proc -> Nat]
        /\ addr' \in [Proc -> 0..(KERNBASE - 1)] /\ addr'[p] = 0
        /\ \A r \in Proc \ {p} : /\ pc'[r] = pc[r] /\ page'[r] = page[r]
                                 /\ addr'[r] = addr[r]
    BY <1>8, Consts DEF VmInv, VmTypeOK, VmPoints, Return
  <2>4. VmTypeOK'
    BY Zenon, <1>1, <1>8, <2>2, <2>3 DEF VmInv, VmTypeOK
  <2>5. Leaves({p})
    <3>1. \A f \in Frame : data'[f] = data[f] \/ f \in free \/ f \in Mine(p)
      BY Zenon, <2>2 DEF Mine
    <3>2. \A r \in Proc \ {p} : \A f \in Owned(cur[r]) \cup Owned(new[r]) : data'[f] = data[f]
      BY Zenon, <3>1, UntouchedBy
    <3>3. QED
      BY Zenon, <1>1, <1>8, <2>2, <2>3, <3>2 DEF Leaves
  <2>6. ASSUME NEW j \in Page, cur'[p].pte[j] # None PROVE j * PGSIZE < sz[p]
    <3>1. j * PGSIZE \in Nat /\ j \notin S /\ j * PGSIZE < addr[p]
      BY Zenon, <1>3, <2>2, <2>6, PageNumbers
    <3>2. QED
      BY <1>2, <2>1, <3>1
  <2>7. Sized(p)'
    BY Zenon, <1>8, <2>3, <2>6 DEF Sized
  <2>8. Shows(p)
    <3>1. p \in Alive /\ (p \in Alive)' /\ Length(p)' = Length(p)
      BY Zenon, <1>1, <1>8, <2>3 DEF Alive, Length
    <3>2. \A j \in Page : j \in S => Content(p, j) = 0
      BY <1>2, <1>3, <2>1, PageNumbers DEF Content
    <3>3. \A j \in Page : Content(p, j)' = IF j \in S THEN 0 ELSE Content(p, j)
      BY Zenon, <2>2, <3>1, Remains DEF Content
    <3>4. \A j \in Page : Content(p, j)' = Content(p, j)
      BY <3>2, <3>3, Zenon
    <3>5. QED
      BY Zenon, <3>1, <3>4 DEF Shows, Blind
  <2>9. QED
    BY Zenon, <1>1, <1>4, <1>5, <2>2, <2>3, <2>4, <2>5, <2>7, <2>8, Alone DEF Local
<1>9. QED
  BY Zenon, <1>6, <1>7, <1>8 DEF Grow, MapsCur, UnmapsCur, i, S
====
