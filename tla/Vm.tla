--------------------------------- MODULE Vm ---------------------------------
(***************************************************************************)
(* User memory: the page allocator of kalloc.c, the page tables of vm.c    *)
(* with lazy allocation, the page fault handler of trap.c, and sbrk, fork, *)
(* exec, exit and wait as far as they concern memory.                      *)
(*                                                                         *)
(* Grain.  A loop over pages takes a step per page, because every kalloc() *)
(* takes and releases kmem.lock: other processes allocate in between.  All *)
(* user pages of a process lie under one page table page, and the kernel   *)
(* part of a page directory counts with the directory.                     *)
(***************************************************************************)
EXTENDS Integers, FiniteSets

CONSTANTS
    Proc, InitProc,     \* process slots
    Frame,              \* the physical pages of the allocator
    None,
    PGSIZE,             \* addresses in a page
    KERNBASE,           \* the first address above user memory
    EAGER,              \* 10*PGSIZE of allocuvm()
    Image,              \* programs: pages in the file, memsz in addresses
    SbrkArgs,           \* arguments of sbrk()
    InitCalls,          \* what the program of InitProc does, of Calls below
    UserCalls,          \* what the other programs do
    MaxCalls            \* bound: calls of sbrk(), fork() and exec()

\* "store" is any access to user memory, "read" a system call that writes to
\* it.
Calls == {"store", "read", "sbrk", "fork", "exec", "exit"}

ASSUME VmAssumption ==
    /\ InitProc \in Proc /\ None \notin Frame \cup Proc
    /\ IsFiniteSet(Frame) /\ Frame # {}
    /\ \A f, g, h \in Frame : Frame \ {f, g, h} # {}  \* enough for userinit()
    /\ PGSIZE \in Nat \ {0} /\ EAGER \in Nat
    /\ KERNBASE \in Nat /\ KERNBASE % PGSIZE = 0 /\ KERNBASE > PGSIZE
    /\ \A m \in Image : m.pages \in Nat \ {0} /\ m.memsz \in Nat
                        /\ (m.pages - 1) * PGSIZE < m.memsz
    /\ SbrkArgs \subseteq Int
    /\ InitCalls \subseteq Calls /\ UserCalls \subseteq Calls
    /\ MaxCalls \in Nat

Data == 0..2            \* a page of zeros, of the program's data, of junk
Junk == 2               \* what kfree() fills a page with
Page == 0..(KERNBASE \div PGSIZE - 1)
PGROUNDUP(a) == (a + PGSIZE - 1) \div PGSIZE    \* as a page number

VARIABLES
    free,       \* kmem.freelist
    data,       \* content of the physical pages
    cur,        \* page table of each process, or of the child of a fork()
    new,        \* pgdir of an exec() in progress
    kstack, sz, killed,
    pc,         \* what each process is doing
    page,       \* page number of the loop it is in
    np,         \* fork(): the child
    img,        \* exec(): the program
    addr,       \* sbrk(): the new size; a system call: where it copies to
    panic,      \* the panic() that stopped the kernel, or "none"
    calls       \* calls so far, up to MaxCalls

cvars == <<np, img, addr>>
vars == <<free, data, cur, new, kstack, sz, killed, pc, page, np, img, addr,
          panic, calls>>

\* A page table: the directory, the page table page, the physical pages and
\* the pages with PTE_U.
NoDir == [root |-> None, tab |-> None, pte |-> [i \in Page |-> None],
          user |-> {}]

----------------------------------------------------------------------------
(* kalloc(), kfree(), mappages()                                           *)

\* kalloc() returns some page of the list; pages are alike.  A second one is
\* taken when the page table page is missing.
Kalloc == CHOOSE f \in free : TRUE
Kalloc2 == CHOOSE f \in free \ {Kalloc} : TRUE

\* Memory for one more page of t.
Room(t) == free # {} /\ (t.tab = None => free # {Kalloc})

Taken(t) == {Kalloc} \cup (IF t.tab = None THEN {Kalloc2} ELSE {})

\* t with a new page i.
Mapped(t, i, flags) ==
    [t EXCEPT !.pte[i] = Kalloc, !.tab = IF @ = None THEN Kalloc2 ELSE @,
              !.user = IF flags THEN @ \cup {i} ELSE @ \ {i}]

\* The new page of t holds v.
Take(t, v) ==
    /\ free' = free \ Taken(t)
    /\ data' = [data EXCEPT ![Kalloc] = v]

\* kfree() of a set of pages.
Kfree(S) ==
    /\ free' = free \cup S
    /\ data' = [f \in Frame |-> IF f \in S THEN Junk ELSE data[f]]

Pages(t) == {t.pte[i] : i \in Page} \ {None}
Owned(t) == Pages(t) \cup ({t.root, t.tab} \ {None})

\* The pages deallocuvm() frees, and t without them.
Between(old, newsz) == {i \in Page : PGROUNDUP(newsz) <= i /\ i * PGSIZE < old}
Dealloc(t, S) ==
    [t EXCEPT !.pte = [i \in Page |-> IF i \in S THEN None ELSE t.pte[i]],
              !.user = @ \ S]

\* userinit(): a process of one page.
Init ==
    LET k == CHOOSE f \in Frame : TRUE
        r == CHOOSE f \in Frame \ {k} : TRUE
        t == CHOOSE f \in Frame \ {k, r} : TRUE
        m == CHOOSE f \in Frame \ {k, r, t} : TRUE
    IN
    /\ free = Frame \ {k, r, t, m}
    /\ cur = [p \in Proc |->
                IF p = InitProc
                THEN [NoDir EXCEPT !.root = r, !.tab = t, !.pte[0] = m,
                                   !.user = {0}]
                ELSE NoDir]
    /\ kstack = [p \in Proc |-> IF p = InitProc THEN k ELSE None]
    /\ data = [f \in Frame |-> IF f = m THEN 1 ELSE Junk]
    /\ new = [p \in Proc |-> NoDir]
    /\ sz = [p \in Proc |-> IF p = InitProc THEN PGSIZE ELSE 0]
    /\ killed = [p \in Proc |-> FALSE]
    /\ pc = [p \in Proc |-> IF p = InitProc THEN "user" ELSE "unused"]
    /\ page = [p \in Proc |-> 0]
    /\ np = [p \in Proc |-> None] /\ img = [p \in Proc |-> None]
    /\ addr = [p \in Proc |-> 0]
    /\ panic = "none"
    /\ calls = 0

\* Process p is in user space, goes on, and its program does this.
Does(p, call) ==
    /\ panic = "none" /\ pc[p] = "user" /\ ~killed[p]
    /\ call \in IF p = InitProc THEN InitCalls ELSE UserCalls

\* The same for a call that counts.
Begins(p, call) == Does(p, call) /\ calls < MaxCalls /\ calls' = calls + 1

\* A system call of p is over.
Return(p) == pc' = [pc EXCEPT ![p] = "user"]

----------------------------------------------------------------------------
(* Page faults                                                             *)

\* handle_lazy_allocation() accepts the address and has memory for a page.
CanMap(p, a) == a < sz[p] /\ a >= PGSIZE /\ Room(cur[p])

\* Variant: the new page is not cleared.
LazyAllocation_NoClear(p, a) ==
    LET t == cur[p] IN
    \/ /\ CanMap(p, a)
       /\ cur' = [cur EXCEPT ![p] = Mapped(t, a \div PGSIZE, TRUE)]
       /\ Take(t, Junk)
       /\ UNCHANGED killed
    \/ /\ ~CanMap(p, a)
       /\ killed' = [killed EXCEPT ![p] = TRUE]
       /\ UNCHANGED <<free, data, cur>>

\* Case T_PGFLT of trap(): handle_lazy_allocation() gives p a page of zeros
\* for address a, or p is killed.
LazyAllocation(p, a) ==
    LET t == cur[p] IN
    \/ /\ CanMap(p, a)
       /\ cur' = [cur EXCEPT ![p] = Mapped(t, a \div PGSIZE, TRUE)]
       /\ Take(t, 0)
       /\ UNCHANGED killed
    \/ /\ ~CanMap(p, a)
       /\ killed' = [killed EXCEPT ![p] = TRUE]
       /\ UNCHANGED <<free, data, cur>>

\* The program stores something at address a, or faults; after the fault it
\* tries again.  mappages() does not expect a page that is there: a fault on
\* the guard page under the stack stops the kernel.
Access(p, a) ==
    LET i == a \div PGSIZE
        f == cur[p].pte[i]
        user == i \in cur[p].user
    IN
    /\ Does(p, "store")
    /\ \/ /\ f # None /\ user
          /\ data' = [data EXCEPT ![f] = 1]
          /\ UNCHANGED <<free, cur, killed, panic>>
       \/ /\ f # None /\ ~user /\ CanMap(p, a)
          /\ panic' = "remap"
          /\ UNCHANGED <<free, data, cur, killed>>
       \/ /\ f = None \/ (~user /\ ~CanMap(p, a))
          /\ LazyAllocation(p, a)
          /\ UNCHANGED panic
    /\ UNCHANGED <<new, kstack, sz, pc, page, cvars, calls>>

\* A system call such as read(): argptr() accepts the address.
Syscall(p, a) ==
    /\ Does(p, "read") /\ a < sz[p]
    /\ pc' = [pc EXCEPT ![p] = "copy"]
    /\ addr' = [addr EXCEPT ![p] = a]
    /\ UNCHANGED <<free, data, cur, new, kstack, sz, killed, page, np, img,
                   panic, calls>>

\* The kernel stores through the user address.  It may use a page without
\* PTE_U, and returns to the same instruction after a fault.
Copy(p) ==
    LET a == addr[p]  f == cur[p].pte[a \div PGSIZE] IN
    /\ panic = "none" /\ pc[p] = "copy"
    /\ \/ /\ f # None
          /\ data' = [data EXCEPT ![f] = 1]
          /\ Return(p)
          /\ addr' = [addr EXCEPT ![p] = 0]
          /\ UNCHANGED <<free, cur, killed>>
       \/ f = None /\ LazyAllocation(p, a) /\ UNCHANGED <<pc, addr>>
    /\ UNCHANGED <<new, kstack, sz, page, np, img, panic, calls>>

----------------------------------------------------------------------------
(* sbrk()                                                                  *)

\* allocuvm() takes a small growth of a small process for its first stack.
Eager(old, newsz) == old > 0 /\ newsz - old <= 2 * PGSIZE /\ old < EAGER

\* growproc() with n > 0; a size beyond KERNBASE is refused without effect.
SbrkGrow(p, n) ==
    LET newsz == sz[p] + n IN
    /\ Begins(p, "sbrk") /\ n > 0 /\ newsz < KERNBASE
    /\ \/ /\ Eager(sz[p], newsz)
          /\ pc' = [pc EXCEPT ![p] = "grow"]
          /\ page' = [page EXCEPT ![p] = PGROUNDUP(sz[p])]
          /\ addr' = [addr EXCEPT ![p] = newsz]
          /\ UNCHANGED sz
       \/ /\ ~Eager(sz[p], newsz)
          /\ sz' = [sz EXCEPT ![p] = newsz]
          /\ UNCHANGED <<pc, page, addr>>
    /\ UNCHANGED <<free, data, cur, new, kstack, killed, np, img, panic>>

\* One turn of the loop of allocuvm(), its end, or its failure.  The page is
\* absent (FramesAccounted), so mappages() does not panic.
Grow(p) ==
    LET t == cur[p]
        i == page[p]
        S == Between(addr[p], sz[p])
    IN
    /\ panic = "none" /\ pc[p] = "grow"
    /\ \/ /\ i * PGSIZE >= addr[p]
          /\ sz' = [sz EXCEPT ![p] = addr[p]]
          /\ Return(p)
          /\ page' = [page EXCEPT ![p] = 0] /\ addr' = [addr EXCEPT ![p] = 0]
          /\ UNCHANGED <<free, data, cur>>
       \/ /\ i * PGSIZE < addr[p] /\ Room(t)
          /\ cur' = [cur EXCEPT ![p] = Mapped(t, i, TRUE)]
          /\ Take(t, 0)
          /\ page' = [page EXCEPT ![p] = i + 1]
          /\ UNCHANGED <<sz, pc, addr>>
       \/ /\ i * PGSIZE < addr[p] /\ ~Room(t)
          /\ cur' = [cur EXCEPT ![p] = Dealloc(t, S)]
          /\ Kfree({t.pte[j] : j \in S} \ {None})
          /\ Return(p)
          /\ page' = [page EXCEPT ![p] = 0] /\ addr' = [addr EXCEPT ![p] = 0]
          /\ UNCHANGED sz
    /\ UNCHANGED <<new, kstack, killed, np, img, panic, calls>>

\* growproc() with n < 0.  A size of 0 is taken for an error after the pages
\* are gone; a negative one wraps and is refused without effect.
SbrkShrink(p, n) ==
    LET newsz == sz[p] + n
        S == Between(sz[p], newsz)
    IN
    /\ Begins(p, "sbrk") /\ n < 0 /\ newsz >= 0
    /\ cur' = [cur EXCEPT ![p] = Dealloc(cur[p], S)]
    /\ Kfree({cur[p].pte[i] : i \in S} \ {None})
    /\ sz' = IF newsz = 0 THEN sz ELSE [sz EXCEPT ![p] = newsz]
    /\ UNCHANGED <<new, kstack, killed, pc, page, cvars, panic>>

----------------------------------------------------------------------------
(* fork(), exit(), wait()                                                  *)

\* allocproc(): a slot and its kernel stack.
ForkAlloc(p, q) ==
    /\ Begins(p, "fork") /\ pc[q] = "unused" /\ free # {}
    /\ kstack' = [kstack EXCEPT ![q] = Kalloc]
    /\ free' = free \ {Kalloc}
    /\ pc' = [pc EXCEPT ![p] = "fork_dir", ![q] = "embryo"]
    /\ np' = [np EXCEPT ![p] = q]
    /\ UNCHANGED <<data, cur, new, sz, killed, page, img, addr, panic>>

\* Variant: the kernel stack is not given back.
ForkBad_Leak(p) ==
    LET q == np[p] IN
    /\ Kfree(Owned(cur[q]))
    /\ cur' = [cur EXCEPT ![q] = NoDir]
    /\ kstack' = [kstack EXCEPT ![q] = None]
    /\ pc' = [pc EXCEPT ![p] = "user", ![q] = "unused"]

\* copyuvm() failed: freevm() inside it, then fork() frees the stack.
ForkBad(p) ==
    LET q == np[p] IN
    /\ Kfree(Owned(cur[q]) \cup {kstack[q]})
    /\ cur' = [cur EXCEPT ![q] = NoDir]
    /\ kstack' = [kstack EXCEPT ![q] = None]
    /\ pc' = [pc EXCEPT ![p] = "user", ![q] = "unused"]

\* copyuvm(): setupkvm().
ForkDir(p) ==
    LET q == np[p] IN
    /\ panic = "none" /\ pc[p] = "fork_dir"
    /\ \/ /\ free # {}
          /\ cur' = [cur EXCEPT ![q].root = Kalloc]
          /\ free' = free \ {Kalloc}
          /\ pc' = [pc EXCEPT ![p] = "fork_page"]
          /\ UNCHANGED <<data, kstack, np>>
       \/ free = {} /\ ForkBad(p) /\ np' = [np EXCEPT ![p] = None]
    /\ page' = [page EXCEPT ![p] = 0]
    /\ UNCHANGED <<new, sz, killed, img, addr, panic, calls>>

\* One turn of copyuvm(), which skips the pages that are not there, or the
\* end of fork().
ForkPage(p) ==
    LET q == np[p]
        i == page[p]
        more == i * PGSIZE < sz[p]
        f == cur[p].pte[i]
    IN
    /\ panic = "none" /\ pc[p] = "fork_page"
    /\ \/ /\ more /\ (f = None \/ Room(cur[q]))
          /\ page' = [page EXCEPT ![p] = i + 1]
          /\ IF f = None
             THEN UNCHANGED <<free, data, cur>>
             ELSE /\ cur' = [cur EXCEPT ![q] =
                                Mapped(cur[q], i, i \in cur[p].user)]
                  /\ Take(cur[q], data[f])
          /\ UNCHANGED <<kstack, sz, pc, np>>
       \/ /\ more /\ f # None /\ ~Room(cur[q])
          /\ ForkBad(p)
          /\ np' = [np EXCEPT ![p] = None] /\ page' = [page EXCEPT ![p] = 0]
          /\ UNCHANGED sz
       \/ /\ ~more
          /\ sz' = [sz EXCEPT ![q] = sz[p]]
          /\ pc' = [pc EXCEPT ![p] = "user", ![q] = "user"]
          /\ np' = [np EXCEPT ![p] = None] /\ page' = [page EXCEPT ![p] = 0]
          /\ UNCHANGED <<free, data, cur, kstack>>
    /\ UNCHANGED <<new, killed, img, addr, panic, calls>>

\* exit(), of its own will or because of killed on the way to user space.
Exit(p) ==
    /\ panic = "none" /\ pc[p] = "user" /\ (killed[p] \/ Does(p, "exit"))
    /\ \/ /\ p # InitProc
          /\ pc' = [pc EXCEPT ![p] = "zombie"]
          /\ UNCHANGED panic
       \/ /\ p = InitProc
          /\ panic' = "init exiting"
          /\ UNCHANGED pc
    /\ UNCHANGED <<free, data, cur, new, kstack, sz, killed, page, cvars,
                   calls>>

\* wait() of the parent: kfree() of the stack and freevm().
Reap(p) ==
    /\ panic = "none" /\ pc[p] = "zombie"
    /\ Kfree(Owned(cur[p]) \cup {kstack[p]})
    /\ cur' = [cur EXCEPT ![p] = NoDir]
    /\ kstack' = [kstack EXCEPT ![p] = None]
    /\ killed' = [killed EXCEPT ![p] = FALSE]
    /\ pc' = [pc EXCEPT ![p] = "unused"]
    /\ UNCHANGED <<new, sz, page, cvars, panic, calls>>

----------------------------------------------------------------------------
(* exec()                                                                  *)

\* The page number of the guard page; the stack is the next one.
Guard(m) == PGROUNDUP(m.memsz)

\* setupkvm(), and allocuvm() from size 0, which is lazy.  A program beyond
\* KERNBASE, or no memory for the directory, is refused without effect.
ExecBegin(p, m) ==
    /\ Begins(p, "exec") /\ free # {} /\ m.memsz < KERNBASE
    /\ new' = [new EXCEPT ![p].root = Kalloc]
    /\ free' = free \ {Kalloc}
    /\ pc' = [pc EXCEPT ![p] = "exec_load"]
    /\ page' = [page EXCEPT ![p] = 0]
    /\ img' = [img EXCEPT ![p] = m]
    /\ UNCHANGED <<data, cur, kstack, sz, killed, np, addr, panic>>

\* bad: the old image stays.
ExecBad(p) ==
    /\ Kfree(Owned(new[p]))
    /\ new' = [new EXCEPT ![p] = NoDir]
    /\ Return(p)
    /\ page' = [page EXCEPT ![p] = 0] /\ img' = [img EXCEPT ![p] = None]

\* One turn of loaduvm(), which takes the page table page first; readi() may
\* fail.  After the last one the stack: eager, lazy or out of range.
ExecLoad(p) ==
    LET t == new[p]
        i == page[p]
        m == img[p]
        g == Guard(m)
    IN
    /\ panic = "none" /\ pc[p] = "exec_load"
    /\ \/ /\ i < m.pages /\ Room(t)
          /\ new' = [new EXCEPT ![p] = Mapped(t, i, TRUE)]
          /\ Take(t, 1)
          /\ page' = [page EXCEPT ![p] = i + 1]
          /\ UNCHANGED <<pc, img, panic>>
       \/ /\ i < m.pages /\ t.tab = None /\ free = {}
          /\ panic' = "loaduvm"
          /\ UNCHANGED <<free, data, new, pc, page, img>>
       \/ /\ i < m.pages /\ ~(t.tab = None /\ free = {})
          /\ ExecBad(p) /\ UNCHANGED panic
       \/ /\ i = m.pages /\ (g + 2) * PGSIZE < KERNBASE
          /\ pc' = [pc EXCEPT ![p] = IF Eager(g * PGSIZE, (g + 2) * PGSIZE)
                                     THEN "exec_stack" ELSE "exec_args"]
          /\ page' = [page EXCEPT ![p] = g]
          /\ UNCHANGED <<free, data, new, img, panic>>
       \/ /\ i = m.pages /\ (g + 2) * PGSIZE >= KERNBASE
          /\ ExecBad(p) /\ UNCHANGED panic
    /\ UNCHANGED <<cur, kstack, sz, killed, np, addr, calls>>

\* clearpteu(), and uva2ka() as copyout() uses it.
Clearpteu(t, i) == [t EXCEPT !.user = @ \ {i}]
Uva2ka(t, i) == IF i \in t.user THEN t.pte[i] ELSE None

\* One turn of allocuvm() for the guard page and the stack.
ExecStack(p) ==
    LET t == new[p]  i == page[p] IN
    /\ panic = "none" /\ pc[p] = "exec_stack"
    /\ \/ /\ i < Guard(img[p]) + 2 /\ Room(t)
          /\ new' = [new EXCEPT ![p] = Mapped(t, i, TRUE)]
          /\ Take(t, 0)
          /\ page' = [page EXCEPT ![p] = i + 1]
          /\ UNCHANGED <<pc, img>>
       \/ i < Guard(img[p]) + 2 /\ ~Room(t) /\ ExecBad(p)
       \/ /\ i = Guard(img[p]) + 2
          /\ pc' = [pc EXCEPT ![p] = "exec_args"]
          /\ UNCHANGED <<free, data, new, page, img>>
    /\ UNCHANGED <<cur, kstack, sz, killed, np, addr, panic, calls>>

\* clearpteu() of the guard page, copyout() of the arguments to the stack,
\* which must be there and large enough, and the switch to the new image.
ExecArgs(p) ==
    LET g == Guard(img[p])
        f == Uva2ka(new[p], g + 1)
    IN
    /\ panic = "none" /\ pc[p] = "exec_args"
    /\ \/ ExecBad(p) /\ UNCHANGED <<cur, sz>>
       \/ /\ f # None
          /\ cur' = [cur EXCEPT ![p] = Clearpteu(new[p], g)]
          /\ free' = free \cup Owned(cur[p])
          /\ data' = [h \in Frame |-> IF h = f THEN 1
                                      ELSE IF h \in Owned(cur[p]) THEN Junk
                                      ELSE data[h]]
          /\ sz' = [sz EXCEPT ![p] = (g + 2) * PGSIZE]
          /\ new' = [new EXCEPT ![p] = NoDir]
          /\ Return(p)
          /\ page' = [page EXCEPT ![p] = 0] /\ img' = [img EXCEPT ![p] = None]
    /\ UNCHANGED <<kstack, killed, np, addr, panic, calls>>

----------------------------------------------------------------------------
Halted == panic # "none" /\ UNCHANGED vars

Step(p) ==
    \/ \E a \in 0..(KERNBASE - 1) : Access(p, a) \/ Syscall(p, a)
    \/ Copy(p)
    \/ \E n \in SbrkArgs : SbrkGrow(p, n) \/ SbrkShrink(p, n)
    \/ \E q \in Proc : ForkAlloc(p, q)
    \/ \E m \in Image : ExecBegin(p, m)
    \/ Grow(p) \/ ForkDir(p) \/ ForkPage(p)
    \/ ExecLoad(p) \/ ExecStack(p) \/ ExecArgs(p)
    \/ Exit(p) \/ Reap(p)

Next == (\E p \in Proc : Step(p)) \/ Halted

Spec == Init /\ [][Next]_vars

----------------------------------------------------------------------------
(* Properties                                                              *)

Alive == {p \in Proc : pc[p] \notin {"unused", "embryo", "zombie"}}

\* No page occurs twice in t.
OneToOne(t) ==
    /\ \A i, j \in Page : t.pte[i] # None /\ t.pte[i] = t.pte[j] => i = j
    /\ t.root # None => t.root # t.tab
    /\ {t.root, t.tab} \cap Pages(t) = {}

Mine(p) == Owned(cur[p]) \cup Owned(new[p]) \cup ({kstack[p]} \ {None})

\* Every physical page is on the free list, or belongs to exactly one page
\* table or stack: no path through fork(), exec(), sbrk() or a page fault
\* leaks a page, frees it twice or maps it twice, those that run out of memory
\* half way included.  And no page is mapped at or above p->sz, so that
\* allocuvm() finds the pages it maps absent when the process grows again.
FramesAccounted ==
    /\ free = Frame \ UNION {Mine(p) : p \in Proc}
    /\ \A p, q \in Proc : p # q => Mine(p) \cap Mine(q) = {}
    /\ \A p \in Proc :
        /\ OneToOne(cur[p]) /\ OneToOne(new[p])
        /\ Owned(cur[p]) \cap Owned(new[p]) = {}
        /\ kstack[p] \notin Owned(cur[p]) \cup Owned(new[p])
    /\ \A p \in Alive, i \in Page :
        cur[p].pte[i] # None /\ pc[p] # "grow" => i * PGSIZE < sz[p]

\* Programs see memories of their own, of zeros until written, copied by
\* fork() and replaced by exec(); laziness is invisible.
Spaces == INSTANCE AddressSpaces WITH
    alive <- Alive,
    size <- [p \in Proc |-> IF p \in Alive THEN sz[p] ELSE 0],
    mem <- [p \in Proc |-> [i \in Page |->
                IF p \in Alive /\ cur[p].pte[i] # None
                THEN data[cur[p].pte[i]] ELSE 0]]
ImplementsAddressSpaces == Spaces!Spec
====
