--------------------------- MODULE AddressSpaces ----------------------------
(***************************************************************************)
(* What the memory system promises to programs: every process has a memory *)
(* of its own, of zeros until it is written, that fork() copies and exec() *)
(* replaces.  Which pages exist physically is not visible.                 *)
(***************************************************************************)
EXTENDS Naturals

CONSTANTS Proc, InitProc, Page, PGSIZE, KERNBASE, Image

VARIABLES
    alive,      \* processes that exist
    size,       \* p->sz
    mem         \* content of each page of each process: 0 zeros, 1 data

avars == <<alive, size, mem>>

Zero == [i \in Page |-> 0]

\* Addresses below n take these pages.
PagesBelow(n) == {i \in Page : i * PGSIZE < n}

Init ==
    /\ alive = {InitProc}
    /\ size = [p \in Proc |-> IF p = InitProc THEN PGSIZE ELSE 0]
    /\ mem = [p \in Proc |-> IF p = InitProc THEN [Zero EXCEPT ![0] = 1]
                                             ELSE Zero]

Store(p, i) ==
    /\ p \in alive /\ i \in PagesBelow(size[p])
    /\ mem' = [mem EXCEPT ![p][i] = 1]
    /\ UNCHANGED <<alive, size>>

\* sbrk(): what is given back is lost, what is new is zero.
Resize(p, n) ==
    /\ p \in alive
    /\ size' = [size EXCEPT ![p] = n]
    /\ mem' = [mem EXCEPT ![p] =
                [i \in Page |-> IF i \in PagesBelow(n) THEN @[i] ELSE 0]]
    /\ UNCHANGED alive

\* sbrk() to nothing at all: an error that costs the process its memory.
Clear(p) ==
    /\ p \in alive
    /\ mem' = [mem EXCEPT ![p] = Zero]
    /\ UNCHANGED <<alive, size>>

Fork(p, q) ==
    /\ p \in alive /\ q \notin alive
    /\ alive' = alive \cup {q}
    /\ size' = [size EXCEPT ![q] = size[p]]
    /\ mem' = [mem EXCEPT ![q] = mem[p]]

\* The pages of the file, zeros, the guard page and the arguments.
Exec(p, m) ==
    LET top == (m.memsz + PGSIZE - 1) \div PGSIZE + 1 IN
    /\ p \in alive
    /\ size' = [size EXCEPT ![p] = (top + 1) * PGSIZE]
    /\ mem' = [mem EXCEPT ![p] =
                [i \in Page |-> IF i < m.pages \/ i = top THEN 1 ELSE 0]]
    /\ UNCHANGED alive

Exit(p) ==
    /\ p \in alive
    /\ alive' = alive \ {p}
    /\ size' = [size EXCEPT ![p] = 0]
    /\ mem' = [mem EXCEPT ![p] = Zero]

Next ==
    \E p \in Proc :
        \/ \E i \in Page : Store(p, i)
        \/ \E n \in 0..KERNBASE : Resize(p, n)
        \/ \E q \in Proc : Fork(p, q)
        \/ \E m \in Image : Exec(p, m)
        \/ Clear(p) \/ Exit(p)

Spec == Init /\ [][Next]_avars
====
