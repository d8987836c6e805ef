------------------------------ MODULE Umalloc ------------------------------
(***************************************************************************)
(* The allocator user programs are linked with, umalloc.c: a circular list *)
(* of free blocks in address order, with a rover, that grows by sbrk().    *)
(*                                                                         *)
(* Addresses count headers.  0 is the static header base, which lies below *)
(* the heap.  A call is one step: a program has one thread.  Memory that   *)
(* is no header any more is blank, since nothing reads it as one.          *)
(***************************************************************************)
EXTENDS Integers, FiniteSets

CONSTANTS
    HeapTop,            \* the highest address sbrk() gives
    MinCore,            \* the 4096 of morecore()
    HeaderSize,         \* sizeof(Header)
    MallocSizes,        \* what programs ask for, in bytes
    OwnSbrk             \* what they ask sbrk() for themselves

Base == 0
Blank == [ptr |-> 0, size |-> 0]
Unset == -1             \* freep before the first malloc()

VARIABLES
    hdr,                \* the header at each address
    freep,
    brk,                \* the first address the program does not have
    given,              \* blocks handed out: address of the header and bytes
    foreign             \* addresses the program got from sbrk() itself

heapVars == <<hdr, freep, brk, given, foreign>>

HeapInit ==
    /\ hdr = [a \in 0..HeapTop |-> Blank]
    /\ freep = Unset /\ brk = 1
    /\ given = {} /\ foreign = {}

\* The loop of free(): the list element after which bp belongs.
RECURSIVE Place(_, _, _)
Place(h, bp, p) ==
    LET next == h[p].ptr IN
    IF \/ bp > p /\ bp < next
       \/ p >= next /\ (bp > p \/ bp < next)
    THEN p ELSE Place(h, bp, next)

\* The block at bp with what follows it, when that is the next free one.
Joined(h, bp, next) ==
    IF bp + h[bp].size = next
    THEN [h EXCEPT ![bp] = [size |-> @.size + h[next].size, ptr |-> h[next].ptr],
                   ![next] = Blank]
    ELSE [h EXCEPT ![bp].ptr = next]

\* free() of the block with its header at bp.
FreeAt(h, fp, bp) ==
    LET p == Place(h, bp, fp)
        up == Joined(h, bp, h[p].ptr)
    IN [h |-> IF p + h[p].size = bp
              THEN [up EXCEPT ![p] = [size |-> @.size + up[bp].size, ptr |-> up[bp].ptr],
                              ![bp] = Blank]
              ELSE [up EXCEPT ![p].ptr = bp],
        freep |-> p]

\* The loop of malloc() from prevp on: the element before one that is large
\* enough, or Unset when it is back at freep.
RECURSIVE Fit(_, _, _, _)
Fit(h, fp, prevp, n) ==
    LET p == h[prevp].ptr IN
    IF h[p].size >= n THEN prevp
    ELSE IF p = fp THEN Unset
    ELSE Fit(h, fp, p, n)

\* Variant: a block that fits exactly stays in the list.
Carve_Keeps(h, prevp, n) ==
    LET p == h[prevp].ptr IN
    [h |-> [h EXCEPT ![p].size = @ - n, ![p + h[p].size - n].size = n],
     at |-> p + h[p].size - n]

\* Unlinking the element after prevp, or taking its tail.
Carve(h, prevp, n) ==
    LET p == h[prevp].ptr IN
    IF h[p].size = n THEN [h |-> [h EXCEPT ![prevp].ptr = h[p].ptr, ![p].ptr = 0], at |-> p]
    ELSE [h |-> [h EXCEPT ![p].size = @ - n, ![p + h[p].size - n].size = n],
          at |-> p + h[p].size - n]

\* Headers for a request, its own included.
Nunits(nbytes) == (nbytes + HeaderSize - 1) \div HeaderSize + 1

Given(h, prevp, nbytes) ==
    LET c == Carve(h, prevp, Nunits(nbytes)) IN
    /\ hdr' = c.h /\ freep' = prevp
    /\ given' = given \cup {[at |-> c.at, bytes |-> nbytes]}
    /\ UNCHANGED foreign

Malloc(nbytes) ==
    LET n == Nunits(nbytes)
        nu == IF n < MinCore THEN MinCore ELSE n
        fp == IF freep = Unset THEN Base ELSE freep
        prevp == Fit(hdr, fp, fp, n)
        more == FreeAt([hdr EXCEPT ![brk].size = nu], fp, brk)
    IN
    \/ prevp # Unset /\ Given(hdr, prevp, nbytes) /\ UNCHANGED brk
    \/ /\ prevp = Unset /\ brk + nu - 1 <= HeapTop          \* morecore()
       /\ Given(more.h, Fit(more.h, more.freep, more.freep, n), nbytes)
       /\ brk' = brk + nu
    \/ /\ prevp = Unset /\ brk + nu - 1 > HeapTop           \* sbrk() fails
       /\ freep' = fp
       /\ UNCHANGED <<hdr, brk, given, foreign>>

Free(b) ==
    LET r == FreeAt(hdr, freep, b.at) IN
    /\ hdr' = r.h /\ freep' = r.freep
    /\ given' = given \ {b}
    /\ UNCHANGED <<brk, foreign>>

\* The program calls sbrk() itself, so what morecore() gets next does not
\* follow what it has.
Sbrk(k) ==
    /\ brk + k - 1 <= HeapTop
    /\ brk' = brk + k
    /\ foreign' = foreign \cup brk..(brk + k - 1)
    /\ UNCHANGED <<hdr, freep, given>>

HeapNext ==
    \/ \E nbytes \in MallocSizes : Malloc(nbytes)
    \/ \E b \in given : Free(b)
    \/ \E k \in OwnSbrk : Sbrk(k)

HeapSpec == HeapInit /\ [][HeapNext]_heapVars

----------------------------------------------------------------------------
(* Properties                                                              *)

\* The elements of the free list, from p on.
RECURSIVE FreeList(_, _)
FreeList(p, seen) == IF p \in seen THEN seen ELSE FreeList(hdr[p].ptr, seen \cup {p})
FreeBlocks == IF freep = Unset THEN {} ELSE FreeList(freep, {})

Extent(a) == a..(a + hdr[a].size - 1)

\* Every address of the heap is in exactly one free block, one block handed
\* out or one piece of the program's own, through every split and join; and a
\* block handed out keeps its header, and has room for what was asked after it.
\* The list is one circle through base in address order, and two free blocks
\* never touch: free() has joined them, whichever order they came back in and
\* wherever the rover was.
HeapTiled ==
    LET taken == {b.at : b \in given}
        all == FreeBlocks \cup taken
    IN
    /\ FreeBlocks \cap taken = {}
    /\ \A a \in all, c \in all : a # c => Extent(a) \cap Extent(c) = {}
    /\ UNION {Extent(a) : a \in all} = (1..(brk - 1)) \ foreign
    /\ \A b \in given : (hdr[b.at].size - 1) * HeaderSize >= b.bytes
    /\ freep # Unset =>
        /\ Base \in FreeBlocks
        /\ Cardinality({a \in FreeBlocks : hdr[a].ptr <= a}) = 1
        /\ \A a \in FreeBlocks \ {Base} : hdr[a].size > 0 /\ a + hdr[a].size \notin FreeBlocks
====
