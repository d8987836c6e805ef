------------------------------- MODULE MCPrio -------------------------------
(* The process table with a history variable: the priority setpriority()   *)
(* last gave each process, 0 when nobody set it.                           *)
EXTENDS Proc

VARIABLE asked

hvars == <<vars, asked>>

HInit == Init /\ asked = [p \in Slot |-> 0]

\* A successful setpriority() on slot q records its argument.
Ask ==
    \E c \in CPU, n \in PrioPids, v \in 0..(MAX_PRIORITY + 1) :
        /\ SetPriority(c, n, v)
        /\ asked' = [q \in Slot |->
                        IF q \in WithPid(n) /\ v \in MIN_PRIORITY..MAX_PRIORITY
                        THEN v ELSE asked[q]]

\* Every other step; a slot that changes hands forgets the request.
Other ==
    /\ Next
    /\ \A p \in Slot : at[p] = "setpriority" => at'[p] = "setpriority"
    /\ asked' = [q \in Slot |-> IF pid'[q] # pid[q] THEN 0 ELSE asked[q]]

HSpec == HInit /\ [][Ask \/ Other]_hvars

\* Once setpriority() has returned 0 for a process, its priority is the one
\* requested or, by aging, a higher one, until the next setpriority().
RequestedPriorityKept ==
    \A p \in Slot : asked[p] # 0 => priority[p] >= asked[p]
====
