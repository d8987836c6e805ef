-------------------------------- MODULE Fifo --------------------------------
(***************************************************************************)
(* What a pipe promises: what a write() puts in comes out of read()s once  *)
(* and in order, at most Capacity bytes are in between, and nothing is     *)
(* lost while somebody has an end open.                                    *)
(***************************************************************************)
EXTENDS Naturals, Sequences

CONSTANTS Proc, Pipe, Capacity, Message

VARIABLES
    open,               \* the pipe exists
    queue,              \* the bytes in it
    rem,                \* what a process still has to write
    got                 \* what its last read returned

Init ==
    /\ open = [q \in Pipe |-> FALSE] /\ queue = [q \in Pipe |-> <<>>]
    /\ rem = [p \in Proc |-> <<>>] /\ got = [p \in Proc |-> <<>>]

Begin(p, m) ==
    /\ rem[p] = <<>> \/ m = <<>>
    /\ rem' = [rem EXCEPT ![p] = m]
    /\ UNCHANGED <<open, queue, got>>

Send(p, q, k) ==
    /\ open[q] /\ Len(queue[q]) + k <= Capacity
    /\ queue' = [queue EXCEPT ![q] = @ \o SubSeq(rem[p], 1, k)]
    /\ rem' = [rem EXCEPT ![p] = SubSeq(@, k + 1, Len(@))]
    /\ UNCHANGED <<open, got>>

Receive(p, q, k) ==
    /\ open[q]
    /\ got' = [got EXCEPT ![p] = SubSeq(queue[q], 1, k)]
    /\ queue' = [queue EXCEPT ![q] = SubSeq(@, k + 1, Len(@))]
    /\ UNCHANGED <<open, rem>>

\* An empty answer: the end of the file, or a process that was killed.
Nothing(p) ==
    /\ got' = [got EXCEPT ![p] = <<>>]
    /\ UNCHANGED <<open, queue, rem>>

\* pipe(), and the close of the last end.
Toggle(q) ==
    /\ open' = [open EXCEPT ![q] = ~@]
    /\ queue' = [queue EXCEPT ![q] = <<>>]
    /\ UNCHANGED <<rem, got>>

Next ==
    \/ \E p \in Proc :
        \/ \E m \in Message : Begin(p, m)
        \/ Nothing(p)
        \/ \E q \in Pipe :
            \/ \E k \in 0..Len(rem[p]) : Send(p, q, k)
            \/ \E k \in 1..Len(queue[q]) : Receive(p, q, k)
    \/ \E q \in Pipe : Toggle(q)

Spec == Init /\ [][Next]_<<open, queue, rem, got>>
====
