----------------------------- MODULE AtomicDisk -----------------------------
(***************************************************************************)
(* What log.c promises to the file system: the blocks as the system calls  *)
(* see them (mem), the blocks a reboot would find (durable), and the       *)
(* processes inside a transaction (active).  A crash undoes whole          *)
(* transactions only: durable is always some earlier value mem had while   *)
(* nobody was between begin_op() and end_op().                             *)
(***************************************************************************)
CONSTANTS Proc, Block, Data, FirstData

VARIABLES mem, durable, active

avars == <<mem, durable, active>>

Init ==
    /\ mem = [b \in Block |-> FirstData]
    /\ durable = mem
    /\ active = {}

Begin(p) ==
    /\ p \notin active
    /\ active' = active \cup {p}
    /\ UNCHANGED <<mem, durable>>

Write(p, b, v) ==
    /\ p \in active
    /\ mem' = [mem EXCEPT ![b] = v]
    /\ UNCHANGED <<durable, active>>

End(p) ==
    /\ p \in active
    /\ active' = active \ {p}
    /\ UNCHANGED <<mem, durable>>

Commit ==
    /\ active = {}
    /\ durable' = mem
    /\ UNCHANGED <<mem, active>>

Crash ==
    /\ mem' = durable
    /\ active' = {}
    /\ UNCHANGED durable

Next ==
    \/ \E p \in Proc : Begin(p) \/ End(p)
    \/ \E p \in Proc, b \in Block, v \in Data : Write(p, b, v)
    \/ Commit \/ Crash

Spec == Init /\ [][Next]_avars
====
