----------------------------- MODULE BlockStore -----------------------------
(***************************************************************************)
(* What the buffer cache promises to the file system: a disk whose blocks  *)
(* are used by one process at a time and change only by that process.      *)
(* Buffers, requests and interrupts are not visible.                       *)
(***************************************************************************)
CONSTANTS Proc, Block, Data, None

VARIABLES content, holder

Init ==
    /\ content \in [Block -> Data]
    /\ holder = [n \in Block |-> None]

Take(p, n) ==
    /\ holder[n] = None
    /\ holder' = [holder EXCEPT ![n] = p]
    /\ UNCHANGED content

Change(p, n, v) ==
    /\ holder[n] = p
    /\ content' = [content EXCEPT ![n] = v]
    /\ UNCHANGED holder

Give(p, n) ==
    /\ holder[n] = p
    /\ holder' = [holder EXCEPT ![n] = None]
    /\ UNCHANGED content

Next ==
    \E p \in Proc, n \in Block :
        Take(p, n) \/ Give(p, n) \/ \E v \in Data : Change(p, n, v)

Spec == Init /\ [][Next]_<<content, holder>>
====
