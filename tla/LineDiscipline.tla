--------------------------- MODULE LineDiscipline ---------------------------
(***************************************************************************)
(* What the console promises a reader: lines that can be edited until they *)
(* are complete, in the order they were typed, one line at most per read.  *)
(***************************************************************************)
EXTENDS Integers, Sequences, SequencesExt

CONSTANTS
    Size,               \* characters it keeps for readers
    Text, Ends          \* ordinary characters, and those that end a line

VARIABLES
    ready,              \* lines for readers
    editing             \* the line being typed

Init == ready = <<>> /\ editing = <<>>

\* A line is complete at its end, or when nothing more fits.
Type(c) ==
    LET line == Append(editing, c) IN
    /\ Len(ready) + Len(editing) < Size
    /\ IF c \in Ends \/ Len(ready) + Len(line) = Size
       THEN ready' = ready \o line /\ editing' = <<>>
       ELSE editing' = line /\ UNCHANGED ready

Erase == editing # <<>> /\ editing' = Front(editing) /\ UNCHANGED ready

KillLine == editing' = <<>> /\ UNCHANGED ready

\* A reader takes characters, up to the end of a line.
Take(k) ==
    /\ \A i \in 1..(k - 1) : ready[i] \notin Ends
    /\ ready' = SubSeq(ready, k + 1, Len(ready))
    /\ UNCHANGED editing

Next ==
    \/ \E c \in Text \cup Ends : Type(c)
    \/ Erase \/ KillLine
    \/ \E k \in 1..Len(ready) : Take(k)

Spec == Init /\ [][Next]_<<ready, editing>>
====
