------------------------------ MODULE Counting ------------------------------
(* What the proofs need to know about the sizes of finite sets: how the    *)
(* size of a subset of T changes with one member, and a bound on the size  *)
(* of a relation.  The steps are proved from these facts, which the last   *)
(* module of each proof derives from the theorems of the library.          *)
EXTENDS Integers, FiniteSets

Counts(T) ==
    \A S \in SUBSET T :
        /\ Cardinality(S) \in Nat
        /\ Cardinality(S) = 0 <=> S = {}
        /\ \A x \in T : x \notin S => Cardinality(S \cup {x}) = Cardinality(S) + 1
        /\ \A x \in S : Cardinality(S \ {x}) = Cardinality(S) - 1

CountsRows(T, U) ==
    \A S \in SUBSET (T \X U), x \in T, W \in SUBSET U :
        Cardinality(S \cup ({x} \X W)) <= Cardinality(S) + Cardinality(W)
====
