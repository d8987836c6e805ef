------------------------------- MODULE MCProc -------------------------------
(* The process table for TLC.  The cfg files give the programs and bounds. *)
EXTENDS Proc
====
