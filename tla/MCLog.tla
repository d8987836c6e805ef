------------------------------- MODULE MCLog --------------------------------
(* The log for TLC.  The cfg files give the sizes and bounds.              *)
EXTENDS Log
====
