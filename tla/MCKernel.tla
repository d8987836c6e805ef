------------------------------ MODULE MCKernel ------------------------------
(* User memory, the buffer cache, spin locks and the console for TLC.  The *)
(* four share no state: a behaviour is one of one part, and the others     *)
(* stay as they are at boot.                                               *)
EXTENDS Vm, Bcache, Spinlock, Console

\* A program of one page, one with a lazy second page whose stack is lazy
\* too, and one that leaves no room for a stack.
Images == {[pages |-> 1, memsz |-> n] : n \in {2, 3, 7}}
Sbrks == {-3, 3, 5}

MCWrites == {<<"a", "newline">>}

\* Two contents for the first block, and one of its own for the others.
BlockContents(n) == IF n = 1 THEN {"new", "old"} ELSE {"other"}

VARIABLE part

kernelVars == <<vars, bcacheVars, spinVars, consoleVars, part>>

KernelInit ==
    /\ part \in {"vm", "bcache", "spin", "console"}
    /\ Init /\ BcacheInit /\ SpinInit /\ ConsoleInit
    /\ part # "bcache" => driver = "ide" /\ disk[1] = "old" /\ buf[1].data = "old"
    /\ part # "spin" => lk = CHOOSE f \in [CPU -> Lock] : TRUE

KernelNext ==
    \/ /\ part = "vm" /\ Next
       /\ UNCHANGED <<bcacheVars, spinVars, consoleVars, part>>
    \/ /\ part = "bcache" /\ BcacheNext
       /\ UNCHANGED <<vars, spinVars, consoleVars, part>>
    \/ /\ part = "spin" /\ SpinNext
       /\ UNCHANGED <<vars, bcacheVars, consoleVars, part>>
    \/ /\ part = "console" /\ ConsoleNext
       /\ UNCHANGED <<vars, bcacheVars, spinVars, part>>

KernelSpec == KernelInit /\ [][KernelNext]_kernelVars /\ BcacheFairness
====
