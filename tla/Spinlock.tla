------------------------------ MODULE Spinlock ------------------------------
(***************************************************************************)
(* Spin locks and interrupts: acquire(), release(), holding(), pushcli()   *)
(* and popcli() of spinlock.c on several CPUs.  Each CPU runs kernel code  *)
(* that takes locks in increasing order, with interrupts on, and an        *)
(* interrupt handler that takes the same locks.                            *)
(*                                                                         *)
(* Grain.  A step reads or writes one word another CPU can see.  pushcli() *)
(* and popcli() touch only their own CPU and take one step; the pair       *)
(* inside holding() runs with interrupts off and changes nothing.          *)
(***************************************************************************)
EXTENDS Integers, FiniteSets

CONSTANTS CPU, Lock, NoCPU

ASSUME SpinAssumption ==
    NoCPU \notin CPU /\ Lock \subseteq Nat /\ IsFiniteSet(Lock)

VARIABLES
    locked, owner,      \* lk->locked and lk->cpu
    FL_IF,              \* interrupts are on, on each CPU
    ncli, intena,       \* of struct cpu
    intr,               \* the CPU is in an interrupt handler
    at, lk,             \* the step it is at, and the lock it works on
    held,               \* the locks its code has acquired and not released
    halted              \* panic()

spinVars == <<locked, owner, FL_IF, ncli, intena, intr, at, lk, held, halted>>

SpinPoints == {"run", "check", "spin", "set", "clear", "unlock", "pop"}

SpinTypeOK ==
    /\ locked \in [Lock -> BOOLEAN] /\ owner \in [Lock -> CPU \cup {NoCPU}]
    /\ FL_IF \in [CPU -> BOOLEAN] /\ ncli \in [CPU -> Nat]
    /\ intena \in [CPU -> BOOLEAN] /\ intr \in [CPU -> BOOLEAN]
    /\ at \in [CPU -> SpinPoints] /\ lk \in [CPU -> Lock]
    /\ held \in [CPU -> SUBSET Lock] /\ halted \in BOOLEAN

\* initlock() of every lock.
SpinInit ==
    /\ locked = [l \in Lock |-> FALSE] /\ owner = [l \in Lock |-> NoCPU]
    /\ FL_IF = [c \in CPU |-> TRUE] /\ ncli = [c \in CPU |-> 0]
    /\ intena = [c \in CPU |-> FALSE] /\ intr = [c \in CPU |-> FALSE]
    /\ at = [c \in CPU |-> "run"] /\ lk \in [CPU -> Lock]
    /\ held = [c \in CPU |-> {}] /\ halted = FALSE

Goto(c, point) == at' = [at EXCEPT ![c] = point]

\* Variant: interrupts stay on.
Pushcli_NoCli(c) ==
    /\ intena' = IF ncli[c] = 0 THEN [intena EXCEPT ![c] = FL_IF[c]] ELSE intena
    /\ ncli' = [ncli EXCEPT ![c] = @ + 1]
    /\ UNCHANGED FL_IF

Pushcli(c) ==
    /\ FL_IF' = [FL_IF EXCEPT ![c] = FALSE]
    /\ intena' = IF ncli[c] = 0 THEN [intena EXCEPT ![c] = FL_IF[c]] ELSE intena
    /\ ncli' = [ncli EXCEPT ![c] = @ + 1]

\* Variant: the outermost popcli() always turns interrupts on.
Popcli_Sti(c) ==
    /\ halted' = (FL_IF[c] \/ ncli[c] = 0)
    /\ ncli' = [ncli EXCEPT ![c] = @ - 1]
    /\ FL_IF' = [FL_IF EXCEPT ![c] = @ \/ ncli[c] = 1]
    /\ UNCHANGED intena

\* popcli(), with its two panics.
Popcli(c) ==
    /\ halted' = (FL_IF[c] \/ ncli[c] = 0)
    /\ ncli' = [ncli EXCEPT ![c] = @ - 1]
    /\ FL_IF' = [FL_IF EXCEPT ![c] = @ \/ (ncli[c] = 1 /\ intena[c])]
    /\ UNCHANGED intena

Holding(c) == locked[lk[c]] /\ owner[lk[c]] = c

\* acquire(): the call, up to pushcli().
Acquire(c, l) ==
    /\ at[c] = "run" /\ \A m \in held[c] : m < l
    /\ Pushcli(c) /\ lk' = [lk EXCEPT ![c] = l]
    /\ Goto(c, "check")
    /\ UNCHANGED <<locked, owner, intr, held, halted>>

\* panic("acquire"), if the lock is its own already.
AcquireCheck(c) ==
    /\ at[c] = "check"
    /\ halted' = Holding(c)
    /\ Goto(c, "spin")
    /\ UNCHANGED <<locked, owner, FL_IF, ncli, intena, intr, lk, held>>

\* Variant: the word is read and written separately.
Xchg_Plain(c) ==
    /\ at[c] = "spin"
    /\ locked' = [locked EXCEPT ![lk[c]] = TRUE]
    /\ Goto(c, "set")
    /\ UNCHANGED <<owner, FL_IF, ncli, intena, intr, lk, held, halted>>

\* The xchg that finds the lock free; the others change nothing.
Xchg(c) ==
    /\ at[c] = "spin" /\ ~locked[lk[c]]
    /\ locked' = [locked EXCEPT ![lk[c]] = TRUE]
    /\ Goto(c, "set")
    /\ UNCHANGED <<owner, FL_IF, ncli, intena, intr, lk, held, halted>>

\* lk->cpu = mycpu(), and the caller enters its critical section.
AcquireSet(c) ==
    /\ at[c] = "set"
    /\ owner' = [owner EXCEPT ![lk[c]] = c]
    /\ held' = [held EXCEPT ![c] = @ \cup {lk[c]}]
    /\ Goto(c, "run")
    /\ UNCHANGED <<locked, FL_IF, ncli, intena, intr, lk, halted>>

\* release(): the call leaves the critical section, and holding() is asked.
Release(c, l) ==
    /\ at[c] = "run" /\ l \in held[c]
    /\ lk' = [lk EXCEPT ![c] = l]
    /\ held' = [held EXCEPT ![c] = @ \ {l}]
    /\ Goto(c, "clear")
    /\ UNCHANGED <<locked, owner, FL_IF, ncli, intena, intr, halted>>

\* panic("release") or lk->cpu = 0.
ReleaseClear(c) ==
    /\ at[c] = "clear"
    /\ halted' = ~Holding(c)
    /\ owner' = [owner EXCEPT ![lk[c]] = NoCPU]
    /\ Goto(c, "unlock")
    /\ UNCHANGED <<locked, FL_IF, ncli, intena, intr, lk, held>>

ReleaseUnlock(c) ==
    /\ at[c] = "unlock"
    /\ locked' = [locked EXCEPT ![lk[c]] = FALSE]
    /\ Goto(c, "pop")
    /\ UNCHANGED <<owner, FL_IF, ncli, intena, intr, lk, held, halted>>

ReleasePop(c) ==
    /\ at[c] = "pop"
    /\ Popcli(c)
    /\ Goto(c, "run")
    /\ UNCHANGED <<locked, owner, intr, lk, held>>

\* An interrupt: the gate turns interrupts off, iret on again.
Interrupt(c) ==
    /\ FL_IF[c] /\ ~intr[c]
    /\ at[c] = "run"
    /\ intr' = [intr EXCEPT ![c] = TRUE]
    /\ FL_IF' = [FL_IF EXCEPT ![c] = FALSE]
    /\ UNCHANGED <<locked, owner, ncli, intena, at, lk, held, halted>>

Iret(c) ==
    /\ intr[c] /\ at[c] = "run" /\ held[c] = {}
    /\ intr' = [intr EXCEPT ![c] = FALSE]
    /\ FL_IF' = [FL_IF EXCEPT ![c] = TRUE]
    /\ UNCHANGED <<locked, owner, ncli, intena, at, lk, held, halted>>

SpinStep(c) ==
    /\ ~halted
    /\ \/ \E l \in Lock : Acquire(c, l) \/ Release(c, l)
       \/ AcquireCheck(c) \/ Xchg(c) \/ AcquireSet(c)
       \/ ReleaseClear(c) \/ ReleaseUnlock(c) \/ ReleasePop(c)
       \/ Interrupt(c) \/ Iret(c)

SpinNext == \E c \in CPU : SpinStep(c)

SpinSpec == SpinInit /\ [][SpinNext]_spinVars

----------------------------------------------------------------------------
(* Properties                                                              *)

\* Two CPUs are never between acquire() and release() of one lock, from the
\* xchg to the store that frees it.
Has(c, l) == l \in held[c] \/ (lk[c] = l /\ at[c] \in {"set", "clear", "unlock"})
MutualExclusion ==
    \A c, d \in CPU, l \in Lock : Has(c, l) /\ Has(d, l) => c = d

\* None of the panics of spinlock.c is reached by callers that release what
\* they acquired: holding() reads two words without a lock and is never
\* misled, and no interrupt handler meets a lock of its own CPU.
NoPanic == ~halted

\* Interrupts are off while a CPU has a lock, and when it has released the
\* last one they are as they were before the first: on in ordinary code, off
\* in a handler.
FlagRestored ==
    \A c \in CPU :
        /\ \A l \in Lock : Has(c, l) => ~FL_IF[c]
        /\ at[c] = "run" /\ held[c] = {} => FL_IF[c] = ~intr[c]
====
