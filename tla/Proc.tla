-------------------------------- MODULE Proc --------------------------------
(***************************************************************************)
(* The process table of proc.c: the life of a process (fork, exit, wait,   *)
(* kill, sleep, wakeup), the per-CPU priority scheduler with aging, the    *)
(* setpriority and sleep system calls of sysproc.c and the timer interrupt *)
(* of trap.c.                                                              *)
(*                                                                         *)
(* Grain.  A critical section of ptable.lock is one step, except that the  *)
(* lock is a variable and stays held across swtch(): the scheduler takes   *)
(* it and the process it switches to releases it, and the reverse.  What   *)
(* the code does without the lock (most of fork, the reads of killed) is   *)
(* a step of its own, so it interleaves with the other CPUs.               *)
(***************************************************************************)
EXTENDS Integers, FiniteSets

CONSTANTS
    NPROC,              \* slots of ptable.proc
    NCPU,               \* CPUs; CPU 1 is the one with cpuid() = 0
    MIN_PRIORITY, MAX_PRIORITY, AGING_THRESHOLD,
    DEFAULT_PRIORITY,   \* the literal 3 of allocproc
    TickMod,            \* ticks is a uint: 2^32 in the code
    InitCalls,          \* what the program of initproc does, of Calls below
    UserCalls,          \* what every other program does
    KillPids,           \* arguments of kill()
    PrioPids,           \* first arguments of setpriority()
    SleepArgs,          \* arguments of sleep(), as the uint they become
    MaxPid              \* bound: no fork() once nextpid passes it

\* "fault" is any exception the program raises in user space.
Calls == {"fork", "wait", "exit", "kill", "setpriority", "sleep", "fault"}

ASSUME ProcAssumption ==
    /\ NPROC \in Nat \ {0} /\ NCPU \in Nat \ {0}
    /\ MIN_PRIORITY \in Nat \ {0} /\ MAX_PRIORITY \in Nat
    /\ DEFAULT_PRIORITY \in MIN_PRIORITY..MAX_PRIORITY
    /\ AGING_THRESHOLD \in Nat \ {0}
    /\ TickMod \in Nat \ {0}
    /\ InitCalls \subseteq Calls /\ UserCalls \subseteq Calls
    /\ KillPids \subseteq Nat /\ PrioPids \subseteq Nat
    /\ SleepArgs \subseteq 0..(TickMod - 1)
    /\ MaxPid \in Nat

Slot == 1..NPROC
CPU == 1..NCPU
None == 0                   \* the null pointer, no CPU, no channel
InitProc == 1               \* allocproc gives userinit the first slot
TicksChan == NPROC + 1      \* &ticks; a process is the channel of its wait()

States == {"UNUSED", "EMBRYO", "SLEEPING", "RUNNABLE", "RUNNING", "ZOMBIE"}

\* Where the kernel thread of a process stands (its saved context, or the
\* code it is running).
Points ==
    {"none", "forkret", "user", "ret", "dead",
     "fork", "fork_kstack", "fork_copy", "fork_run",
     "wait", "wait_slept", "exit", "kill", "setpriority",
     "sleep", "sleep_lk", "sleep_slept", "sleep_again"}

VARIABLES
    state, pid, parent, chan, killed, priority, ticks_waiting,
    kstack,         \* does the slot own a kernel stack
    at,             \* the Point of each process
    child,          \* np of a fork() in progress
    ticks0, want,   \* locals of sys_sleep: ticks at the call, n
    nextpid, ticks,
    lock,           \* ptable.lock: the CPU that holds it, or None
    tickslock,      \* likewise
    proc,           \* c->proc
    intr,           \* CPU c is in trap() for a timer tick, not yet at yield()
    panicked        \* some CPU called panic()

pvars == <<state, pid, parent, chan, killed, priority, ticks_waiting, kstack>>
lvars == <<at, child, ticks0, want>>
vars == <<state, pid, parent, chan, killed, priority, ticks_waiting, kstack,
          at, child, ticks0, want, nextpid, ticks, lock, tickslock, proc,
          intr, panicked>>

TypeOK ==
    /\ state \in [Slot -> States]
    /\ pid \in [Slot -> Nat]
    /\ parent \in [Slot -> Slot \cup {None}]
    /\ chan \in [Slot -> 0..TicksChan]
    /\ killed \in [Slot -> BOOLEAN]
    /\ priority \in [Slot -> 0..MAX_PRIORITY]
    /\ ticks_waiting \in [Slot -> 0..AGING_THRESHOLD]
    /\ kstack \in [Slot -> BOOLEAN]
    /\ at \in [Slot -> Points]
    /\ child \in [Slot -> Slot \cup {None}]
    /\ ticks0 \in [Slot -> 0..(TickMod - 1)]
    /\ want \in [Slot -> Nat]
    /\ nextpid \in Nat \ {0}
    /\ ticks \in 0..(TickMod - 1)
    /\ lock \in CPU \cup {None}
    /\ tickslock \in CPU \cup {None}
    /\ proc \in [CPU -> Slot \cup {None}]
    /\ intr \in [CPU -> BOOLEAN]
    /\ panicked \in BOOLEAN

\* The state main() leaves: userinit made initproc RUNNABLE, every CPU is
\* about to enter scheduler().
Init ==
    /\ state = [p \in Slot |-> IF p = InitProc THEN "RUNNABLE" ELSE "UNUSED"]
    /\ pid = [p \in Slot |-> IF p = InitProc THEN 1 ELSE 0]
    /\ parent = [p \in Slot |-> None]
    /\ chan = [p \in Slot |-> None]
    /\ killed = [p \in Slot |-> FALSE]
    /\ priority = [p \in Slot |-> IF p = InitProc THEN DEFAULT_PRIORITY ELSE 0]
    /\ ticks_waiting = [p \in Slot |-> 0]
    /\ kstack = [p \in Slot |-> p = InitProc]
    /\ at = [p \in Slot |-> IF p = InitProc THEN "forkret" ELSE "none"]
    /\ child = [p \in Slot |-> None]
    /\ ticks0 = [p \in Slot |-> 0]
    /\ want = [p \in Slot |-> 0]
    /\ nextpid = 2
    /\ ticks = 0
    /\ lock = None
    /\ tickslock = None
    /\ proc = [c \in CPU |-> None]
    /\ intr = [c \in CPU |-> FALSE]
    /\ panicked = FALSE

----------------------------------------------------------------------------
(* Helpers                                                                 *)

\* The element of a set of slots that a scan of the table meets first.
First(S) == {p \in S : \A q \in S : p <= q}

\* wakeup1() for every channel in chs, on the states st.
Wakeup1(st, chs) ==
    [q \in Slot |-> IF st[q] = "SLEEPING" /\ chan[q] \in chs
                    THEN "RUNNABLE" ELSE st[q]]

\* Process p is executing its own code on CPU c: switched in, ptable.lock
\* released, not interrupted.
Executes(c, p) ==
    /\ ~panicked
    /\ p # None /\ proc[c] = p /\ lock # c /\ ~intr[c]

\* Control of p moves on.
Goto(p, point) == at' = [at EXCEPT ![p] = point]

----------------------------------------------------------------------------
(* scheduler()                                                             *)

\* Variant of Ages: without aging.
Ages_Never(p) == FALSE

\* Phase 1 of a pass.  ticks_waiting saturates at AGING_THRESHOLD: beyond it
\* the code only compares the counter with the threshold.
Ages(p) ==
    /\ state[p] = "RUNNABLE"
    /\ ticks_waiting[p] + 1 >= AGING_THRESHOLD
    /\ priority[p] < MAX_PRIORITY

AgedPriority ==
    [p \in Slot |-> IF Ages(p) THEN priority[p] + 1 ELSE priority[p]]

AgedTicks ==
    [p \in Slot |-> IF Ages(p) THEN 0
                    ELSE IF /\ state[p] = "RUNNABLE"
                            /\ ticks_waiting[p] < AGING_THRESHOLD
                         THEN ticks_waiting[p] + 1
                         ELSE ticks_waiting[p]]

\* Variant: max_prio is never updated, so the last RUNNABLE slot wins.
Chosen_Last(prio) ==
    LET R == {p \in Slot : state[p] = "RUNNABLE" /\ prio[p] > MIN_PRIORITY - 1}
    IN  {p \in R : \A q \in R : q <= p}

\* Phase 2: the first RUNNABLE slot with the highest priority.
Chosen(prio) ==
    LET R == {p \in Slot : state[p] = "RUNNABLE" /\ prio[p] > MIN_PRIORITY - 1}
    IN  First({p \in R : \A q \in R : prio[q] <= prio[p]})

\* One pass of the loop, up to swtch(); the lock stays held.  A pass that
\* finds no RUNNABLE process changes nothing.
Schedule(c) ==
    /\ ~panicked
    /\ proc[c] = None /\ lock = None
    /\ priority' = AgedPriority
    /\ ticks_waiting' = AgedTicks
    /\ \E p \in Chosen(AgedPriority) :
        /\ proc' = [proc EXCEPT ![c] = p]
        /\ state' = [state EXCEPT ![p] = "RUNNING"]
    /\ lock' = c
    /\ UNCHANGED <<pid, parent, chan, killed, kstack, lvars, nextpid, ticks,
                   tickslock, intr, panicked>>

\* swtch() came back: the tail of the loop body.
SchedulerBack(c) ==
    /\ ~panicked
    /\ proc[c] # None /\ lock = c /\ state[proc[c]] # "RUNNING"
    /\ proc' = [proc EXCEPT ![c] = None]
    /\ lock' = None
    /\ UNCHANGED <<pvars, lvars, nextpid, ticks, tickslock, intr, panicked>>

----------------------------------------------------------------------------
(* wait()                                                                  *)

Kids(p) == {q \in Slot : parent[q] = p}
Zombies(p) == {q \in Kids(p) : state[q] = "ZOMBIE"}

\* One turn of the loop of wait(), with ptable.lock held by c.  Sleeping
\* leaves the lock to the scheduler of c.
WaitTurn(c, p) ==
    \/ \E q \in First(Zombies(p)) :
        /\ kstack' = [kstack EXCEPT ![q] = FALSE]
        /\ pid' = [pid EXCEPT ![q] = 0]
        /\ parent' = [parent EXCEPT ![q] = None]
        /\ killed' = [killed EXCEPT ![q] = FALSE]
        /\ state' = [state EXCEPT ![q] = "UNUSED"]
        /\ at' = [at EXCEPT ![q] = "none", ![p] = "ret"]
        /\ chan' = [chan EXCEPT ![p] = None]
        /\ lock' = None
    \/ /\ Zombies(p) = {}
       /\ Kids(p) = {} \/ killed[p]
       /\ Goto(p, "ret")
       /\ chan' = [chan EXCEPT ![p] = None]
       /\ lock' = None
       /\ UNCHANGED <<state, pid, parent, killed, kstack>>
    \/ /\ Zombies(p) = {}
       /\ Kids(p) # {} /\ ~killed[p]
       /\ chan' = [chan EXCEPT ![p] = p]
       /\ state' = [state EXCEPT ![p] = "SLEEPING"]
       /\ Goto(p, "wait_slept")
       /\ lock' = c
       /\ UNCHANGED <<pid, parent, killed, kstack>>

Wait(c) ==
    LET p == proc[c] IN
    /\ Executes(c, p) /\ at[p] = "wait"
    /\ lock = None
    /\ WaitTurn(c, p)
    /\ UNCHANGED <<priority, ticks_waiting, child, ticks0, want, nextpid,
                   ticks, tickslock, proc, intr, panicked>>

----------------------------------------------------------------------------
(* The process the scheduler switched to continues where it left off, with *)
(* ptable.lock held by its CPU: forkret(), the end of yield(), the end of  *)
(* sleep(), or the panic at the end of exit().                             *)

SwitchedIn(c) ==
    /\ ~panicked
    /\ proc[c] # None /\ lock = c /\ state[proc[c]] = "RUNNING"

ResumeWait(c) ==
    LET p == proc[c] IN
    /\ SwitchedIn(c) /\ at[p] = "wait_slept"
    /\ WaitTurn(c, p)
    /\ UNCHANGED <<priority, ticks_waiting, child, ticks0, want, nextpid,
                   ticks, tickslock, proc, intr, panicked>>

Resume(c) ==
    LET p == proc[c] IN
    /\ SwitchedIn(c) /\ at[p] \notin {"wait_slept", "dead"}
    /\ lock' = None
    /\ Goto(p, CASE at[p] = "forkret" -> "user"
                 [] at[p] = "sleep_slept" -> "sleep_again"
                 [] OTHER -> at[p])
    /\ chan' = IF at[p] = "sleep_slept" THEN [chan EXCEPT ![p] = None] ELSE chan
    /\ UNCHANGED <<state, pid, parent, killed, priority, ticks_waiting, kstack,
                   child, ticks0, want, nextpid, ticks, tickslock, proc, intr,
                   panicked>>

----------------------------------------------------------------------------
(* trap()                                                                  *)

\* A timer interrupt on a CPU that holds no lock.  CPU 1 advances ticks and
\* wakes the sleepers; a CPU that runs a process then goes on to TimerYield.
TimerIntr(c) ==
    /\ ~panicked
    /\ ~intr[c] /\ lock # c /\ tickslock # c
    /\ IF c = 1
       THEN /\ lock = None /\ tickslock = None
            /\ ticks' = (ticks + 1) % TickMod
            /\ state' = Wakeup1(state, {TicksChan})
       ELSE UNCHANGED <<ticks, state>>
    /\ intr' = [intr EXCEPT ![c] = proc[c] # None]
    /\ UNCHANGED <<pid, parent, chan, killed, priority, ticks_waiting, kstack,
                   lvars, nextpid, lock, tickslock, proc, panicked>>

\* Variant: yield() releases ptable.lock before it calls sched().
TimerYield_Unlocks(c) ==
    LET p == proc[c] IN
    /\ ~panicked
    /\ p # None /\ intr[c] /\ lock = None
    /\ intr' = [intr EXCEPT ![c] = FALSE]
    /\ state' = [state EXCEPT ![p] = "RUNNABLE"]
    /\ Goto(p, IF at[p] = "user" THEN "ret" ELSE at[p])
    /\ UNCHANGED <<pid, parent, chan, killed, priority, ticks_waiting, kstack,
                   child, ticks0, want, nextpid, ticks, lock, tickslock, proc,
                   panicked>>

\* The end of trap() for a timer interrupt: exit() if the process was killed
\* and was in user space, else yield(), up to its sched().  "ret" is the
\* test of killed on the way back to user space.
TimerYield(c) ==
    LET p == proc[c] IN
    /\ ~panicked
    /\ p # None /\ intr[c]
    /\ intr' = [intr EXCEPT ![c] = FALSE]
    /\ \/ /\ at[p] = "user" /\ killed[p]
          /\ Goto(p, "exit")
          /\ UNCHANGED <<state, lock>>
       \/ /\ ~(at[p] = "user" /\ killed[p])
          /\ lock = None
          /\ state' = [state EXCEPT ![p] = "RUNNABLE"]
          /\ Goto(p, IF at[p] = "user" THEN "ret" ELSE at[p])
          /\ lock' = c
    /\ UNCHANGED <<pid, parent, chan, killed, priority, ticks_waiting, kstack,
                   child, ticks0, want, nextpid, ticks, tickslock, proc,
                   panicked>>

Does(p) == IF p = InitProc THEN InitCalls ELSE UserCalls

\* Any other exception in user space: the default case of trap().
UserFault(c) ==
    LET p == proc[c] IN
    /\ Executes(c, p) /\ at[p] = "user" /\ "fault" \in Does(p)
    /\ killed' = [killed EXCEPT ![p] = TRUE]
    /\ Goto(p, "exit")
    /\ UNCHANGED <<state, pid, parent, chan, priority, ticks_waiting, kstack,
                   child, ticks0, want, nextpid, ticks, lock, tickslock, proc,
                   intr, panicked>>

\* T_SYSCALL: a killed process does not get to make the call.
Syscall(c, call) ==
    LET p == proc[c] IN
    /\ Executes(c, p) /\ at[p] = "user"
    /\ call \in Does(p) \ {"fault"}
    /\ call = "fork" => nextpid <= MaxPid
    /\ Goto(p, IF killed[p] THEN "exit" ELSE call)
    /\ UNCHANGED <<pvars, child, ticks0, want, nextpid, ticks, lock, tickslock,
                   proc, intr, panicked>>

\* The way back to user space.
Return(c) ==
    LET p == proc[c] IN
    /\ Executes(c, p) /\ at[p] = "ret"
    /\ Goto(p, IF killed[p] THEN "exit" ELSE "user")
    /\ UNCHANGED <<pvars, child, ticks0, want, nextpid, ticks, lock, tickslock,
                   proc, intr, panicked>>

----------------------------------------------------------------------------
(* fork() and the part of allocproc() it starts with                       *)

AllocProc(c) ==
    LET p == proc[c]
        Unused == {q \in Slot : state[q] = "UNUSED"}
    IN
    /\ Executes(c, p) /\ at[p] = "fork"
    /\ lock = None
    /\ \/ \E np \in First(Unused) :
            /\ state' = [state EXCEPT ![np] = "EMBRYO"]
            /\ pid' = [pid EXCEPT ![np] = nextpid]
            /\ nextpid' = nextpid + 1
            /\ priority' = [priority EXCEPT ![np] = DEFAULT_PRIORITY]
            /\ ticks_waiting' = [ticks_waiting EXCEPT ![np] = 0]
            /\ child' = [child EXCEPT ![p] = np]
            /\ Goto(p, "fork_kstack")
       \/ /\ Unused = {}
          /\ Goto(p, "ret")
          /\ UNCHANGED <<state, pid, nextpid, priority, ticks_waiting, child>>
    /\ UNCHANGED <<parent, chan, killed, kstack, ticks0, want, ticks, lock,
                   tickslock, proc, intr, panicked>>

\* kalloc() of the kernel stack, whose context starts at forkret.  On
\* failure the slot is freed without ptable.lock and keeps its pid.
AllocKstack(c) ==
    LET p == proc[c]
        np == child[p]
    IN
    /\ Executes(c, p) /\ at[p] = "fork_kstack"
    /\ \/ /\ kstack' = [kstack EXCEPT ![np] = TRUE]
          /\ at' = [at EXCEPT ![np] = "forkret", ![p] = "fork_copy"]
          /\ UNCHANGED <<state, child>>
       \/ /\ state' = [state EXCEPT ![np] = "UNUSED"]
          /\ child' = [child EXCEPT ![p] = None]
          /\ Goto(p, "ret")
          /\ UNCHANGED kstack
    /\ UNCHANGED <<pid, parent, chan, killed, priority, ticks_waiting, ticks0,
                   want, nextpid, ticks, lock, tickslock, proc, intr, panicked>>

\* copyuvm() and, when it succeeds, the unlocked writes to *np.
CopyProc(c) ==
    LET p == proc[c]
        np == child[p]
    IN
    /\ Executes(c, p) /\ at[p] = "fork_copy"
    /\ \/ /\ parent' = [parent EXCEPT ![np] = p]
          /\ priority' = [priority EXCEPT ![np] = priority[p]]
          /\ Goto(p, "fork_run")
          /\ UNCHANGED <<state, kstack, child>>
       \/ /\ kstack' = [kstack EXCEPT ![np] = FALSE]
          /\ state' = [state EXCEPT ![np] = "UNUSED"]
          /\ child' = [child EXCEPT ![p] = None]
          /\ at' = [at EXCEPT ![np] = "none", ![p] = "ret"]
          /\ UNCHANGED <<parent, priority>>
    /\ UNCHANGED <<pid, chan, killed, ticks_waiting, ticks0, want, nextpid,
                   ticks, lock, tickslock, proc, intr, panicked>>

ForkRun(c) ==
    LET p == proc[c] IN
    /\ Executes(c, p) /\ at[p] = "fork_run"
    /\ lock = None
    /\ state' = [state EXCEPT ![child[p]] = "RUNNABLE"]
    /\ child' = [child EXCEPT ![p] = None]
    /\ Goto(p, "ret")
    /\ UNCHANGED <<pid, parent, chan, killed, priority, ticks_waiting, kstack,
                   ticks0, want, nextpid, ticks, lock, tickslock, proc, intr,
                   panicked>>

----------------------------------------------------------------------------
(* exit(), from its test for initproc to sched().  Closing the files and   *)
(* dropping cwd comes before ptable.lock and is not part of this module.   *)

\* Variant: exit() wakes nobody.
ExitWakes_None(p) == {}

\* The channels exit() wakes: its parent and, if it hands initproc a zombie,
\* initproc.
ExitWakes(p) ==
    {parent[p]} \cup (IF Zombies(p) # {} THEN {InitProc} ELSE {})

\* Variants: the lock is released before sched(); children keep their parent.
Exit_Unlocks(c) ==
    LET p == proc[c] IN
    /\ Executes(c, p) /\ at[p] = "exit" /\ p # InitProc
    /\ lock = None
    /\ parent' = [q \in Slot |-> IF parent[q] = p THEN InitProc ELSE parent[q]]
    /\ state' = [Wakeup1(state, ExitWakes(p)) EXCEPT ![p] = "ZOMBIE"]
    /\ Goto(p, "dead")
    /\ UNCHANGED <<pid, chan, killed, priority, ticks_waiting, kstack, child,
                   ticks0, want, nextpid, ticks, lock, tickslock, proc, intr,
                   panicked>>

Exit_KeepsChildren(c) ==
    LET p == proc[c] IN
    /\ Executes(c, p) /\ at[p] = "exit" /\ p # InitProc
    /\ lock = None
    /\ state' = [Wakeup1(state, ExitWakes(p)) EXCEPT ![p] = "ZOMBIE"]
    /\ Goto(p, "dead")
    /\ lock' = c
    /\ UNCHANGED <<pid, parent, chan, killed, priority, ticks_waiting, kstack,
                   child, ticks0, want, nextpid, ticks, tickslock, proc, intr,
                   panicked>>

Exit(c) ==
    LET p == proc[c] IN
    /\ Executes(c, p) /\ at[p] = "exit" /\ p # InitProc
    /\ lock = None
    /\ parent' = [q \in Slot |-> IF parent[q] = p THEN InitProc ELSE parent[q]]
    /\ state' = [Wakeup1(state, ExitWakes(p)) EXCEPT ![p] = "ZOMBIE"]
    /\ Goto(p, "dead")
    /\ lock' = c
    /\ UNCHANGED <<pid, chan, killed, priority, ticks_waiting, kstack, child,
                   ticks0, want, nextpid, ticks, tickslock, proc, intr,
                   panicked>>

\* initproc must not exit.  What other CPUs still do after a panic is not
\* modelled.
InitExits(c) ==
    /\ Executes(c, InitProc) /\ at[InitProc] = "exit"
    /\ panicked' = TRUE
    /\ UNCHANGED <<pvars, lvars, nextpid, ticks, lock, tickslock, proc, intr>>

\* panic() loops for ever.
Halted == panicked /\ UNCHANGED vars

----------------------------------------------------------------------------
(* kill() and sys_setpriority(): both take the first slot with the pid,    *)
(* whatever its state.                                                     *)

WithPid(n) == First({q \in Slot : pid[q] = n})

\* Variant: a sleeping victim is not woken.
Kill_NoWake(c, n) ==
    LET p == proc[c] IN
    /\ Executes(c, p) /\ at[p] = "kill"
    /\ lock = None
    /\ \/ \E q \in WithPid(n) : killed' = [killed EXCEPT ![q] = TRUE]
       \/ WithPid(n) = {} /\ UNCHANGED killed
    /\ Goto(p, "ret")
    /\ UNCHANGED <<state, pid, parent, chan, priority, ticks_waiting, kstack,
                   child, ticks0, want, nextpid, ticks, lock, tickslock, proc,
                   intr, panicked>>

Kill(c, n) ==
    LET p == proc[c] IN
    /\ Executes(c, p) /\ at[p] = "kill"
    /\ lock = None
    /\ \/ \E q \in WithPid(n) :
            /\ killed' = [killed EXCEPT ![q] = TRUE]
            /\ state' = IF state[q] = "SLEEPING"
                        THEN [state EXCEPT ![q] = "RUNNABLE"] ELSE state
       \/ WithPid(n) = {} /\ UNCHANGED <<killed, state>>
    /\ Goto(p, "ret")
    /\ UNCHANGED <<pid, parent, chan, priority, ticks_waiting, kstack, child,
                   ticks0, want, nextpid, ticks, lock, tickslock, proc, intr,
                   panicked>>

\* A priority outside 1..5 is refused before the search.
SetPriority(c, n, v) ==
    LET p == proc[c] IN
    /\ Executes(c, p) /\ at[p] = "setpriority"
    /\ lock = None
    /\ \/ \E q \in WithPid(n) :
            /\ v \in MIN_PRIORITY..MAX_PRIORITY
            /\ priority' = [priority EXCEPT ![q] = v]
            /\ ticks_waiting' = [ticks_waiting EXCEPT ![q] = 0]
       \/ /\ v \notin MIN_PRIORITY..MAX_PRIORITY \/ WithPid(n) = {}
          /\ UNCHANGED <<priority, ticks_waiting>>
    /\ Goto(p, "ret")
    /\ UNCHANGED <<state, pid, parent, chan, killed, kstack, child, ticks0,
                   want, nextpid, ticks, lock, tickslock, proc, intr, panicked>>

----------------------------------------------------------------------------
(* sys_sleep(), and sleep(&ticks, &tickslock) inside it                    *)

\* Variant: tickslock is released before sleep() takes ptable.lock.
SleepLoop_Unlocks(c, n) ==
    LET p == proc[c]
        t0 == IF at[p] = "sleep" THEN ticks ELSE ticks0[p]
        left == (ticks - t0) % TickMod < n
    IN
    /\ Executes(c, p)
    /\ at[p] = "sleep" \/ (at[p] = "sleep_again" /\ n = want[p])
    /\ tickslock = None
    /\ ticks0' = [ticks0 EXCEPT ![p] = t0]
    /\ want' = [want EXCEPT ![p] = n]
    /\ Goto(p, IF left /\ ~killed[p] THEN "sleep_lk" ELSE "ret")
    /\ UNCHANGED <<pvars, child, nextpid, ticks, lock, tickslock, proc, intr,
                   panicked>>

\* acquire(&tickslock), on entry or at the end of sleep(), and the tests of
\* the while loop.  A process that goes on to sleep() keeps tickslock.
SleepLoop(c, n) ==
    LET p == proc[c]
        t0 == IF at[p] = "sleep" THEN ticks ELSE ticks0[p]
        left == (ticks - t0) % TickMod < n
    IN
    /\ Executes(c, p)
    /\ at[p] = "sleep" \/ (at[p] = "sleep_again" /\ n = want[p])
    /\ tickslock = None
    /\ \/ /\ ~left \/ killed[p]
          /\ ticks0' = [ticks0 EXCEPT ![p] = 0]
          /\ want' = [want EXCEPT ![p] = 0]
          /\ Goto(p, "ret")
          /\ UNCHANGED tickslock
       \/ /\ left /\ ~killed[p]
          /\ ticks0' = [ticks0 EXCEPT ![p] = t0]
          /\ want' = [want EXCEPT ![p] = n]
          /\ Goto(p, "sleep_lk")
          /\ tickslock' = c
    /\ UNCHANGED <<pvars, child, nextpid, ticks, lock, proc, intr, panicked>>

\* sleep(): ptable.lock is taken before tickslock is released.
SleepSched(c) ==
    LET p == proc[c] IN
    /\ Executes(c, p) /\ at[p] = "sleep_lk"
    /\ lock = None
    /\ lock' = c
    /\ tickslock' = None
    /\ chan' = [chan EXCEPT ![p] = TicksChan]
    /\ state' = [state EXCEPT ![p] = "SLEEPING"]
    /\ Goto(p, "sleep_slept")
    /\ UNCHANGED <<pid, parent, killed, priority, ticks_waiting, kstack, child,
                   ticks0, want, nextpid, ticks, proc, intr, panicked>>

----------------------------------------------------------------------------
\* What a CPU does by itself: the scheduler and the interrupt path.
CpuStep(c) ==
    \/ Schedule(c) \/ SchedulerBack(c) \/ Resume(c) \/ ResumeWait(c)
    \/ TimerIntr(c) \/ TimerYield(c)

\* The kernel code of the process on the CPU, once it has made its call.
KernelStep(c) ==
    \/ Return(c) \/ Wait(c) \/ Exit(c) \/ InitExits(c)
    \/ AllocProc(c) \/ AllocKstack(c) \/ CopyProc(c) \/ ForkRun(c)
    \/ \E n \in KillPids : Kill(c, n)
    \/ \E n \in PrioPids, v \in 0..(MAX_PRIORITY + 1) : SetPriority(c, n, v)
    \/ \E n \in SleepArgs : SleepLoop(c, n)
    \/ SleepSched(c)

UserStep(c) == UserFault(c) \/ \E call \in Calls : Syscall(c, call)

Next == (\E c \in CPU : CpuStep(c) \/ KernelStep(c) \/ UserStep(c)) \/ Halted

Spec == Init /\ [][Next]_vars

----------------------------------------------------------------------------
(* Safety                                                                  *)

Live == {"RUNNABLE", "RUNNING", "SLEEPING"}

\* Two CPUs never run on the kernel stack of one process, although yield()
\* and sleep() publish the process as RUNNABLE or SLEEPING while their CPU is
\* still on that stack: ptable.lock is handed over by swtch().  A process is
\* RUNNING only on a CPU that has it as c->proc.
OneCpuPerProcess ==
    /\ \A c, d \in CPU : proc[c] # None /\ proc[c] = proc[d] => c = d
    /\ \A p \in Slot : state[p] = "RUNNING" => \E c \in CPU : proc[c] = p

\* wait() never frees the kernel stack of a process some CPU is still on, and
\* no process is switched to without one or after its exit(): the panics
\* "switchuvm: no kstack" and "zombie exit" cannot happen.
StackWhileOnCpu ==
    \A c \in CPU : proc[c] # None =>
        /\ kstack[proc[c]]
        /\ state[proc[c]] = "RUNNING" => at[proc[c]] # "dead"

\* Every process but initproc has a living parent, one that can still call
\* wait() for it: exit() leaves no child behind, even against a fork(), a
\* wait() or another exit() in progress.
ParentsLive ==
    \A p \in Slot \ {InitProc} :
        state[p] \in Live \cup {"ZOMBIE"} =>
            parent[p] # None /\ state[parent[p]] \in Live

\* A process that sleeps in wait() has a child to wait for, none of its
\* children is a zombie already and nobody killed it: no wakeup of exit() or
\* kill() is lost.
WaitersWaitForSomething ==
    \A p \in Slot : state[p] = "SLEEPING" /\ chan[p] = p =>
        Kids(p) # {} /\ Zombies(p) = {} /\ ~killed[p]

\* A process that sleeps in sys_sleep() still has ticks to wait for: no tick
\* passes between its test of the clock and its going to sleep.
SleepersHaveTicksLeft ==
    \A p \in Slot : state[p] = "SLEEPING" /\ chan[p] = TicksChan =>
        (ticks - ticks0[p]) % TickMod < want[p]

\* scheduler() switches to a process only if no RUNNABLE process has a higher
\* priority, the aging of the same pass included.
DispatchesHighest ==
    [][\A c \in CPU : proc[c] = None /\ proc'[c] # None =>
          \A q \in Slot : state[q] = "RUNNABLE" =>
              priority'[q] <= priority'[proc'[c]]]_vars

\* A process starts its life with killed clear: the flag says that somebody
\* killed this process.
NewbornNotKilled ==
    [][\A p \in Slot : state[p] = "UNUSED" /\ state'[p] = "EMBRYO" =>
          ~killed'[p]]_vars

----------------------------------------------------------------------------
(* The inductive invariant behind the safety properties.                   *)

\* Whose stack each CPU is on, and what holding ptable.lock means.
CpuInv ==
    /\ \A c, d \in CPU : proc[c] # None /\ proc[c] = proc[d] => c = d
    /\ \A p \in Slot : state[p] = "RUNNING" => \E c \in CPU : proc[c] = p
    /\ \A c \in CPU : proc[c] # None =>
        \/ state[proc[c]] = "RUNNING"
        \/ lock = c /\ state[proc[c]] \in {"RUNNABLE", "SLEEPING", "ZOMBIE"}
    /\ lock # None => proc[lock] # None
    /\ \A c \in CPU : intr[c] => proc[c] # None /\ lock # c /\ tickslock # c

\* What a slot in use owns, and where its thread can be.
StackInv ==
    /\ \A p \in Slot : state[p] \in Live \cup {"ZOMBIE"} => kstack[p]
    /\ \A p \in Slot : state[p] \in Live => at[p] \notin {"dead", "none"}
    /\ \A p \in Slot : state[p] \in {"UNUSED", "EMBRYO"} =>
        at[p] \in {"none", "forkret"}
    /\ \A p \in Slot : state[p] = "ZOMBIE" => at[p] = "dead"

ForkPoints == {"fork_kstack", "fork_copy", "fork_run"}

\* fork() works on an EMBRYO slot that is its own.
ForkInv ==
    /\ \A p \in Slot : at[p] \in ForkPoints =>
        /\ child[p] \in Slot /\ state[child[p]] = "EMBRYO"
        /\ at[p] # "fork_kstack" =>
            kstack[child[p]] /\ at[child[p]] = "forkret"
        /\ at[p] = "fork_run" => parent[child[p]] = p
    /\ \A p, q \in Slot :
        at[p] \in ForkPoints /\ at[q] \in ForkPoints /\ child[p] = child[q] =>
            p = q
    /\ \A q \in Slot : state[q] = "EMBRYO" /\ parent[q] # None =>
        at[parent[q]] = "fork_run" /\ child[parent[q]] = q

\* The tree of processes, rooted at initproc.
FamilyInv ==
    /\ state[InitProc] \in Live /\ parent[InitProc] = None
    /\ \A p \in Slot : parent[p] # None => state[parent[p]] \in Live
    /\ \A p \in Slot : parent[p] # p
    /\ \A p \in Slot : state[p] = "UNUSED" => parent[p] = None
    /\ \A p \in Slot \ {InitProc} :
        state[p] \in Live \cup {"ZOMBIE"} => parent[p] # None

\* Where sleeping processes sleep.
SleepInv ==
    /\ \A p \in Slot : state[p] = "SLEEPING" =>
        \/ chan[p] = p /\ at[p] = "wait_slept"
        \/ chan[p] = TicksChan /\ at[p] = "sleep_slept"
    /\ WaitersWaitForSomething

\* tickslock, from the test of the clock to sleep().
ClockInv ==
    /\ \A c \in CPU : tickslock = c =>
        proc[c] # None /\ at[proc[c]] = "sleep_lk"
    /\ \A p \in Slot : at[p] = "sleep_lk" =>
        /\ \E c \in CPU : proc[c] = p /\ tickslock = c /\ lock # c
        /\ (ticks - ticks0[p]) % TickMod < want[p]
    /\ SleepersHaveTicksLeft

IInv == TypeOK /\ CpuInv /\ StackInv /\ ForkInv /\ FamilyInv /\ SleepInv /\ ClockInv

----------------------------------------------------------------------------
(* Liveness                                                                *)

\* Every CPU keeps executing its scheduler and its interrupt handlers, the
\* timer keeps interrupting, and a process that is on a CPU again and again
\* gets through its kernel code.  Acquiring ptable.lock needs strong
\* fairness: other CPUs take it in between.  Nothing makes a program call.
Fairness ==
    /\ \A c \in CPU :
        /\ SF_vars(Schedule(c))
        /\ WF_vars(SchedulerBack(c))
        /\ WF_vars(Resume(c) \/ ResumeWait(c))
        /\ SF_vars(TimerIntr(c))
        /\ SF_vars(TimerYield(c))
    /\ \A p \in Slot : SF_vars(\E c \in CPU : proc[c] = p /\ KernelStep(c))

FairSpec == Spec /\ Fairness

\* The loop of init.c, which calls wait() whenever it is in user space.
InitWaits == SF_vars(\E c \in CPU : proc[c] = InitProc /\ Syscall(c, "wait"))

FairInitSpec == FairSpec /\ InitWaits

\* Aging keeps processes of higher priority from starving initproc: once it
\* is RUNNABLE a CPU switches to it, whatever the others do with their own
\* priorities.
InitGetsCpu == state[InitProc] = "RUNNABLE" ~> state[InitProc] = "RUNNING"

\* The same for every process: what a round robin among processes of equal
\* priority would give.
EveryoneGetsCpu ==
    \A p \in Slot : state[p] = "RUNNABLE" ~> state[p] = "RUNNING"

\* A process that stays RUNNABLE for ever, and whose priority nobody sets, is
\* raised to MAX_PRIORITY: the starvation that remains is among equals.
WaitingReachesTop ==
    \A p \in Slot :
        [](state[p] = "RUNNABLE" /\ pid[p] \notin PrioPids) ~>
            (priority[p] = MAX_PRIORITY)

\* A process whose parent exited, or is initproc, does not stay a zombie.
OrphansReaped ==
    \A p \in Slot :
        state[p] = "ZOMBIE" /\ parent[p] = InitProc ~> state[p] = "UNUSED"

\* A killed process exits, wherever kill() found it, as long as the
\* scheduler runs it.
KilledExits ==
    \A p \in Slot \ {InitProc} :
        killed[p] /\ state[p] \in Live ~>
            state[p] \notin Live \/ [](state[p] = "RUNNABLE")

====
