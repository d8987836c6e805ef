------------------------------ MODULE ProcInv -------------------------------
(***************************************************************************)
(* The inductive invariant IInv of Proc: the initial state, and the steps of *)
(* the scheduler, of the interrupt path, of the system calls that neither  *)
(* fork nor exit, and of allocproc().  A lemma <Action>Step says that the  *)
(* action preserves IInv; the lemmas <Part>Frame say which steps cannot    *)
(* disturb one part of it.                                                 *)
(***************************************************************************)
EXTENDS Proc, TLAPS

\* The provers' time for each leaf.
USE SMTT(60), ZenonT(60)

\* What the proofs use of the constants; they keep Slot and CPU folded.
LEMMA Consts ==
    /\ InitProc \in Slot /\ None \notin Slot /\ None \notin CPU
    /\ Slot \subseteq Nat /\ CPU \subseteq Nat
    /\ TicksChan \notin Slot /\ TicksChan # None /\ TicksChan \in Nat
    /\ Slot \subseteq 0..TicksChan /\ TicksChan \in 0..TicksChan
    /\ None \in 0..TicksChan
  BY ProcAssumption DEF Slot, CPU, None, InitProc, TicksChan

\* ticks stays a uint.
LEMMA ModRange ==
    ASSUME NEW a \in Int, NEW m \in Nat \ {0}
    PROVE  a % m \in 0..(m - 1)
  OBVIOUS

\* A process that executes on a CPU is RUNNING: ptable.lock is what lets a
\* CPU stay on the stack of a process in another state.
LEMMA ExecutesRunning ==
    ASSUME TypeOK, CpuInv, NEW c \in CPU, NEW p, Executes(c, p)
    PROVE  p \in Slot /\ proc[c] = p /\ state[p] = "RUNNING"
  BY Zenon, Consts DEF TypeOK, CpuInv, Executes

\* What wakeup1() does to one slot.
LEMMA WakeupFacts ==
    ASSUME TypeOK, NEW W
    PROVE  /\ Wakeup1(state, W) \in [Slot -> States]
           /\ \A q \in Slot :
                \/ Wakeup1(state, W)[q] = state[q]
                \/ state[q] = "SLEEPING" /\ Wakeup1(state, W)[q] = "RUNNABLE"
           /\ \A q \in Slot : state[q] = "SLEEPING" /\ chan[q] \in W =>
                Wakeup1(state, W)[q] = "RUNNABLE"
           /\ \A q \in Slot : state[q] # "SLEEPING" => Wakeup1(state, W)[q] = state[q]
  BY Zenon DEF TypeOK, Wakeup1, States

\* A step that moves no process on or off a CPU and touches no lock.
LEMMA CpuFrame ==
    ASSUME TypeOK, CpuInv, UNCHANGED <<proc, lock, tickslock, intr>>,
           \A q \in Slot : state'[q] = "RUNNING" <=> state[q] = "RUNNING",
           \A d \in CPU :
               /\ proc[d] # None
               /\ state[proc[d]] \in {"RUNNABLE", "SLEEPING", "ZOMBIE"}
               => state'[proc[d]] \in {"RUNNABLE", "SLEEPING", "ZOMBIE"}
    PROVE  CpuInv'
  <1>1. \A d \in CPU : proc[d] # None => proc[d] \in Slot
    BY Zenon DEF TypeOK
  <1>2. \A d \in CPU : proc[d] # None =>
          \/ state'[proc[d]] = "RUNNING"
          \/ lock = d /\ state'[proc[d]] \in {"RUNNABLE", "SLEEPING", "ZOMBIE"}
    BY Zenon, <1>1 DEF CpuInv
  <1>3. \A q \in Slot : state'[q] = "RUNNING" => \E d \in CPU : proc[d] = q
    BY Zenon DEF CpuInv
  <1> QED  BY <1>2, <1>3 DEF CpuInv

\* A step that starts or ends no fork() and leaves the EMBRYO slots alone.
LEMMA ForkFrame ==
    ASSUME TypeOK, ForkInv, child' = child,
           \A x \in Slot : at'[x] \in ForkPoints => at'[x] = at[x],
           \A x \in Slot : at[x] \in ForkPoints => at'[x] = at[x],
           \A x \in Slot : state[x] = "EMBRYO" =>
               /\ state'[x] = "EMBRYO" /\ at'[x] = at[x]
               /\ kstack'[x] = kstack[x] /\ parent'[x] = parent[x],
           \A x \in Slot : state'[x] = "EMBRYO" => state[x] = "EMBRYO"
    PROVE  ForkInv'
  <1>1. ASSUME NEW p \in Slot, at'[p] \in ForkPoints
        PROVE  /\ child'[p] \in Slot /\ state'[child'[p]] = "EMBRYO"
               /\ at'[p] # "fork_kstack" =>
                    kstack'[child'[p]] /\ at'[child'[p]] = "forkret"
               /\ at'[p] = "fork_run" => parent'[child'[p]] = p
    <2>1. at'[p] = at[p] /\ at[p] \in ForkPoints
      BY Zenon, <1>1
    <2>2. child[p] \in Slot /\ state[child[p]] = "EMBRYO"
      BY Zenon, <2>1 DEF ForkInv
    <2> QED  BY <2>1, <2>2 DEF ForkInv
  <1>2. ASSUME NEW p \in Slot, NEW q \in Slot, at'[p] \in ForkPoints,
               at'[q] \in ForkPoints, child'[p] = child'[q]
        PROVE  p = q
    BY <1>2 DEF ForkInv
  <1>3. ASSUME NEW q \in Slot, state'[q] = "EMBRYO", parent'[q] # None
        PROVE  at'[parent'[q]] = "fork_run" /\ child'[parent'[q]] = q
    <2>1. state[q] = "EMBRYO" /\ parent'[q] = parent[q]
      BY Zenon, <1>3
    <2>2. parent[q] \in Slot
      BY Zenon, <1>3, <2>1 DEF TypeOK
    <2>3. at[parent[q]] = "fork_run" /\ child[parent[q]] = q
      BY Zenon, <1>3, <2>1 DEF ForkInv
    <2> QED  BY Zenon, <2>1, <2>2, <2>3 DEF ForkPoints
  <1> QED  BY Zenon, <1>1, <1>2, <1>3 DEF ForkInv

\* A step that changes no parent, lets nobody exit, and frees or starts only
\* slots with the right parent.
LEMMA FamilyFrame ==
    ASSUME TypeOK, FamilyInv, parent' = parent, InitProc \in Slot,
           \A q \in Slot :
               /\ state[q] \in Live => state'[q] \in Live
               /\ state'[q] = "UNUSED" => state[q] = "UNUSED" \/ parent[q] = None
               /\ state'[q] \in Live \cup {"ZOMBIE"} =>
                    state[q] \in Live \cup {"ZOMBIE"} \/ parent[q] # None
    PROVE  FamilyInv'
  <1>1. \A q \in Slot : parent[q] # None => parent[q] \in Slot
    BY Zenon DEF TypeOK
  <1>2. \A q \in Slot : parent[q] # None => state'[parent[q]] \in Live
    BY Zenon, <1>1 DEF FamilyInv
  <1> QED  BY Zenon, <1>2 DEF FamilyInv

\* A step in which nobody goes to sleep or becomes a zombie.
LEMMA SleepFrame ==
    ASSUME SleepInv, parent' = parent,
           \A q \in Slot : state'[q] = "SLEEPING" =>
               /\ state[q] = "SLEEPING"
               /\ at'[q] = at[q] /\ chan'[q] = chan[q] /\ killed'[q] = killed[q],
           \A q \in Slot : state'[q] = "ZOMBIE" <=> state[q] = "ZOMBIE"
    PROVE  SleepInv'
  <1>1. \A q \in Slot : Kids(q)' = Kids(q) /\ Zombies(q)' = Zombies(q)
    BY Zenon DEF Kids, Zombies
  <1> QED  BY <1>1 DEF SleepInv, WaitersWaitForSomething

\* A step that leaves the clock, tickslock and who holds it alone.
LEMMA ClockFrame ==
    ASSUME TypeOK, ClockInv, None \notin Slot,
           UNCHANGED <<ticks, ticks0, want, tickslock, proc>>,
           lock' \in {None, lock} \/ lock' # tickslock, None \notin CPU,
           \A q \in Slot : at'[q] = "sleep_lk" <=> at[q] = "sleep_lk",
           \A q \in Slot : state'[q] = "SLEEPING" =>
               state[q] = "SLEEPING" /\ (chan'[q] = TicksChan => chan[q] = TicksChan)
    PROVE  ClockInv'
  <1>1. \A d \in CPU : tickslock = d => proc[d] \in Slot
    BY DEF ClockInv, TypeOK
  <1>2. SleepersHaveTicksLeft'
    BY Zenon DEF ClockInv, SleepersHaveTicksLeft
  <1>3. \A q \in Slot : at[q] = "sleep_lk" =>
          \E d \in CPU : proc[d] = q /\ tickslock = d /\ lock' # d
    BY DEF ClockInv
  <1> QED  BY Zenon, <1>1, <1>2, <1>3 DEF ClockInv

\* The process of a CPU moves on in its own code and takes no part in a
\* fork(), a sleep or an exit; the fields that are only data may change.
LEMMA MovesOn ==
    ASSUME IInv, NEW p \in Slot, state[p] = "RUNNING",
           at[p] \notin ForkPoints, at[p] # "sleep_lk",
           NEW x \in {"user", "ret", "exit", "fork", "wait", "kill",
                      "setpriority", "sleep"},
           Goto(p, x),
           UNCHANGED <<state, pid, parent, chan, kstack, child, ticks0, want,
                       nextpid, ticks, lock, tickslock, proc, intr, panicked>>,
           killed' \in [Slot -> BOOLEAN],
           priority' \in [Slot -> 0..MAX_PRIORITY],
           ticks_waiting' \in [Slot -> 0..AGING_THRESHOLD],
           \A q \in Slot : q # p => killed'[q] = killed[q]
    PROVE  IInv'
  <1> USE Consts DEF IInv
  <1>0. /\ \A q \in Slot : q # p => at'[q] = at[q]
        /\ at'[p] = x /\ at' \in [Slot -> Points]
    BY Zenon DEF TypeOK, Goto, Points
  <1>1. TypeOK'
    BY Zenon, <1>0 DEF TypeOK
  <1>2. CpuInv'
    BY Zenon DEF CpuInv
  <1>3. StackInv'
    BY Zenon, <1>0 DEF StackInv, Live
  <1>4. ForkInv'
    BY Zenon, <1>0, ForkFrame DEF ForkPoints
  <1>5. FamilyInv'
    BY Zenon DEF FamilyInv
  <1>6. SleepInv'
    BY Zenon, <1>0, SleepFrame
  <1>7. ClockInv'
    BY Zenon, <1>0, ClockFrame
  <1> QED  BY Zenon, <1>1, <1>2, <1>3, <1>4, <1>5, <1>6, <1>7

\* userinit() and main() establish the invariant.
LEMMA InitInv == Init => IInv
  <1> SUFFICES ASSUME Init PROVE IInv
    OBVIOUS
  <1> USE Consts DEF Init
  <1>1. TypeOK
    <2>1. /\ state \in [Slot -> States] /\ at \in [Slot -> Points]
      BY Zenon DEF States, Points
    <2>2. /\ pid \in [Slot -> Nat] /\ nextpid \in Nat \ {0}
          /\ want \in [Slot -> Nat]
      OBVIOUS
    <2>3. /\ parent \in [Slot -> Slot \cup {None}]
          /\ child \in [Slot -> Slot \cup {None}]
          /\ proc \in [CPU -> Slot \cup {None}]
          /\ lock \in CPU \cup {None} /\ tickslock \in CPU \cup {None}
      OBVIOUS
    <2>4. chan \in [Slot -> 0..TicksChan]
      OBVIOUS
    <2>5. /\ killed \in [Slot -> BOOLEAN] /\ intr \in [CPU -> BOOLEAN]
          /\ panicked \in BOOLEAN
      BY Zenon
    <2>6. kstack \in [Slot -> BOOLEAN]
      <3>1. \A x \in Slot : (x = InitProc) \in BOOLEAN
        OBVIOUS
      <3> QED  BY Zenon, <3>1
    <2>7. /\ priority \in [Slot -> 0..MAX_PRIORITY]
          /\ ticks_waiting \in [Slot -> 0..AGING_THRESHOLD]
      BY ProcAssumption
    <2>8. ticks0 \in [Slot -> 0..(TickMod - 1)] /\ ticks \in 0..(TickMod - 1)
      BY ProcAssumption
    <2> QED  BY Zenon, <2>1, <2>2, <2>3, <2>4, <2>5, <2>6, <2>7, <2>8 DEF TypeOK
  <1>2. CpuInv
    BY Zenon DEF CpuInv
  <1>3. StackInv
    BY ZenonT(60) DEF StackInv, Live
  <1>4. ForkInv
    BY Zenon DEF ForkInv, ForkPoints
  <1>5. FamilyInv
    BY Zenon DEF FamilyInv, Live
  <1>6. SleepInv
    BY Zenon DEF SleepInv, WaitersWaitForSomething
  <1>7. ClockInv
    BY Zenon DEF ClockInv, SleepersHaveTicksLeft
  <1> QED  BY Zenon, <1>1, <1>2, <1>3, <1>4, <1>5, <1>6, <1>7 DEF IInv

\* swtch() back into scheduler().
LEMMA SchedulerBackStep ==
    ASSUME IInv, NEW c \in CPU, SchedulerBack(c)
    PROVE  IInv'
  <1> USE Consts DEF IInv, SchedulerBack, pvars, lvars
  <1>1. TypeOK'
    BY Zenon DEF TypeOK
  <1>2. CpuInv'
    BY DEF TypeOK, CpuInv
  <1>3. StackInv'
    BY Zenon DEF StackInv
  <1>4. ForkInv'
    BY Zenon DEF ForkInv
  <1>5. FamilyInv'
    BY Zenon DEF FamilyInv
  <1>6. SleepInv'
    BY Zenon DEF SleepInv, WaitersWaitForSomething, Kids, Zombies
  <1>7. ClockInv'
    <2>1. at[proc[c]] # "sleep_lk"
      <3>1. proc[c] \in Slot /\ lock = c
        BY Zenon DEF TypeOK
      <3>2. \A d \in CPU : proc[d] = proc[c] => d = c
        BY Zenon, <3>1 DEF CpuInv
      <3> QED  BY ZenonT(60), <3>1, <3>2 DEF ClockInv
    <2>2. SleepersHaveTicksLeft'
      BY Zenon DEF ClockInv, SleepersHaveTicksLeft
    <2> QED  BY <2>1, <2>2 DEF TypeOK, ClockInv
  <1> QED  BY Zenon, <1>1, <1>2, <1>3, <1>4, <1>5, <1>6, <1>7

\* forkret(), and the ends of yield() and of sleep() in sys_sleep().
LEMMA ResumeStep ==
    ASSUME IInv, NEW c \in CPU, Resume(c)
    PROVE  IInv'
  <1> USE Consts DEF IInv
  <1> DEFINE p == proc[c]
  <1>0. /\ p \in Slot /\ state[p] = "RUNNING" /\ lock = c /\ lock' = None
        /\ UNCHANGED <<state, pid, parent, killed, priority, ticks_waiting,
                       kstack, child, ticks0, want, nextpid, ticks, tickslock,
                       proc, intr, panicked>>
    BY Zenon DEF Resume, SwitchedIn, TypeOK
  <1>a. at[p] # "sleep_lk"
    <2>1. \A d \in CPU : proc[d] = p => d = c
      BY Zenon, <1>0 DEF CpuInv
    <2> QED  BY ZenonT(60), <2>1, <1>0 DEF ClockInv
  <1>b. /\ \A q \in Slot : q # p => at'[q] = at[q] /\ chan'[q] = chan[q]
        /\ at'[p] \in {at[p], "user", "sleep_again"}
        /\ at[p] \in ForkPoints => at'[p] = at[p]
        /\ at' \in [Slot -> Points] /\ chan' \in [Slot -> 0..TicksChan]
    <2>1. at' \in [Slot -> Points] /\ chan' \in [Slot -> 0..TicksChan]
      BY Zenon, <1>0 DEF Resume, Goto, TypeOK, Points
    <2> QED  BY Zenon, <1>0, <2>1 DEF Resume, Goto, TypeOK, ForkPoints
  <1> HIDE DEF p
  <1>1. TypeOK'
    BY Zenon, <1>0, <1>b DEF TypeOK
  <1>2. CpuInv'
    BY Zenon, <1>0 DEF CpuInv, p
  <1>3. StackInv'
    BY Zenon, <1>0, <1>b DEF StackInv, Live
  <1>4. ForkInv'
    BY Zenon, <1>0, <1>b, ForkFrame DEF ForkPoints
  <1>5. FamilyInv'
    BY Zenon, <1>0 DEF FamilyInv
  <1>6. SleepInv'
    BY Zenon, <1>0, <1>b, SleepFrame
  <1>7. ClockInv'
    <2>1. \A q \in Slot : at'[q] = "sleep_lk" <=> at[q] = "sleep_lk"
      BY Zenon, <1>a, <1>b
    <2>2. \A d \in CPU : tickslock = d => proc[d] \in Slot
      BY Zenon DEF ClockInv, TypeOK
    <2>3. SleepersHaveTicksLeft'
      BY Zenon, <1>0, <1>b DEF ClockInv, SleepersHaveTicksLeft
    <2> QED  BY ZenonT(60), <1>0, <2>1, <2>2, <2>3 DEF ClockInv
  <1> QED  BY Zenon, <1>1, <1>2, <1>3, <1>4, <1>5, <1>6, <1>7

\* The timer interrupt: the tick and its wakeup.
LEMMA TimerIntrStep ==
    ASSUME IInv, NEW c \in CPU, TimerIntr(c)
    PROVE  IInv'
  <1> USE Consts DEF IInv
  <1>0. /\ UNCHANGED <<pid, parent, chan, killed, priority, ticks_waiting,
                       kstack, at, child, ticks0, want, nextpid, lock,
                       tickslock, proc, panicked>>
        /\ lock # c /\ tickslock # c
    BY Zenon DEF TimerIntr, lvars
  <1>a. /\ state' \in [Slot -> States] /\ ticks' \in 0..(TickMod - 1)
        /\ \A q \in Slot : \/ state'[q] = state[q]
                           \/ state[q] = "SLEEPING" /\ state'[q] = "RUNNABLE"
    <2>1. CASE c # 1
      BY Zenon, <2>1 DEF TimerIntr, TypeOK
    <2>2. CASE c = 1
      <3>1. ticks' = (ticks + 1) % TickMod /\ state' = Wakeup1(state, {TicksChan})
        BY Zenon, <2>2 DEF TimerIntr
      <3>2. ticks' \in 0..(TickMod - 1)
        <4>1. ticks + 1 \in Int /\ TickMod \in Nat \ {0}
          BY ProcAssumption DEF TypeOK
        <4>2. (ticks + 1) % TickMod \in 0..(TickMod - 1)
          BY ZenonT(60), <4>1, ModRange
        <4> QED  BY Zenon, <4>2, <3>1
      <3> QED  BY <3>1, <3>2, WakeupFacts
    <2> QED  BY Zenon, <2>1, <2>2
  <1>b. /\ intr' \in [CPU -> BOOLEAN]
        /\ intr'[c] => proc[c] # None
        /\ \A d \in CPU : d # c => intr'[d] = intr[d]
    BY Zenon DEF TimerIntr, TypeOK
  <1>1. TypeOK'
    BY Zenon, <1>0, <1>a, <1>b DEF TypeOK
  <1>2. CpuInv'
    <2>1. \A d \in CPU : intr'[d] => proc[d] # None /\ lock # d /\ tickslock # d
      BY Zenon, <1>0, <1>b DEF CpuInv
    <2>2. \A d \in CPU : proc[d] # None =>
            \/ state'[proc[d]] = "RUNNING"
            \/ lock = d /\ state'[proc[d]] \in {"RUNNABLE", "SLEEPING", "ZOMBIE"}
      <3>1. \A d \in CPU : proc[d] # None => proc[d] \in Slot
        BY Zenon DEF TypeOK
      <3> QED  BY ZenonT(60), <3>1, <1>a DEF CpuInv
    <2>3. \A p \in Slot : state'[p] = "RUNNING" => \E d \in CPU : proc[d] = p
      BY Zenon, <1>a DEF CpuInv
    <2> QED  BY Zenon, <1>0, <2>1, <2>2, <2>3 DEF CpuInv
  <1>3. StackInv'
    BY Zenon, <1>0, <1>a DEF StackInv, Live
  <1>4. ForkInv'
    <2>1. \A q \in Slot : state'[q] = "EMBRYO" <=> state[q] = "EMBRYO"
      BY Zenon, <1>a
    <2> QED  BY ZenonT(60), <1>0, <2>1 DEF ForkInv
  <1>5. FamilyInv'
    BY Zenon, <1>0, <1>a, FamilyFrame DEF Live
  <1>6. SleepInv'
    BY Zenon, <1>0, <1>a, SleepFrame
  <1>7. ClockInv'
    <2>1. CASE c # 1
      BY Zenon, <1>0, <2>1 DEF TimerIntr, ClockInv, SleepersHaveTicksLeft
    <2>2. CASE c = 1
      <3>1. tickslock = None /\ state' = Wakeup1(state, {TicksChan})
        BY Zenon, <2>2 DEF TimerIntr
      <3>2. \A p \in Slot : at[p] # "sleep_lk"
        BY Zenon, <3>1 DEF ClockInv
      <3>3. \A p \in Slot : ~(state'[p] = "SLEEPING" /\ chan[p] = TicksChan)
        BY <3>1, WakeupFacts
      <3> QED  BY ZenonT(60), <1>0, <3>1, <3>2, <3>3 DEF ClockInv, SleepersHaveTicksLeft
    <2> QED  BY Zenon, <2>1, <2>2
  <1> QED  BY Zenon, <1>1, <1>2, <1>3, <1>4, <1>5, <1>6, <1>7

\* The end of trap() for a timer interrupt: exit() or yield().
LEMMA TimerYieldStep ==
    ASSUME IInv, NEW c \in CPU, TimerYield(c)
    PROVE  IInv'
  <1> USE Consts DEF IInv
  <1> DEFINE p == proc[c]
  <1>0. /\ p \in Slot /\ state[p] = "RUNNING" /\ lock # c /\ tickslock # c
        /\ intr' = [intr EXCEPT ![c] = FALSE]
        /\ UNCHANGED <<pid, parent, chan, killed, priority, ticks_waiting,
                       kstack, child, ticks0, want, nextpid, ticks, tickslock,
                       proc, panicked>>
    BY DEF TimerYield, TypeOK, CpuInv
  <1>a. at[p] # "sleep_lk"
    <2>1. \A d \in CPU : proc[d] = p => d = c
      BY Zenon, <1>0 DEF CpuInv
    <2> QED  BY ZenonT(60), <2>1, <1>0 DEF ClockInv
  <1>b. /\ \A d \in CPU : d # c => intr'[d] = intr[d]
        /\ ~intr'[c] /\ intr' \in [CPU -> BOOLEAN]
    BY Zenon, <1>0 DEF TypeOK
  <1>1. CASE at[p] = "user" /\ killed[p] /\ Goto(p, "exit") /\ UNCHANGED <<state, lock>>
    <2>1. TypeOK'
      BY Zenon, <1>0, <1>1, <1>b DEF TypeOK, Goto, Points
    <2>2. CpuInv'
      BY <1>0, <1>1, <1>b DEF CpuInv
    <2>3. StackInv'
      BY <1>0, <1>1 DEF TypeOK, StackInv, Goto, Live
    <2>4. ForkInv'
      BY <1>0, <1>1, ForkFrame DEF TypeOK, Goto, ForkPoints
    <2>5. FamilyInv'
      BY Zenon, <1>0, <1>1 DEF FamilyInv
    <2>6. SleepInv'
      BY Zenon, <1>0, <1>1, SleepFrame DEF TypeOK, Goto
    <2>7. ClockInv'
      BY Zenon, <1>0, <1>1, ClockFrame DEF TypeOK, Goto
    <2> QED  BY Zenon, <2>1, <2>2, <2>3, <2>4, <2>5, <2>6, <2>7
  <1>2. CASE /\ lock = None
             /\ state' = [state EXCEPT ![p] = "RUNNABLE"]
             /\ Goto(p, IF at[p] = "user" THEN "ret" ELSE at[p])
             /\ lock' = c
    <2>a. /\ \A x \in Slot : x # p => state'[x] = state[x] /\ at'[x] = at[x]
          /\ state'[p] = "RUNNABLE"
          /\ \/ at[p] = "user" /\ at'[p] = "ret"
             \/ at[p] # "user" /\ at'[p] = at[p]
      BY Zenon, <1>0, <1>2 DEF TypeOK, Goto
    <2>1. TypeOK'
      BY ZenonT(60), <1>0, <1>2, <1>b DEF TypeOK, Goto, States, Points
    <2>2. CpuInv'
      BY <1>0, <1>2, <1>b DEF TypeOK, CpuInv
    <2>3. StackInv'
      BY Zenon, <1>0, <2>a DEF StackInv, Live
    <2>4. ForkInv'
      BY Zenon, <1>0, <2>a, ForkFrame DEF ForkPoints
    <2>5. FamilyInv'
      BY Zenon, <1>0, <2>a, FamilyFrame DEF Live
    <2>6. SleepInv'
      BY Zenon, <1>0, <2>a, SleepFrame
    <2>7. ClockInv'
      BY SMTT(30), <1>0, <1>a, <1>2, <2>a, ClockFrame
    <2> QED  BY Zenon, <2>1, <2>2, <2>3, <2>4, <2>5, <2>6, <2>7
  <1> QED  BY Zenon, <1>1, <1>2 DEF TimerYield

\* trap(): an exception kills the process.
LEMMA UserFaultStep ==
    ASSUME IInv, NEW c \in CPU, UserFault(c)
    PROVE  IInv'
  <1> DEFINE p == proc[c]
  <1>1. p \in Slot /\ state[p] = "RUNNING" /\ at[p] = "user"
    BY Zenon, ExecutesRunning DEF UserFault, IInv
  <1>2. /\ killed' \in [Slot -> BOOLEAN]
        /\ \A q \in Slot : q # p => killed'[q] = killed[q]
    BY Zenon, <1>1 DEF UserFault, IInv, TypeOK
  <1>3. /\ priority' \in [Slot -> 0..MAX_PRIORITY]
        /\ ticks_waiting' \in [Slot -> 0..AGING_THRESHOLD]
    BY SMTT(30) DEF UserFault, IInv, TypeOK
  <1> QED  BY ZenonT(60), <1>1, <1>2, <1>3, MovesOn DEF UserFault, ForkPoints

\* trap(): entry into a system call.
LEMMA SyscallStep ==
    ASSUME IInv, NEW c \in CPU, NEW call \in Calls, Syscall(c, call)
    PROVE  IInv'
  <1> DEFINE p == proc[c]
  <1>1. p \in Slot /\ state[p] = "RUNNING" /\ at[p] = "user"
    BY ZenonT(60), ExecutesRunning DEF Syscall, IInv
  <1>2. PICK x \in Calls \ {"fault"} : Goto(p, x)
    BY ZenonT(60) DEF Syscall, Calls
  <1>3. x \in {"user", "ret", "exit", "fork", "wait", "kill", "setpriority", "sleep"}
    BY SMTT(30) DEF Calls
  <1> QED  BY ZenonT(60), <1>1, <1>2, <1>3, MovesOn DEF Syscall, pvars, IInv, TypeOK, ForkPoints

\* trap(): the way back to user space.
LEMMA ReturnStep ==
    ASSUME IInv, NEW c \in CPU, Return(c)
    PROVE  IInv'
  <1> DEFINE p == proc[c]
  <1>1. p \in Slot /\ state[p] = "RUNNING" /\ at[p] = "ret"
    BY ZenonT(60), ExecutesRunning DEF Return, IInv
  <1>2. PICK x \in {"user", "exit"} : Goto(p, x)
    BY SMTT(30) DEF Return
  <1> QED  BY ZenonT(60), <1>1, <1>2, MovesOn DEF Return, pvars, IInv, TypeOK, ForkPoints

\* sys_setpriority().
LEMMA SetPriorityStep ==
    ASSUME IInv, NEW c \in CPU, NEW n, NEW v, SetPriority(c, n, v)
    PROVE  IInv'
  <1> DEFINE p == proc[c]
  <1>1. p \in Slot /\ state[p] = "RUNNING" /\ at[p] = "setpriority"
    BY ZenonT(60), ExecutesRunning DEF SetPriority, IInv
  <1>2. /\ priority' \in [Slot -> 0..MAX_PRIORITY]
        /\ ticks_waiting' \in [Slot -> 0..AGING_THRESHOLD]
    <2>1. ASSUME NEW q \in Slot, v \in MIN_PRIORITY..MAX_PRIORITY,
                 priority' = [priority EXCEPT ![q] = v],
                 ticks_waiting' = [ticks_waiting EXCEPT ![q] = 0]
          PROVE  /\ priority' \in [Slot -> 0..MAX_PRIORITY]
                 /\ ticks_waiting' \in [Slot -> 0..AGING_THRESHOLD]
      <3>1. v \in 0..MAX_PRIORITY /\ 0 \in 0..AGING_THRESHOLD
        BY <2>1, ProcAssumption
      <3> QED  BY Zenon, <2>1, <3>1 DEF IInv, TypeOK
    <2>2. CASE UNCHANGED <<priority, ticks_waiting>>
      BY Zenon, <2>2 DEF IInv, TypeOK
    <2> QED  BY ZenonT(60), <2>1, <2>2 DEF SetPriority, WithPid, First
  <1>3. killed' = killed /\ killed \in [Slot -> BOOLEAN]
    BY SMTT(30) DEF SetPriority, IInv, TypeOK
  <1>4. /\ Goto(p, "ret")
        /\ UNCHANGED <<state, pid, parent, chan, kstack, child, ticks0, want,
                       nextpid, ticks, lock, tickslock, proc, intr, panicked>>
    BY ZenonT(60) DEF SetPriority
  <1> QED  BY ZenonT(60), <1>1, <1>2, <1>3, <1>4, MovesOn DEF ForkPoints

\* kill().
LEMMA KillStep ==
    ASSUME IInv, NEW c \in CPU, NEW n \in KillPids, Kill(c, n)
    PROVE  IInv'
  <1> USE Consts DEF IInv
  <1> DEFINE p == proc[c]
  <1>0. /\ p \in Slot /\ state[p] = "RUNNING" /\ at[p] = "kill"
        /\ Goto(p, "ret")
        /\ UNCHANGED <<pid, parent, chan, priority, ticks_waiting, kstack,
                       child, ticks0, want, nextpid, ticks, lock, tickslock,
                       proc, intr, panicked>>
    BY ZenonT(60), ExecutesRunning DEF Kill
  <1>a. /\ state' \in [Slot -> States] /\ killed' \in [Slot -> BOOLEAN]
        /\ \A x \in Slot : \/ state'[x] = state[x]
                           \/ state[x] = "SLEEPING" /\ state'[x] = "RUNNABLE"
        /\ \A x \in Slot : state'[x] = "SLEEPING" => killed'[x] = killed[x]
    <2>1. ASSUME NEW q \in WithPid(n),
                 killed' = [killed EXCEPT ![q] = TRUE],
                 state' = IF state[q] = "SLEEPING"
                          THEN [state EXCEPT ![q] = "RUNNABLE"] ELSE state
          PROVE  /\ state' \in [Slot -> States] /\ killed' \in [Slot -> BOOLEAN]
                 /\ \A x \in Slot :
                     \/ state'[x] = state[x]
                     \/ state[x] = "SLEEPING" /\ state'[x] = "RUNNABLE"
                 /\ \A x \in Slot :
                     state'[x] = "SLEEPING" => killed'[x] = killed[x]
      <3>1. q \in Slot
        BY Zenon DEF WithPid, First
      <3>2. /\ killed' \in [Slot -> BOOLEAN]
            /\ \A x \in Slot : x # q => killed'[x] = killed[x]
        BY Zenon, <2>1, <3>1 DEF TypeOK
      <3>3. CASE state[q] = "SLEEPING"
        BY ZenonT(60), <2>1, <3>1, <3>2, <3>3 DEF TypeOK, States
      <3>4. CASE state[q] # "SLEEPING"
        BY ZenonT(60), <2>1, <3>1, <3>2, <3>4 DEF TypeOK
      <3> QED  BY Zenon, <3>3, <3>4
    <2>2. CASE UNCHANGED <<killed, state>>
      BY Zenon, <2>2 DEF TypeOK
    <2> QED  BY Zenon, <2>1, <2>2 DEF Kill
  <1>b. /\ \A x \in Slot : x # p => at'[x] = at[x]
        /\ at'[p] = "ret" /\ at' \in [Slot -> Points]
    BY Zenon, <1>0 DEF TypeOK, Goto, Points
  <1> HIDE DEF p
  <1>1. TypeOK'
    BY Zenon, <1>0, <1>a, <1>b DEF TypeOK
  <1>2. CpuInv'
    <2>1. \A d \in CPU : proc[d] # None => proc[d] \in Slot
      BY Zenon DEF TypeOK
    <2> QED  BY ZenonT(60), <1>0, <1>a, <2>1, CpuFrame
  <1>3. StackInv'
    BY Zenon, <1>0, <1>a, <1>b DEF StackInv, Live
  <1>4. ForkInv'
    <2>1. /\ \A x \in Slot : state'[x] = "EMBRYO" <=> state[x] = "EMBRYO"
          /\ \A x \in Slot : state[x] = "EMBRYO" => at'[x] = at[x]
          /\ \A x \in Slot : at'[x] \in ForkPoints => at'[x] = at[x]
          /\ \A x \in Slot : at[x] \in ForkPoints => at'[x] = at[x]
      BY Zenon, <1>0, <1>a, <1>b DEF ForkPoints
    <2> QED  BY Zenon, <1>0, <2>1, ForkFrame
  <1>5. FamilyInv'
    BY Zenon, <1>0, <1>a, FamilyFrame DEF Live
  <1>6. SleepInv'
    BY Zenon, <1>0, <1>a, <1>b, SleepFrame
  <1>7. ClockInv'
    BY Zenon, <1>0, <1>a, <1>b, ClockFrame
  <1> QED  BY SMTT(30), <1>1, <1>2, <1>3, <1>4, <1>5, <1>6, <1>7

\* sleep(&ticks, &tickslock), up to sched().
LEMMA SleepSchedStep ==
    ASSUME IInv, NEW c \in CPU, SleepSched(c)
    PROVE  IInv'
  <1> USE Consts DEF IInv
  <1> DEFINE p == proc[c]
  <1>0. /\ p \in Slot /\ state[p] = "RUNNING" /\ at[p] = "sleep_lk"
        /\ lock = None /\ ~intr[c] /\ lock' = c /\ tickslock' = None
        /\ UNCHANGED <<pid, parent, killed, priority, ticks_waiting, kstack,
                       child, ticks0, want, nextpid, ticks, proc, intr,
                       panicked>>
    BY SMTT(30), ExecutesRunning DEF SleepSched, Executes
  <1>a. /\ \A q \in Slot : q # p =>
              at'[q] = at[q] /\ chan'[q] = chan[q] /\ state'[q] = state[q]
        /\ at'[p] = "sleep_slept" /\ chan'[p] = TicksChan
        /\ state'[p] = "SLEEPING"
        /\ at' \in [Slot -> Points] /\ chan' \in [Slot -> 0..TicksChan]
        /\ state' \in [Slot -> States]
    BY <1>0 DEF SleepSched, Goto, TypeOK, Points, States
  <1>b. /\ \A d \in CPU : proc[d] = p => d = c
        /\ \A q \in Slot : at[q] = "sleep_lk" => q = p
    <2>1. \A d \in CPU : proc[d] = p => d = c
      BY <1>0 DEF CpuInv
    <2>2. tickslock = c
      BY ZenonT(60), <1>0, <2>1 DEF ClockInv
    <2>3. \A q \in Slot : at[q] = "sleep_lk" => proc[c] = q
      BY Zenon, <2>2 DEF ClockInv
    <2> QED  BY Zenon, <2>1, <2>3
  <1>1. TypeOK'
    BY Zenon, <1>0, <1>a DEF TypeOK
  <1>2. CpuInv'
    <2>1. \A d \in CPU : proc[d] # None => proc[d] \in Slot
      BY Zenon DEF TypeOK
    <2>2. \A d \in CPU : proc[d] # None =>
            \/ state'[proc[d]] = "RUNNING"
            \/ lock' = d /\ state'[proc[d]] \in {"RUNNABLE", "SLEEPING", "ZOMBIE"}
      BY ZenonT(60), <1>0, <1>a, <1>b, <2>1 DEF CpuInv
    <2>3. \A q \in Slot : state'[q] = "RUNNING" => \E d \in CPU : proc[d] = q
      BY <1>a DEF CpuInv
    <2>4. \A d \in CPU : intr[d] => proc[d] # None /\ lock' # d /\ tickslock' # d
      BY Zenon, <1>0 DEF CpuInv
    <2> QED  BY <1>0, <2>2, <2>3, <2>4 DEF CpuInv
  <1>3. StackInv'
    BY Zenon, <1>0, <1>a DEF StackInv, Live
  <1>4. ForkInv'
    BY Zenon, <1>0, <1>a, ForkFrame DEF ForkPoints
  <1>5. FamilyInv'
    BY Zenon, <1>0, <1>a, FamilyFrame DEF Live
  <1>6. SleepInv'
    <2>1. \A q \in Slot : Kids(q)' = Kids(q) /\ Zombies(q)' = Zombies(q)
      BY ZenonT(60), <1>0, <1>a DEF Kids, Zombies
    <2>2. \A q \in Slot : q # p /\ state[q] = "SLEEPING" /\ chan[q] = q =>
            Kids(q) # {} /\ Zombies(q) = {} /\ ~killed[q]
      BY Zenon DEF SleepInv, WaitersWaitForSomething
    <2>3. WaitersWaitForSomething'
      BY <1>0, <1>a, <2>1, <2>2 DEF WaitersWaitForSomething
    <2> QED  BY Zenon, <1>0, <1>a, <2>3 DEF SleepInv
  <1>7. ClockInv'
    <2>1. \A q \in Slot : at'[q] # "sleep_lk"
      BY Zenon, <1>a, <1>b
    <2>2. (ticks - ticks0[p]) % TickMod < want[p]
      BY ZenonT(60), <1>0 DEF ClockInv
    <2>3. SleepersHaveTicksLeft'
      BY Zenon, <1>0, <1>a, <2>2 DEF ClockInv, SleepersHaveTicksLeft
    <2> QED  BY Zenon, <1>0, <2>1, <2>3 DEF ClockInv
  <1> QED  BY Zenon, <1>1, <1>2, <1>3, <1>4, <1>5, <1>6, <1>7

----------------------------------------------------------------------------
(* fork().                                                                 *)

\* The slot a fork() works on, and what nobody else knows of it yet: this is
\* why fork() may write to it without ptable.lock.
LEMMA ForkChild ==
    ASSUME IInv, NEW p \in Slot, state[p] = "RUNNING", at[p] \in ForkPoints
    PROVE  /\ child[p] \in Slot /\ child[p] # p /\ child[p] # InitProc
           /\ state[child[p]] = "EMBRYO"
           /\ at[child[p]] \in {"none", "forkret"}
           /\ at[p] # "fork_run" => parent[child[p]] = None
           /\ \A x \in Slot : x # p /\ at[x] \in ForkPoints => child[x] # child[p]
           /\ \A x \in Slot : parent[x] # child[p]
           /\ \A d \in CPU : proc[d] # child[p]
  <1> USE Consts DEF IInv
  <1>1. child[p] \in Slot /\ state[child[p]] = "EMBRYO"
    BY Zenon DEF ForkInv
  <1>2. child[p] # p /\ child[p] # InitProc
    BY Zenon, <1>1 DEF FamilyInv, Live
  <1>3. at[child[p]] \in {"none", "forkret"}
    BY ZenonT(60), <1>1 DEF StackInv
  <1>4. \A x \in Slot : x # p /\ at[x] \in ForkPoints => child[x] # child[p]
    BY Zenon DEF ForkInv
  <1>5. ASSUME at[p] # "fork_run", parent[child[p]] # None PROVE FALSE
    <2>1. parent[child[p]] \in Slot
      BY ZenonT(60), <1>1, <1>5 DEF TypeOK
    <2>2. at[parent[child[p]]] = "fork_run" /\ child[parent[child[p]]] = child[p]
      BY ZenonT(60), <1>1, <1>5 DEF ForkInv
    <2> QED  BY ZenonT(60), <2>1, <2>2, <1>4, <1>5 DEF ForkPoints
  <1>6. \A x \in Slot : parent[x] # child[p]
    BY Zenon, <1>1 DEF FamilyInv, Live
  <1>7. \A d \in CPU : proc[d] # child[p]
    BY Zenon, <1>1 DEF CpuInv
  <1> QED  BY Zenon, <1>1, <1>2, <1>3, <1>4, <1>5, <1>6, <1>7

\* fork() gives its slot back before anybody learnt of it.
LEMMA ForkDrop ==
    ASSUME TypeOK, ForkInv, NEW p \in Slot, NEW np \in Slot, None \notin Slot,
           p # np, at'[p] = "ret", at[np] \notin ForkPoints,
           parent' = parent, parent[np] = None, state'[np] = "UNUSED",
           at[p] # "fork_run", at[p] \in ForkPoints, child[p] = np,
           state[p] = "RUNNING", at'[np] \notin ForkPoints,
           \A x \in Slot : x # np => state'[x] = state[x],
           \A x \in Slot : x # np => kstack'[x] = kstack[x],
           \A x \in Slot : x # p => child'[x] = child[x],
           \A x \in Slot : x # p /\ x # np => at'[x] = at[x]
    PROVE  ForkInv'
  <1>1. ASSUME NEW x \in Slot, at'[x] \in ForkPoints
        PROVE  /\ x # p /\ x # np /\ at'[x] = at[x] /\ child'[x] = child[x]
               /\ child[x] \in Slot /\ child[x] # np /\ child[x] # p
    <2>1. x # p /\ x # np
      BY Zenon, <1>1 DEF ForkPoints
    <2>2. at'[x] = at[x] /\ at[x] \in ForkPoints /\ child'[x] = child[x]
      BY Zenon, <1>1, <2>1
    <2> QED  BY Zenon, <2>1, <2>2 DEF ForkInv
  <1>2. ASSUME NEW x \in Slot, at'[x] \in ForkPoints
        PROVE  /\ child'[x] \in Slot /\ state'[child'[x]] = "EMBRYO"
               /\ at'[x] # "fork_kstack" =>
                    kstack'[child'[x]] /\ at'[child'[x]] = "forkret"
               /\ at'[x] = "fork_run" => parent'[child'[x]] = x
    <2>1. /\ at'[x] = at[x] /\ at[x] \in ForkPoints /\ child'[x] = child[x]
          /\ child[x] \in Slot
          /\ state'[child[x]] = state[child[x]] /\ at'[child[x]] = at[child[x]]
          /\ kstack'[child[x]] = kstack[child[x]]
      BY Zenon, <1>1, <1>2
    <2> QED  BY <2>1 DEF ForkInv
  <1>3. ASSUME NEW x \in Slot, NEW z \in Slot, at'[x] \in ForkPoints,
               at'[z] \in ForkPoints, child'[x] = child'[z]
        PROVE  x = z
    <2>1. at[x] \in ForkPoints /\ at[z] \in ForkPoints /\ child[x] = child[z]
      BY Zenon, <1>1, <1>3
    <2> QED  BY Zenon, <2>1 DEF ForkInv
  <1>4. ASSUME NEW x \in Slot, state'[x] = "EMBRYO", parent'[x] # None
        PROVE  at'[parent'[x]] = "fork_run" /\ child'[parent'[x]] = x
    <2>1. state[x] = "EMBRYO" /\ parent[x] \in Slot
      BY <1>4 DEF TypeOK
    <2>2. at[parent[x]] = "fork_run" /\ child[parent[x]] = x
      BY Zenon, <1>4, <2>1 DEF ForkInv
    <2>3. parent[x] # p /\ parent[x] # np
      BY Zenon, <2>2 DEF ForkPoints
    <2> QED  BY Zenon, <2>1, <2>2, <2>3
  <1> QED  BY Zenon, <1>2, <1>3, <1>4 DEF ForkInv

\* allocproc(): the slot.
LEMMA AllocProcStep ==
    ASSUME IInv, NEW c \in CPU, AllocProc(c)
    PROVE  IInv'
  <1> USE Consts DEF IInv
  <1> DEFINE p == proc[c]
             Unused == {q \in Slot : state[q] = "UNUSED"}
  <1>0. /\ p \in Slot /\ state[p] = "RUNNING" /\ at[p] = "fork"
        /\ UNCHANGED <<parent, chan, killed, kstack, ticks0, want, ticks, lock,
                       tickslock, proc, intr, panicked>>
    BY Zenon, ExecutesRunning DEF AllocProc
  <1>1. ASSUME NEW np \in First(Unused),
               state' = [state EXCEPT ![np] = "EMBRYO"],
               pid' = [pid EXCEPT ![np] = nextpid],
               nextpid' = nextpid + 1,
               priority' = [priority EXCEPT ![np] = DEFAULT_PRIORITY],
               ticks_waiting' = [ticks_waiting EXCEPT ![np] = 0],
               child' = [child EXCEPT ![p] = np],
               Goto(p, "fork_kstack")
        PROVE  IInv'
    <2>0. np \in Slot /\ state[np] = "UNUSED" /\ np # p
      BY Zenon, <1>0 DEF First
    <2>a. /\ at[np] \in {"none", "forkret"} /\ parent[np] = None
          /\ \A x \in Slot : x # np => state'[x] = state[x]
          /\ \A x \in Slot : x # p => at'[x] = at[x] /\ child'[x] = child[x]
          /\ state'[np] = "EMBRYO" /\ at'[p] = "fork_kstack" /\ child'[p] = np
      BY <1>0, <1>1, <2>0 DEF TypeOK, StackInv, FamilyInv, Goto
    <2>1. TypeOK'
      BY <1>0, <1>1, <2>0, ProcAssumption DEF TypeOK, Goto, States, Points
    <2>2. CpuInv'
      <3>1. \A d \in CPU : proc[d] # None => proc[d] \in Slot /\ proc[d] # np
        BY <2>0 DEF CpuInv, TypeOK
      <3> QED  BY ZenonT(60), <1>0, <2>0, <2>a, <3>1, CpuFrame
    <2>3. StackInv'
      BY <1>0, <2>0, <2>a DEF StackInv, Live
    <2>4. ForkInv'
      <3>1. ASSUME NEW x \in Slot, x # p, at'[x] \in ForkPoints
            PROVE  /\ at'[x] = at[x] /\ child'[x] = child[x]
                   /\ child[x] \in Slot /\ child[x] # np /\ child[x] # p
        BY Zenon, <3>1, <1>0, <2>0, <2>a DEF ForkInv
      <3>2. ASSUME NEW x \in Slot, state'[x] = "EMBRYO", parent'[x] # None
            PROVE  at'[parent'[x]] = "fork_run" /\ child'[parent'[x]] = x
        <4>1. x # np /\ state[x] = "EMBRYO" /\ parent[x] # None
          BY Zenon, <3>2, <1>0, <2>a
        <4>2. at[parent[x]] = "fork_run" /\ child[parent[x]] = x /\ parent[x] \in Slot
          BY <4>1 DEF ForkInv, TypeOK
        <4> QED  BY ZenonT(60), <4>2, <1>0, <2>a
      <3>3. ASSUME NEW x \in Slot, at'[x] \in ForkPoints
            PROVE  /\ child'[x] \in Slot /\ state'[child'[x]] = "EMBRYO"
                   /\ at'[x] # "fork_kstack" =>
                        kstack'[child'[x]] /\ at'[child'[x]] = "forkret"
                   /\ at'[x] = "fork_run" => parent'[child'[x]] = x
        <4>1. CASE x = p
          BY Zenon, <4>1, <2>0, <2>a
        <4>2. CASE x # p
          <5>1. /\ at[x] \in ForkPoints /\ child'[x] = child[x]
                /\ child[x] \in Slot /\ at'[x] = at[x]
                /\ state'[child[x]] = state[child[x]]
                /\ at'[child[x]] = at[child[x]]
            BY ZenonT(60), <4>2, <3>1, <3>3, <2>a
          <5> QED  BY <5>1, <1>0 DEF ForkInv
        <4> QED  BY Zenon, <4>1, <4>2
      <3>4. ASSUME NEW x \in Slot, NEW z \in Slot, at'[x] \in ForkPoints,
                   at'[z] \in ForkPoints, child'[x] = child'[z]
            PROVE  x = z
        BY <3>4, <3>1, <2>a DEF ForkInv
      <3> QED  BY Zenon, <3>2, <3>3, <3>4 DEF ForkInv
    <2>5. FamilyInv'
      BY Zenon, <1>0, <2>0, <2>a, FamilyFrame DEF Live
    <2>6. SleepInv'
      BY Zenon, <1>0, <2>0, <2>a, SleepFrame
    <2>7. ClockInv'
      BY Zenon, <1>0, <2>0, <2>a, ClockFrame
    <2> QED  BY Zenon, <2>1, <2>2, <2>3, <2>4, <2>5, <2>6, <2>7
  <1>2. ASSUME Goto(p, "ret"),
               UNCHANGED <<state, pid, nextpid, priority, ticks_waiting, child>>
        PROVE  IInv'
    BY ZenonT(60), <1>0, <1>2, MovesOn DEF TypeOK, ForkPoints
  <1> QED  BY ZenonT(60), <1>1, <1>2 DEF AllocProc

\* allocproc(): the kernel stack.
LEMMA AllocKstackStep ==
    ASSUME IInv, NEW c \in CPU, AllocKstack(c)
    PROVE  IInv'
  <1> USE Consts DEF IInv
  <1> DEFINE p == proc[c]
             np == child[p]
  <1>0. /\ p \in Slot /\ state[p] = "RUNNING" /\ at[p] = "fork_kstack"
        /\ UNCHANGED <<pid, parent, chan, killed, priority, ticks_waiting,
                       ticks0, want, nextpid, ticks, lock, tickslock, proc,
                       intr, panicked>>
    BY Zenon, ExecutesRunning DEF AllocKstack
  <1>a. /\ np \in Slot /\ np # p /\ np # InitProc /\ state[np] = "EMBRYO"
        /\ at[np] \in {"none", "forkret"} /\ parent[np] = None
        /\ \A x \in Slot : x # p /\ at[x] \in ForkPoints => child[x] # np
        /\ \A x \in Slot : parent[x] # np
        /\ \A d \in CPU : proc[d] # np
    BY ZenonT(60), <1>0, ForkChild DEF ForkPoints
  <1>1. ASSUME kstack' = [kstack EXCEPT ![np] = TRUE],
               at' = [at EXCEPT ![np] = "forkret", ![p] = "fork_copy"],
               UNCHANGED <<state, child>>
        PROVE  IInv'
    <2>a. /\ \A x \in Slot : x # np => kstack'[x] = kstack[x]
          /\ \A x \in Slot : x # np /\ x # p => at'[x] = at[x]
          /\ kstack'[np] /\ at'[np] = "forkret" /\ at'[p] = "fork_copy"
      BY <1>0, <1>a, <1>1 DEF TypeOK
    <2>1. TypeOK'
      <3>1. kstack' \in [Slot -> BOOLEAN]
        BY ZenonT(60), <1>1 DEF TypeOK
      <3>2. at' \in [Slot -> Points]
        BY ZenonT(60), <1>1 DEF TypeOK, Points
      <3> QED  BY Zenon, <1>0, <1>1, <3>1, <3>2 DEF TypeOK
    <2>2. CpuInv'
      BY Zenon, <1>0, <1>1 DEF CpuInv
    <2>3. StackInv'
      <3>1. \A x \in Slot : /\ state'[x] = state[x]
                            /\ state[x] \in Live \cup {"ZOMBIE"} => x # np
        BY Zenon, <1>a, <1>1 DEF Live
      <3>2. \A x \in Slot : state[x] \in {"UNUSED", "EMBRYO", "ZOMBIE"} => x # p
        BY Zenon, <1>0
      <3>3. \A x \in Slot : state[x] \in Live => at'[x] \notin {"dead", "none"}
        BY Zenon, <2>a, <3>1 DEF StackInv
      <3>4. \A x \in Slot : state[x] = "ZOMBIE" => at'[x] = "dead"
        BY Zenon, <2>a, <3>1, <3>2 DEF StackInv
      <3>5. \A x \in Slot : state[x] \in {"UNUSED", "EMBRYO"} =>
                at'[x] \in {"none", "forkret"}
        BY ZenonT(60), <2>a, <3>2 DEF StackInv
      <3>6. \A x \in Slot : state[x] \in Live \cup {"ZOMBIE"} => kstack'[x]
        BY Zenon, <2>a, <3>1 DEF StackInv
      <3> QED  BY Zenon, <3>1, <3>3, <3>4, <3>5, <3>6 DEF StackInv
    <2>4. ForkInv'
      <3>1. ASSUME NEW x \in Slot, x # p, at'[x] \in ForkPoints
            PROVE  /\ x # np /\ at'[x] = at[x] /\ child[x] \in Slot
                   /\ child[x] # np /\ child[x] # p
        <4>1. x # np
          BY Zenon, <3>1, <2>a DEF ForkPoints
        <4>2. at'[x] = at[x] /\ at[x] \in ForkPoints
          BY Zenon, <3>1, <4>1, <2>a
        <4>3. child[x] \in Slot /\ state[child[x]] = "EMBRYO"
          BY Zenon, <4>2 DEF ForkInv
        <4> QED  BY Zenon, <3>1, <4>1, <4>2, <4>3, <1>0, <1>a
      <3>2. ASSUME NEW x \in Slot, state'[x] = "EMBRYO", parent'[x] # None
            PROVE  at'[parent'[x]] = "fork_run" /\ child'[parent'[x]] = x
        <4>1. at[parent[x]] = "fork_run" /\ child[parent[x]] = x /\ parent[x] \in Slot
          BY <3>2, <1>0, <1>1 DEF ForkInv, TypeOK
        <4> QED  BY ZenonT(60), <4>1, <1>0, <1>a, <1>1, <2>a
      <3>3. ASSUME NEW x \in Slot, at'[x] \in ForkPoints
            PROVE  /\ child'[x] \in Slot /\ state'[child'[x]] = "EMBRYO"
                   /\ at'[x] # "fork_kstack" =>
                        kstack'[child'[x]] /\ at'[child'[x]] = "forkret"
                   /\ at'[x] = "fork_run" => parent'[child'[x]] = x
        <4>1. CASE x = p
          BY ZenonT(60), <4>1, <1>0, <1>a, <1>1, <2>a
        <4>2. CASE x # p
          <5>1. /\ at[x] \in ForkPoints /\ child[x] \in Slot /\ at'[x] = at[x]
                /\ kstack'[child[x]] = kstack[child[x]]
                /\ at'[child[x]] = at[child[x]]
            BY ZenonT(60), <4>2, <3>1, <3>3, <2>a
          <5> QED  BY <5>1, <1>0, <1>1 DEF ForkInv
        <4> QED  BY Zenon, <4>1, <4>2
      <3>4. ASSUME NEW x \in Slot, NEW z \in Slot, at'[x] \in ForkPoints,
                   at'[z] \in ForkPoints, child'[x] = child'[z]
            PROVE  x = z
        <4>1. \A y \in Slot : at'[y] \in ForkPoints => at[y] \in ForkPoints
          BY Zenon, <3>1, <1>0 DEF ForkPoints
        <4> QED  BY ZenonT(60), <3>4, <4>1, <1>1 DEF ForkInv
      <3> QED  BY Zenon, <3>2, <3>3, <3>4 DEF ForkInv
    <2>5. FamilyInv'
      BY Zenon, <1>0, <1>1, FamilyFrame
    <2>6. SleepInv'
      BY ZenonT(60), <1>0, <1>a, <1>1, <2>a, SleepFrame
    <2>7. ClockInv'
      BY ZenonT(60), <1>0, <1>a, <1>1, <2>a, ClockFrame
    <2> QED  BY Zenon, <2>1, <2>2, <2>3, <2>4, <2>5, <2>6, <2>7
  <1>2. ASSUME state' = [state EXCEPT ![np] = "UNUSED"],
               child' = [child EXCEPT ![p] = None],
               Goto(p, "ret"), UNCHANGED kstack
        PROVE  IInv'
    <2>a. /\ \A x \in Slot : x # np => state'[x] = state[x]
          /\ \A x \in Slot : x # p => at'[x] = at[x] /\ child'[x] = child[x]
          /\ state'[np] = "UNUSED" /\ at'[p] = "ret"
      BY <1>0, <1>a, <1>2 DEF TypeOK, Goto
    <2>1. TypeOK'
      BY Zenon, <1>0, <1>a, <1>2 DEF TypeOK, Goto, States, Points
    <2>2. CpuInv'
      <3>1. \A d \in CPU : proc[d] # None => proc[d] \in Slot
        BY Zenon DEF TypeOK
      <3> QED  BY ZenonT(60), <1>0, <1>a, <2>a, <3>1, CpuFrame
    <2>3. StackInv'
      <3>1. \A x \in Slot : state'[x] \in Live \cup {"ZOMBIE"} =>
              x # np /\ state'[x] = state[x]
        BY Zenon, <2>a DEF Live
      <3>2. \A x \in Slot : state'[x] \in {"UNUSED", "EMBRYO"} => x # p
        BY Zenon, <1>0, <1>a, <2>a
      <3>3. \A x \in Slot : state'[x] \in Live \cup {"ZOMBIE"} => kstack'[x]
        BY Zenon, <1>2, <3>1 DEF StackInv
      <3>4. \A x \in Slot : state'[x] \in Live => at'[x] \notin {"dead", "none"}
        BY Zenon, <2>a, <3>1 DEF StackInv
      <3>5. \A x \in Slot : state'[x] \in {"UNUSED", "EMBRYO"} =>
              at'[x] \in {"none", "forkret"}
        BY Zenon, <1>a, <2>a, <3>2 DEF StackInv
      <3>6. \A x \in Slot : state'[x] = "ZOMBIE" => at'[x] = "dead"
        BY SMTT(30), <1>0, <1>a, <2>a DEF StackInv
      <3> QED  BY Zenon, <3>3, <3>4, <3>5, <3>6 DEF StackInv
    <2>4. ForkInv'
      <3>1. /\ at[np] \notin ForkPoints /\ at'[np] \notin ForkPoints
            /\ at[p] \in ForkPoints /\ at[p] # "fork_run"
            /\ parent' = parent
            /\ \A x \in Slot : x # np => kstack'[x] = kstack[x]
        BY ZenonT(60), <1>0, <1>a, <1>2, <2>a DEF ForkPoints
      <3> HIDE DEF p, np
      <3>2. child[p] = np
        BY Zenon DEF np
      <3> QED  BY ZenonT(60), <1>0, <1>a, <2>a, <3>1, <3>2, ForkDrop
    <2>5. FamilyInv'
      BY Zenon, <1>0, <1>a, <2>a, FamilyFrame DEF Live
    <2>6. SleepInv'
      BY <1>0, <1>a, <1>2, <2>a, SleepFrame
    <2>7. ClockInv'
      BY Zenon, <1>0, <1>a, <1>2, <2>a, ClockFrame
    <2> QED  BY Zenon, <2>1, <2>2, <2>3, <2>4, <2>5, <2>6, <2>7
  <1> QED  BY Zenon, <1>1, <1>2 DEF AllocKstack

====
