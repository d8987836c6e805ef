---------------------------- MODULE ProcProofs ------------------------------
(***************************************************************************)
(* The safety theorems of Proc, for every number of slots and CPUs, every  *)
(* set of programs and every bound.  IInv is inductive (InitInv, NextInv); *)
(* the properties follow from it.  The steps of scheduler(), wait(), exit()*)
(* and sys_sleep() and the rest of fork() are here; the other ones are in  *)
(* ProcInv.                                                                *)
(***************************************************************************)
EXTENDS ProcInv

\* The provers' time for each leaf.
USE SMTT(60), ZenonT(60)

\* fork(): copyuvm() and the writes to the new process.
LEMMA CopyProcStep ==
    ASSUME IInv, NEW c \in CPU, CopyProc(c)
    PROVE  IInv'
  <1> USE Consts DEF IInv
  <1> DEFINE p == proc[c]
             np == child[p]
  <1>0. /\ p \in Slot /\ state[p] = "RUNNING" /\ at[p] = "fork_copy"
        /\ UNCHANGED <<pid, chan, killed, ticks_waiting, ticks0, want, nextpid,
                       ticks, lock, tickslock, proc, intr, panicked>>
    BY Zenon, ExecutesRunning DEF CopyProc
  <1>a. /\ np \in Slot /\ np # p /\ np # InitProc /\ state[np] = "EMBRYO"
        /\ at[np] \in {"none", "forkret"} /\ parent[np] = None
        /\ \A x \in Slot : x # p /\ at[x] \in ForkPoints => child[x] # np
        /\ \A x \in Slot : parent[x] # np
        /\ \A d \in CPU : proc[d] # np
    BY ZenonT(60), <1>0, ForkChild DEF ForkPoints
  <1>1. ASSUME parent' = [parent EXCEPT ![np] = p],
               priority' = [priority EXCEPT ![np] = priority[p]],
               Goto(p, "fork_run"),
               UNCHANGED <<state, kstack, child>>
        PROVE  IInv'
    <2>a. /\ \A x \in Slot : x # np => parent'[x] = parent[x]
          /\ \A x \in Slot : x # p => at'[x] = at[x]
          /\ parent'[np] = p /\ at'[p] = "fork_run"
      BY Zenon, <1>0, <1>a, <1>1 DEF TypeOK, Goto
    <2>1. TypeOK'
      BY ZenonT(60), <1>0, <1>a, <1>1 DEF TypeOK, Goto, Points
    <2>2. CpuInv'
      BY Zenon, <1>0, <1>1 DEF CpuInv
    <2>3. StackInv'
      BY <1>0, <1>a, <1>1, <2>a DEF StackInv, Live
    <2>4. ForkInv'
      <3>1. \A y \in Slot : at'[y] \in ForkPoints <=> at[y] \in ForkPoints
        BY Zenon, <1>0, <2>a DEF ForkPoints
      <3>2. ASSUME NEW x \in Slot, state'[x] = "EMBRYO", parent'[x] # None
            PROVE  at'[parent'[x]] = "fork_run" /\ child'[parent'[x]] = x
        <4>1. CASE x = np
          BY Zenon, <4>1, <1>0, <1>1, <2>a
        <4>2. CASE x # np
          <5>1. at[parent[x]] = "fork_run" /\ child[parent[x]] = x /\ parent[x] \in Slot
            BY <4>2, <3>2, <1>1, <2>a DEF ForkInv, TypeOK
          <5> QED  BY Zenon, <4>2, <5>1, <1>0, <1>1, <2>a
        <4> QED  BY Zenon, <4>1, <4>2
      <3>3. ASSUME NEW x \in Slot, at'[x] \in ForkPoints
            PROVE  /\ child'[x] \in Slot /\ state'[child'[x]] = "EMBRYO"
                   /\ at'[x] # "fork_kstack" =>
                        kstack'[child'[x]] /\ at'[child'[x]] = "forkret"
                   /\ at'[x] = "fork_run" => parent'[child'[x]] = x
        <4>1. at[x] \in ForkPoints /\ child[x] \in Slot /\ state[child[x]] = "EMBRYO"
          BY Zenon, <3>1, <3>3 DEF ForkInv
        <4>2. child[x] # p /\ at'[child[x]] = at[child[x]]
          BY ZenonT(60), <4>1, <1>0, <2>a
        <4>3. CASE x = p
          BY <4>1, <4>2, <4>3, <1>0, <1>1, <2>a DEF ForkInv
        <4>4. CASE x # p
          <5>1. at'[x] = at[x] /\ child[x] # np /\ parent'[child[x]] = parent[child[x]]
            BY ZenonT(60), <4>1, <4>4, <1>a, <2>a
          <5> QED  BY <4>1, <4>2, <5>1, <1>1 DEF ForkInv
        <4> QED  BY Zenon, <4>3, <4>4
      <3>4. ASSUME NEW x \in Slot, NEW z \in Slot, at'[x] \in ForkPoints,
                   at'[z] \in ForkPoints, child'[x] = child'[z]
            PROVE  x = z
        BY Zenon, <3>4, <3>1, <1>1 DEF ForkInv
      <3> QED  BY Zenon, <3>2, <3>3, <3>4 DEF ForkInv
    <2>5. FamilyInv'
      <3>1. \A x \in Slot : parent'[x] # None => state[parent'[x]] \in Live
        BY Zenon, <1>0, <2>a DEF FamilyInv, Live
      <3>2. \A x \in Slot : parent'[x] # x
        BY Zenon, <1>a, <2>a DEF FamilyInv
      <3>3. parent'[InitProc] = None
        BY Zenon, <1>a, <2>a DEF FamilyInv
      <3>4. \A x \in Slot : state[x] = "UNUSED" => parent'[x] = None
        BY Zenon, <1>a, <2>a DEF FamilyInv
      <3>5. \A x \in Slot \ {InitProc} :
              state[x] \in Live \cup {"ZOMBIE"} => parent'[x] # None
        BY Zenon, <1>0, <2>a DEF FamilyInv
      <3> QED  BY Zenon, <1>1, <3>1, <3>2, <3>3, <3>4, <3>5 DEF FamilyInv
    <2>6. SleepInv'
      <3>1. \A x \in Slot : x # p => Kids(x)' = Kids(x) /\ Zombies(x)' = Zombies(x)
        BY <1>0, <1>a, <1>1, <2>a DEF Kids, Zombies
      <3> QED  BY <1>0, <1>1, <2>a, <3>1 DEF SleepInv, WaitersWaitForSomething
    <2>7. ClockInv'
      BY Zenon, <1>0, <1>a, <1>1, <2>a, ClockFrame
    <2> QED  BY Zenon, <2>1, <2>2, <2>3, <2>4, <2>5, <2>6, <2>7
  <1>2. ASSUME kstack' = [kstack EXCEPT ![np] = FALSE],
               state' = [state EXCEPT ![np] = "UNUSED"],
               child' = [child EXCEPT ![p] = None],
               at' = [at EXCEPT ![np] = "none", ![p] = "ret"],
               UNCHANGED <<parent, priority>>
        PROVE  IInv'
    <2>a. /\ \A x \in Slot : x # np => state'[x] = state[x]
          /\ \A x \in Slot : x # np => kstack'[x] = kstack[x]
          /\ \A x \in Slot : x # p => child'[x] = child[x]
          /\ \A x \in Slot : x # p /\ x # np => at'[x] = at[x]
          /\ state'[np] = "UNUSED" /\ at'[p] = "ret" /\ at'[np] = "none"
      BY ZenonT(60), <1>0, <1>a, <1>2 DEF TypeOK
    <2>1. TypeOK'
      <3>1. kstack' \in [Slot -> BOOLEAN]
        BY ZenonT(60), <1>2 DEF TypeOK
      <3>2. at' \in [Slot -> Points] /\ state' \in [Slot -> States]
        BY ZenonT(60), <1>2 DEF TypeOK, Points, States
      <3>3. child' \in [Slot -> Slot \cup {None}]
        BY ZenonT(60), <1>2 DEF TypeOK
      <3> QED  BY <1>0, <1>2, <3>1, <3>2, <3>3 DEF TypeOK
    <2>2. CpuInv'
      <3>1. \A d \in CPU : proc[d] # None => proc[d] \in Slot
        BY Zenon DEF TypeOK
      <3> QED  BY ZenonT(60), <1>0, <1>a, <2>a, <3>1, CpuFrame
    <2>3. StackInv'
      <3>1. /\ \A x \in Slot : x # np => state'[x] = state[x] /\ kstack'[x] = kstack[x]
            /\ \A x \in Slot : x # np /\ x # p => at'[x] = at[x]
        BY Zenon, <2>a
      <3>2. state[p] = "RUNNING" /\ at'[p] = "ret" /\ at'[np] = "none"
        BY Zenon, <1>0, <2>a
      <3>3. \A x \in Slot : state'[x] \in Live \cup {"ZOMBIE"} => x # np
        BY Zenon, <2>a DEF Live
      <3>4. \A x \in Slot : state'[x] \in Live =>
              at'[x] \notin {"dead", "none"} /\ kstack'[x]
        BY Zenon, <3>1, <3>2, <3>3 DEF StackInv
      <3>5. \A x \in Slot : state'[x] = "ZOMBIE" => at'[x] = "dead" /\ kstack'[x]
        BY Zenon, <3>1, <3>2, <3>3 DEF StackInv
      <3>6. \A x \in Slot : state'[x] \in {"UNUSED", "EMBRYO"} =>
              at'[x] \in {"none", "forkret"}
        BY Zenon, <3>1, <3>2 DEF StackInv
      <3> QED  BY Zenon, <3>4, <3>5, <3>6 DEF StackInv
    <2>4. ForkInv'
      <3>1. /\ at[np] \notin ForkPoints /\ at'[np] \notin ForkPoints
            /\ at[p] \in ForkPoints /\ at[p] # "fork_run"
            /\ parent' = parent
            /\ \A x \in Slot : x # np => kstack'[x] = kstack[x]
        BY ZenonT(60), <1>0, <1>a, <1>2, <2>a DEF ForkPoints
      <3> HIDE DEF p, np
      <3>2. child[p] = np
        BY Zenon DEF np
      <3> QED  BY ZenonT(60), <1>0, <1>a, <2>a, <3>1, <3>2, ForkDrop
    <2>5. FamilyInv'
      BY Zenon, <1>0, <1>a, <1>2, <2>a, FamilyFrame DEF Live
    <2>6. SleepInv'
      <3>1. \A x \in Slot : state'[x] = "SLEEPING" => state[x] = "SLEEPING" /\ x # np
        BY Zenon, <2>a
      <3>2. \A x \in Slot : state'[x] = "ZOMBIE" <=> state[x] = "ZOMBIE"
        BY Zenon, <1>0, <1>a, <2>a
      <3>3. \A x \in Slot : state'[x] = "SLEEPING" => x # p /\ at'[x] = at[x]
        BY Zenon, <1>0, <3>1, <2>a
      <3>4. UNCHANGED <<parent, chan, killed>>
        BY Zenon, <1>0, <1>2
      <3> QED  BY Zenon, <3>1, <3>2, <3>3, <3>4, SleepFrame
    <2>7. ClockInv'
      BY ZenonT(60), <1>0, <1>a, <1>2, <2>a, ClockFrame
    <2> QED  BY Zenon, <2>1, <2>2, <2>3, <2>4, <2>5, <2>6, <2>7
  <1> QED  BY Zenon, <1>1, <1>2 DEF CopyProc

\* fork(): the child becomes RUNNABLE.
LEMMA ForkRunStep ==
    ASSUME IInv, NEW c \in CPU, ForkRun(c)
    PROVE  IInv'
  <1> USE Consts DEF IInv
  <1> DEFINE p == proc[c]
             np == child[p]
  <1>0. /\ p \in Slot /\ state[p] = "RUNNING" /\ at[p] = "fork_run"
        /\ state' = [state EXCEPT ![np] = "RUNNABLE"]
        /\ child' = [child EXCEPT ![p] = None]
        /\ Goto(p, "ret")
        /\ UNCHANGED <<pid, parent, chan, killed, priority, ticks_waiting,
                       kstack, ticks0, want, nextpid, ticks, lock, tickslock,
                       proc, intr, panicked>>
    BY ZenonT(60), ExecutesRunning DEF ForkRun
  <1>a. /\ np \in Slot /\ np # p /\ np # InitProc /\ state[np] = "EMBRYO"
        /\ \A x \in Slot : x # p /\ at[x] \in ForkPoints => child[x] # np
        /\ \A x \in Slot : parent[x] # np
        /\ \A d \in CPU : proc[d] # np
    BY ZenonT(60), <1>0, ForkChild DEF ForkPoints
  <1>b. kstack[np] /\ at[np] = "forkret" /\ parent[np] = p
    BY ZenonT(60), <1>0 DEF ForkInv, ForkPoints
  <1>c. /\ \A x \in Slot : x # np => state'[x] = state[x]
        /\ \A x \in Slot : x # p => at'[x] = at[x] /\ child'[x] = child[x]
        /\ state'[np] = "RUNNABLE" /\ at'[p] = "ret"
    BY <1>0, <1>a DEF TypeOK, Goto
  <1>1. TypeOK'
    BY Zenon, <1>0, <1>a DEF TypeOK, Goto, States, Points
  <1>2. CpuInv'
    <2>1. \A d \in CPU : proc[d] # None => proc[d] \in Slot
      BY Zenon DEF TypeOK
    <2> QED  BY Zenon, <1>0, <1>a, <1>c, <2>1, CpuFrame
  <1>3. StackInv'
    <2>1. \A x \in Slot : state'[x] \in Live \cup {"ZOMBIE"} => kstack[x]
      BY <1>b, <1>c DEF StackInv
    <2>2. \A x \in Slot : state'[x] \in Live => at'[x] \notin {"dead", "none"}
      BY <1>b, <1>c DEF StackInv
    <2>3. \A x \in Slot : state'[x] \in {"UNUSED", "EMBRYO"} =>
            at'[x] \in {"none", "forkret"}
      BY Zenon, <1>0, <1>c DEF StackInv
    <2>4. \A x \in Slot : state'[x] = "ZOMBIE" => at'[x] = "dead"
      BY <1>0, <1>a, <1>c DEF StackInv
    <2> QED  BY Zenon, <1>0, <2>1, <2>2, <2>3, <2>4 DEF StackInv
  <1>4. ForkInv'
    <2>1. ASSUME NEW x \in Slot, at'[x] \in ForkPoints
          PROVE  /\ x # p /\ at'[x] = at[x] /\ child'[x] = child[x]
                 /\ at[x] \in ForkPoints /\ child[x] \in Slot
                 /\ child[x] # np /\ child[x] # p
      <3>1. x # p
        BY Zenon, <2>1, <1>c DEF ForkPoints
      <3>2. at'[x] = at[x] /\ at[x] \in ForkPoints /\ child'[x] = child[x]
        BY Zenon, <2>1, <3>1, <1>c
      <3> QED  BY Zenon, <3>1, <3>2, <1>0, <1>a DEF ForkInv
    <2>2. ASSUME NEW x \in Slot, at'[x] \in ForkPoints
          PROVE  /\ child'[x] \in Slot /\ state'[child'[x]] = "EMBRYO"
                 /\ at'[x] # "fork_kstack" =>
                      kstack'[child'[x]] /\ at'[child'[x]] = "forkret"
                 /\ at'[x] = "fork_run" => parent'[child'[x]] = x
      <3>1. /\ at'[x] = at[x] /\ child'[x] = child[x] /\ at[x] \in ForkPoints
            /\ state'[child[x]] = state[child[x]]
            /\ at'[child[x]] = at[child[x]] /\ child[x] \in Slot
        BY ZenonT(60), <2>1, <2>2, <1>c
      <3> QED  BY <3>1, <1>0 DEF ForkInv
    <2>3. ASSUME NEW x \in Slot, NEW z \in Slot, at'[x] \in ForkPoints,
                 at'[z] \in ForkPoints, child'[x] = child'[z]
          PROVE  x = z
      <3>1. at[x] \in ForkPoints /\ at[z] \in ForkPoints /\ child[x] = child[z]
        BY Zenon, <2>1, <2>3
      <3> QED  BY Zenon, <3>1 DEF ForkInv
    <2>4. ASSUME NEW x \in Slot, state'[x] = "EMBRYO", parent'[x] # None
          PROVE  at'[parent'[x]] = "fork_run" /\ child'[parent'[x]] = x
      <3>1. x # np /\ state[x] = "EMBRYO" /\ parent[x] \in Slot /\ parent[x] # None
        BY <2>4, <1>0, <1>c DEF TypeOK
      <3>2. at[parent[x]] = "fork_run" /\ child[parent[x]] = x
        BY Zenon, <3>1 DEF ForkInv
      <3> QED  BY ZenonT(60), <3>1, <3>2, <1>0, <1>c
    <2> QED  BY Zenon, <2>2, <2>3, <2>4 DEF ForkInv
  <1>5. FamilyInv'
    BY <1>0, <1>a, <1>b, <1>c, FamilyFrame DEF Live
  <1>6. SleepInv'
    BY <1>0, <1>a, <1>c, SleepFrame
  <1>7. ClockInv'
    BY Zenon, <1>0, <1>a, <1>c, ClockFrame
  <1> QED  BY Zenon, <1>1, <1>2, <1>3, <1>4, <1>5, <1>6, <1>7

\* scheduler() up to swtch().
LEMMA ScheduleStep ==
    ASSUME IInv, NEW c \in CPU, Schedule(c)
    PROVE  IInv'
  <1> USE Consts DEF IInv
  <1>0. /\ proc[c] = None /\ lock = None /\ lock' = c
        /\ priority' = AgedPriority /\ ticks_waiting' = AgedTicks
        /\ UNCHANGED <<pid, parent, chan, killed, kstack, at, child, ticks0,
                       want, nextpid, ticks, tickslock, intr, panicked>>
    BY Zenon DEF Schedule, lvars
  <1>a. PICK p \in Slot : /\ state[p] = "RUNNABLE"
                          /\ proc' = [proc EXCEPT ![c] = p]
                          /\ state' = [state EXCEPT ![p] = "RUNNING"]
    BY ZenonT(60) DEF Schedule, Chosen, First
  <1>b. /\ \A x \in Slot : x # p => state'[x] = state[x]
        /\ \A d \in CPU : d # c => proc'[d] = proc[d]
        /\ state'[p] = "RUNNING" /\ proc'[c] = p
    BY Zenon, <1>a DEF TypeOK
  <1>1. TypeOK'
    <2>1. priority' \in [Slot -> 0..MAX_PRIORITY]
      BY <1>0, ProcAssumption DEF TypeOK, AgedPriority, Ages
    <2>2. ticks_waiting' \in [Slot -> 0..AGING_THRESHOLD]
      BY <1>0, ProcAssumption DEF TypeOK, AgedTicks
    <2>3. state' \in [Slot -> States] /\ proc' \in [CPU -> Slot \cup {None}]
      BY Zenon, <1>a DEF TypeOK, States
    <2> QED  BY Zenon, <1>0, <2>1, <2>2, <2>3 DEF TypeOK
  <1>2. CpuInv'
    <2>1. \A d \in CPU : proc[d] # p
      BY Zenon, <1>0, <1>a DEF CpuInv
    <2>2. \A d \in CPU : proc[d] # None => proc[d] \in Slot
      BY Zenon DEF TypeOK
    <2>3. \A d, e \in CPU : proc'[d] # None /\ proc'[d] = proc'[e] => d = e
      BY <1>b, <2>1 DEF CpuInv
    <2>4. \A x \in Slot : state'[x] = "RUNNING" => \E d \in CPU : proc'[d] = x
      <3>1. ASSUME NEW x \in Slot, x # p, state[x] = "RUNNING"
            PROVE  \E d \in CPU : proc'[d] = x
        <4>1. PICK d \in CPU : proc[d] = x
          BY Zenon, <3>1 DEF CpuInv
        <4> QED  BY Zenon, <4>1, <1>0, <1>b
      <3> QED  BY Zenon, <1>b, <3>1
    <2>5. \A d \in CPU : proc'[d] # None => state'[proc'[d]] = "RUNNING"
      <3>1. ASSUME NEW d \in CPU, d # c, proc[d] # None
            PROVE  proc[d] \in Slot /\ proc[d] # p /\ state[proc[d]] = "RUNNING"
        BY Zenon, <3>1, <1>0, <2>1, <2>2 DEF CpuInv
      <3> QED  BY ZenonT(60), <1>b, <3>1
    <2>6. \A d \in CPU : intr[d] => proc'[d] # None /\ lock' # d /\ tickslock # d
      BY <1>0, <1>b DEF CpuInv
    <2> QED  BY <1>0, <1>b, <2>3, <2>4, <2>5, <2>6 DEF CpuInv
  <1>3. StackInv'
    BY Zenon, <1>0, <1>a, <1>b DEF StackInv, Live
  <1>4. ForkInv'
    <2>1. \A x \in Slot : state'[x] = "EMBRYO" <=> state[x] = "EMBRYO"
      BY Zenon, <1>a, <1>b
    <2> QED  BY Zenon, <1>0, <2>1, ForkFrame
  <1>5. FamilyInv'
    BY Zenon, <1>0, <1>a, <1>b, FamilyFrame DEF Live
  <1>6. SleepInv'
    BY Zenon, <1>0, <1>a, <1>b, SleepFrame
  <1>7. ClockInv'
    <2>1. SleepersHaveTicksLeft'
      BY Zenon, <1>0, <1>a, <1>b DEF ClockInv, SleepersHaveTicksLeft
    <2>2. tickslock # c
      BY Zenon, <1>0 DEF ClockInv
    <2>3. \A x \in Slot : at[x] = "sleep_lk" =>
            \E d \in CPU : proc'[d] = x /\ tickslock = d /\ lock' # d
      BY <1>0, <1>b, <2>2 DEF ClockInv
    <2>4. \A d \in CPU : tickslock = d =>
            proc'[d] # None /\ at[proc'[d]] = "sleep_lk"
      BY Zenon, <1>b, <2>2 DEF ClockInv
    <2> QED  BY Zenon, <1>0, <2>1, <2>3, <2>4 DEF ClockInv
  <1> QED  BY Zenon, <1>1, <1>2, <1>3, <1>4, <1>5, <1>6, <1>7

\* One turn of the loop of wait(): it reaps a zombie, returns -1 or sleeps.
LEMMA WaitTurnStep ==
    ASSUME IInv, NEW c \in CPU, NEW p \in Slot,
           proc[c] = p, state[p] = "RUNNING", ~intr[c],
           at[p] \in {"wait", "wait_slept"}, lock \in {None, c},
           WaitTurn(c, p),
           UNCHANGED <<priority, ticks_waiting, child, ticks0, want, nextpid,
                       ticks, tickslock, proc, intr, panicked>>
    PROVE  IInv'
  <1> USE Consts DEF IInv
  <1>1. CASE \E q \in First(Zombies(p)) :
                /\ kstack' = [kstack EXCEPT ![q] = FALSE]
                /\ pid' = [pid EXCEPT ![q] = 0]
                /\ parent' = [parent EXCEPT ![q] = None]
                /\ killed' = [killed EXCEPT ![q] = FALSE]
                /\ state' = [state EXCEPT ![q] = "UNUSED"]
                /\ at' = [at EXCEPT ![q] = "none", ![p] = "ret"]
                /\ chan' = [chan EXCEPT ![p] = None]
                /\ lock' = None
    <2>0. PICK q \in Slot :
                /\ parent[q] = p /\ state[q] = "ZOMBIE"
                /\ kstack' = [kstack EXCEPT ![q] = FALSE]
                /\ pid' = [pid EXCEPT ![q] = 0]
                /\ parent' = [parent EXCEPT ![q] = None]
                /\ killed' = [killed EXCEPT ![q] = FALSE]
                /\ state' = [state EXCEPT ![q] = "UNUSED"]
                /\ at' = [at EXCEPT ![q] = "none", ![p] = "ret"]
                /\ chan' = [chan EXCEPT ![p] = None]
                /\ lock' = None
      BY ZenonT(60), <1>1 DEF First, Zombies, Kids
    <2>a. /\ q # p /\ at[q] = "dead" /\ state[q] = "ZOMBIE"
      BY Zenon, <2>0 DEF TypeOK, StackInv
    <2>b. /\ \A x \in Slot : x # p /\ x # q => at'[x] = at[x]
          /\ \A x \in Slot : x # q => state'[x] = state[x] /\ parent'[x] = parent[x]
          /\ \A x \in Slot : x # q => kstack'[x] = kstack[x]
          /\ \A x \in Slot : x # p => chan'[x] = chan[x]
          /\ at'[p] = "ret" /\ at'[q] = "none"
          /\ state'[q] = "UNUSED" /\ parent'[q] = None
      BY Zenon, <2>0, <2>a DEF TypeOK
    <2>c. parent[q] = p /\ \A x \in Slot : x # q => killed'[x] = killed[x]
      BY Zenon, <2>0 DEF TypeOK
    <2>1. TypeOK'
      <3>1. /\ kstack' \in [Slot -> BOOLEAN] /\ killed' \in [Slot -> BOOLEAN]
            /\ pid' \in [Slot -> Nat]
        BY Zenon, <2>0 DEF TypeOK
      <3>2. /\ state' \in [Slot -> States] /\ at' \in [Slot -> Points]
        BY Zenon, <2>0 DEF TypeOK, States, Points
      <3>3. /\ parent' \in [Slot -> Slot \cup {None}]
            /\ chan' \in [Slot -> 0..TicksChan] /\ lock' = None
        BY Zenon, <2>0 DEF TypeOK
      <3> QED  BY Zenon, <3>1, <3>2, <3>3 DEF TypeOK
    <2>2. CpuInv'
      <3>1. \A d \in CPU : proc[d] # None => proc[d] \in Slot
        BY Zenon DEF TypeOK
      <3>2. \A d \in CPU : proc[d] # None => proc[d] # q /\ state[proc[d]] = "RUNNING"
        BY <2>a DEF CpuInv
      <3>3. ASSUME NEW d \in CPU, proc[d] # None
            PROVE  state'[proc[d]] = "RUNNING"
        <4>1. proc[d] \in Slot /\ proc[d] # q /\ state[proc[d]] = "RUNNING"
          BY Zenon, <3>1, <3>2, <3>3
        <4>2. \A x \in Slot : x # q => state'[x] = state[x]
          BY ZenonT(60), <2>b
        <4> QED  BY ZenonT(60), <4>1, <4>2
      <3>4. \A x \in Slot : state'[x] = "RUNNING" => state[x] = "RUNNING"
        BY Zenon, <2>b
      <3>5. lock' = None
        BY Zenon, <2>0
      <3> QED  BY <3>3, <3>4, <3>5 DEF CpuInv
    <2>3. StackInv'
      BY <2>a, <2>b DEF StackInv, Live
    <2>4. ForkInv'
      BY ZenonT(60), <2>a, <2>b, ForkFrame DEF ForkPoints
    <2>5. FamilyInv'
      <3>1. q # InitProc
        BY Zenon, <2>c DEF FamilyInv
      <3>2. \A x \in Slot : parent[x] # None => parent[x] \in Slot /\ parent[x] # q
        BY Zenon, <2>a DEF FamilyInv, TypeOK, Live
      <3>3. \A x \in Slot : parent'[x] # None => state'[parent'[x]] \in Live
        BY <2>b, <3>2 DEF FamilyInv
      <3> QED  BY <2>b, <3>1, <3>3 DEF FamilyInv, Live
    <2>6. SleepInv'
      <3>1. \A x \in Slot : x # p => Kids(x)' = Kids(x)
        BY ZenonT(60), <2>b, <2>c DEF Kids
      <3>2. ASSUME NEW x \in Slot, x # p
            PROVE  Zombies(x)' = Zombies(x)
        <4>1. Kids(x) \subseteq Slot /\ q \notin Kids(x)
          BY Zenon, <2>c, <3>2 DEF Kids
        <4>2. \A y \in Kids(x) : state'[y] = state[y]
          BY ZenonT(60), <2>b, <4>1
        <4> QED  BY Zenon, <3>1, <3>2, <4>2 DEF Zombies
      <3>3. \A x \in Slot : state'[x] = "SLEEPING" =>
              /\ x # p /\ state[x] = "SLEEPING" /\ killed'[x] = killed[x]
              /\ at'[x] = at[x] /\ chan'[x] = chan[x]
        BY <2>b, <2>c
      <3> QED  BY <3>1, <3>2, <3>3 DEF SleepInv, WaitersWaitForSomething
    <2>7. ClockInv'
      <3>1. lock' = None
        BY Zenon, <2>0
      <3> QED  BY <2>a, <2>b, <3>1, ClockFrame
    <2> QED  BY Zenon, <2>1, <2>2, <2>3, <2>4, <2>5, <2>6, <2>7
  <1>2. CASE /\ Goto(p, "ret")
             /\ chan' = [chan EXCEPT ![p] = None]
             /\ lock' = None
             /\ UNCHANGED <<state, pid, parent, killed, kstack>>
    <2>a. /\ \A x \in Slot : x # p => at'[x] = at[x] /\ chan'[x] = chan[x]
          /\ at'[p] = "ret" /\ chan'[p] = None
          /\ at' \in [Slot -> Points] /\ chan' \in [Slot -> 0..TicksChan]
      BY Zenon, <1>2 DEF TypeOK, Goto, Points
    <2>1. TypeOK'
      BY Zenon, <1>2, <2>a DEF TypeOK
    <2>2. CpuInv'
      <3>1. \A d \in CPU : proc[d] # None => state[proc[d]] = "RUNNING"
        BY DEF CpuInv
      <3> QED  BY Zenon, <1>2, <3>1 DEF CpuInv
    <2>3. StackInv'
      BY <1>2, <2>a DEF StackInv, Live
    <2>4. ForkInv'
      BY Zenon, <1>2, <2>a, ForkFrame DEF ForkPoints
    <2>5. FamilyInv'
      BY Zenon, <1>2, FamilyFrame
    <2>6. SleepInv'
      BY Zenon, <1>2, <2>a, SleepFrame
    <2>7. ClockInv'
      BY Zenon, <1>2, <2>a, ClockFrame
    <2> QED  BY Zenon, <2>1, <2>2, <2>3, <2>4, <2>5, <2>6, <2>7
  <1>3. CASE /\ Zombies(p) = {}
             /\ Kids(p) # {} /\ ~killed[p]
             /\ chan' = [chan EXCEPT ![p] = p]
             /\ state' = [state EXCEPT ![p] = "SLEEPING"]
             /\ Goto(p, "wait_slept")
             /\ lock' = c
             /\ UNCHANGED <<pid, parent, killed, kstack>>
    <2>a. /\ \A x \in Slot : x # p =>
               at'[x] = at[x] /\ chan'[x] = chan[x] /\ state'[x] = state[x]
          /\ at'[p] = "wait_slept" /\ chan'[p] = p /\ state'[p] = "SLEEPING"
          /\ at' \in [Slot -> Points] /\ chan' \in [Slot -> 0..TicksChan]
          /\ state' \in [Slot -> States]
      BY <1>3 DEF TypeOK, Goto, Points, States
    <2>b. \A d \in CPU : proc[d] = p => d = c
      BY Zenon DEF CpuInv
    <2>1. TypeOK'
      BY Zenon, <1>3, <2>a DEF TypeOK
    <2>2. CpuInv'
      <3>1. \A d \in CPU : proc[d] # None => proc[d] \in Slot
        BY Zenon DEF TypeOK
      <3>2. \A d \in CPU : d # c /\ proc[d] # None => state[proc[d]] = "RUNNING"
        BY DEF CpuInv
      <3>3. \A d \in CPU : d # c /\ proc[d] # None => state'[proc[d]] = "RUNNING"
        BY ZenonT(60), <2>a, <2>b, <3>1, <3>2
      <3>4. \A x \in Slot : state'[x] = "RUNNING" => \E d \in CPU : proc[d] = x
        BY <2>a DEF CpuInv
      <3> QED  BY <1>3, <2>a, <3>3, <3>4 DEF CpuInv
    <2>3. StackInv'
      BY <1>3, <2>a DEF StackInv, Live
    <2>4. ForkInv'
      BY Zenon, <1>3, <2>a, ForkFrame DEF ForkPoints
    <2>5. FamilyInv'
      BY Zenon, <1>3, <2>a, FamilyFrame DEF Live
    <2>6. SleepInv'
      <3>1. \A x \in Slot : Kids(x)' = Kids(x) /\ Zombies(x)' = Zombies(x)
        <4>1. \A x \in Slot : state'[x] = "ZOMBIE" <=> state[x] = "ZOMBIE"
          BY Zenon, <2>a
        <4> QED  BY <1>3, <4>1 DEF Kids, Zombies
      <3>2. WaitersWaitForSomething'
        BY <1>3, <2>a, <3>1 DEF SleepInv, WaitersWaitForSomething
      <3>3. \A x \in Slot : state'[x] = "SLEEPING" =>
              \/ chan'[x] = x /\ at'[x] = "wait_slept"
              \/ chan'[x] = TicksChan /\ at'[x] = "sleep_slept"
        BY <2>a DEF SleepInv
      <3> QED  BY Zenon, <3>2, <3>3 DEF SleepInv
    <2>7. ClockInv'
      <3>1. \A x \in Slot : at'[x] = "sleep_lk" <=> at[x] = "sleep_lk"
        BY Zenon, <2>a
      <3>2. SleepersHaveTicksLeft'
        BY Zenon, <1>3, <2>a DEF ClockInv, SleepersHaveTicksLeft
      <3>3. \A x \in Slot : at[x] = "sleep_lk" =>
              \E d \in CPU : proc[d] = x /\ tickslock = d /\ lock' # d
        BY Zenon, <1>3 DEF ClockInv
      <3>4. \A d \in CPU : tickslock = d => proc[d] \in Slot
        BY Zenon DEF ClockInv, TypeOK
      <3> QED  BY ZenonT(60), <3>1, <3>2, <3>3, <3>4 DEF ClockInv
    <2> QED  BY Zenon, <2>1, <2>2, <2>3, <2>4, <2>5, <2>6, <2>7
  <1> QED  BY Zenon, <1>1, <1>2, <1>3 DEF WaitTurn

\* wait(), woken up.
LEMMA ResumeWaitStep ==
    ASSUME IInv, NEW c \in CPU, ResumeWait(c)
    PROVE  IInv'
  <1>1. proc[c] \in Slot
    BY Zenon DEF ResumeWait, SwitchedIn, IInv, TypeOK
  <1>2. ~intr[c] /\ lock = c /\ state[proc[c]] = "RUNNING"
    BY Zenon DEF ResumeWait, SwitchedIn, IInv, CpuInv
  <1> QED  BY Zenon, <1>1, <1>2, WaitTurnStep DEF ResumeWait

\* wait(), on entry.
LEMMA WaitStep ==
    ASSUME IInv, NEW c \in CPU, Wait(c)
    PROVE  IInv'
  <1>1. proc[c] \in Slot /\ state[proc[c]] = "RUNNING" /\ ~intr[c]
    BY Zenon, ExecutesRunning DEF Wait, Executes, IInv
  <1> QED  BY Zenon, <1>1, WaitTurnStep DEF Wait

\* exit(): the children go to initproc, whoever waits for them is woken.
LEMMA ExitStep ==
    ASSUME IInv, NEW c \in CPU, Exit(c)
    PROVE  IInv'
  <1> USE Consts DEF IInv
  <1> DEFINE p == proc[c]
             W == ExitWakes(p)
  <1>0. /\ p \in Slot /\ state[p] = "RUNNING" /\ at[p] = "exit" /\ p # InitProc
        /\ lock = None /\ lock' = c /\ ~intr[c]
        /\ parent' = [q \in Slot |-> IF parent[q] = p THEN InitProc ELSE parent[q]]
        /\ state' = [Wakeup1(state, W) EXCEPT ![p] = "ZOMBIE"]
        /\ Goto(p, "dead")
        /\ UNCHANGED <<pid, chan, killed, priority, ticks_waiting, kstack,
                       child, ticks0, want, nextpid, ticks, tickslock, proc,
                       intr, panicked>>
    BY Zenon, ExecutesRunning DEF Exit, Executes
  <1>a. /\ state' \in [Slot -> States] /\ state'[p] = "ZOMBIE"
        /\ \A x \in Slot : x # p =>
            \/ state'[x] = state[x]
            \/ state[x] = "SLEEPING" /\ state'[x] = "RUNNABLE"
        /\ \A x \in Slot : x # p /\ state'[x] = "SLEEPING" => chan[x] \notin W
    <2> HIDE DEF W
    <2> QED  BY <1>0, WakeupFacts DEF States
  <1>b. /\ parent' \in [Slot -> Slot \cup {None}]
        /\ \A x \in Slot : parent[x] = p => parent'[x] = InitProc
        /\ \A x \in Slot : parent[x] # p => parent'[x] = parent[x]
    BY Zenon, <1>0 DEF TypeOK
  <1>c. /\ \A x \in Slot : x # p => at'[x] = at[x]
        /\ at'[p] = "dead" /\ at' \in [Slot -> Points]
    BY Zenon, <1>0 DEF TypeOK, Goto, Points
  <1>d. \A d \in CPU : proc[d] = p => d = c
    BY <1>0 DEF CpuInv
  <1> HIDE DEF p, W
  <1>1. TypeOK'
    BY <1>0, <1>a, <1>b, <1>c DEF TypeOK
  <1>2. CpuInv'
    <2>1. \A d \in CPU : proc[d] # None => proc[d] \in Slot
      BY Zenon DEF TypeOK
    <2>2. \A x \in Slot : state'[x] = "RUNNING" => state[x] = "RUNNING"
      BY Zenon, <1>a
    <2>3. \A d \in CPU : proc[d] # None =>
            \/ state'[proc[d]] = "RUNNING"
            \/ lock' = d /\ state'[proc[d]] \in {"RUNNABLE", "SLEEPING", "ZOMBIE"}
      <3>1. CASE p = proc[c]
        BY ZenonT(60), <1>0, <1>a, <1>d, <2>1 DEF CpuInv
      <3> QED  BY Zenon, <3>1 DEF p
    <2>4. proc[c] # None
      BY Zenon, <1>0 DEF p
    <2> QED  BY <1>0, <2>2, <2>3, <2>4 DEF CpuInv
  <1>3. StackInv'
    BY <1>0, <1>a, <1>c DEF StackInv, Live
  <1>4. ForkInv'
    <2>1. \A x \in Slot : state[x] = "EMBRYO" => parent[x] # p
      <3>1. ASSUME NEW x \in Slot, state[x] = "EMBRYO", parent[x] = p PROVE FALSE
        BY Zenon, <3>1, <1>0 DEF ForkInv
      <3> QED  BY Zenon, <3>1
    <2>2. \A x \in Slot : state[x] = "EMBRYO" =>
            /\ state'[x] = "EMBRYO" /\ at'[x] = at[x]
            /\ kstack'[x] = kstack[x] /\ parent'[x] = parent[x]
      BY Zenon, <1>0, <1>a, <1>b, <1>c, <2>1
    <2>3. \A x \in Slot : state'[x] = "EMBRYO" => state[x] = "EMBRYO"
      BY Zenon, <1>a
    <2>4. /\ \A x \in Slot : at'[x] \in ForkPoints => at'[x] = at[x]
          /\ \A x \in Slot : at[x] \in ForkPoints => at'[x] = at[x]
      BY Zenon, <1>0, <1>c DEF ForkPoints
    <2> QED  BY Zenon, <1>0, <2>2, <2>3, <2>4, ForkFrame
  <1>5. FamilyInv'
    <2>1. \A x \in Slot : x # p => /\ state[x] \in Live => state'[x] \in Live
                                   /\ state'[x] \in Live => state[x] \in Live
                                   /\ state'[x] = "UNUSED" => state[x] = "UNUSED"
                                   /\ state'[x] = "ZOMBIE" => state[x] = "ZOMBIE"
      BY Zenon, <1>a DEF Live
    <2>2. \A x \in Slot : parent'[x] # None =>
            parent'[x] \in Slot /\ parent'[x] # p /\ state[parent'[x]] \in Live
      BY <1>0, <1>b DEF FamilyInv, TypeOK
    <2>3. parent[p] # None /\ state[p] \in Live
      BY Zenon, <1>0 DEF FamilyInv, Live
    <2>4. \A x \in Slot : parent[x] # None => parent'[x] # None
      BY Zenon, <1>b
    <2>5. \A x \in Slot : parent'[x] # x
      BY Zenon, <1>0, <1>b DEF FamilyInv
    <2>6. state'[InitProc] \in Live /\ parent'[InitProc] = None
      BY Zenon, <1>0, <1>b, <2>1 DEF FamilyInv
    <2>7. \A x \in Slot : parent'[x] # None => state'[parent'[x]] \in Live
      BY ZenonT(60), <2>1, <2>2
    <2>8. \A x \in Slot : state'[x] = "UNUSED" => parent'[x] = None
      BY <1>0, <1>a, <1>b, <2>1 DEF FamilyInv
    <2>9. \A x \in Slot \ {InitProc} :
            state'[x] \in Live \cup {"ZOMBIE"} => parent'[x] # None
      BY Zenon, <2>1, <2>3, <2>4 DEF FamilyInv
    <2> QED  BY <2>5, <2>6, <2>7, <2>8, <2>9 DEF FamilyInv
  <1>6. SleepInv'
    <2>1. ASSUME NEW x \in Slot, state'[x] = "SLEEPING"
          PROVE  /\ state[x] = "SLEEPING" /\ x # p /\ at'[x] = at[x]
                 /\ chan'[x] = chan[x] /\ chan[x] \notin W
      BY Zenon, <2>1, <1>0, <1>a, <1>c
    <2>2. parent[p] \in W /\ (Zombies(p) # {} => InitProc \in W)
      BY Zenon DEF ExitWakes, W
    <2>3. ASSUME NEW x \in Slot, state'[x] = "SLEEPING", chan'[x] = x
          PROVE  Kids(x)' # {} /\ Zombies(x)' = {} /\ ~killed'[x]
      <3>1. /\ state[x] = "SLEEPING" /\ chan[x] = x /\ x # p
            /\ x # parent[p] /\ (x = InitProc => Zombies(p) = {})
        BY ZenonT(60), <2>1, <2>2, <2>3
      <3>2. Kids(x) # {} /\ Zombies(x) = {} /\ ~killed[x]
        BY Zenon, <3>1 DEF SleepInv, WaitersWaitForSomething
      <3>3. Kids(x)' # {}
        <4>1. PICK q \in Slot : parent[q] = x
          BY ZenonT(60), <3>2 DEF Kids
        <4>2. parent'[q] = x
          BY Zenon, <4>1, <3>1, <1>b
        <4> QED  BY Zenon, <4>2 DEF Kids
      <3>4. ASSUME NEW q \in Slot, parent'[q] = x, state'[q] = "ZOMBIE"
            PROVE  FALSE
        <4>1. q # p
          BY Zenon, <3>4, <3>1, <1>0, <1>b DEF FamilyInv
        <4>2. state[q] = "ZOMBIE"
          BY Zenon, <4>1, <3>4, <1>a
        <4>3. CASE parent[q] = p
          <5>1. x = InitProc
            BY Zenon, <4>3, <3>4, <1>b
          <5>2. q \in Zombies(p)
            BY Zenon, <4>2, <4>3 DEF Zombies, Kids
          <5> QED  BY Zenon, <5>1, <5>2, <3>1
        <4>4. CASE parent[q] # p
          <5>1. parent[q] = x
            BY Zenon, <4>4, <3>4, <1>b
          <5>2. q \in Zombies(x)
            BY Zenon, <4>2, <5>1 DEF Zombies, Kids
          <5> QED  BY Zenon, <5>2, <3>2
        <4> QED  BY Zenon, <4>3, <4>4
      <3>5. Zombies(x)' = {}
        BY ZenonT(60), <3>4 DEF Zombies, Kids
      <3> QED  BY SMTT(30), <3>2, <3>3, <3>5, <1>0
    <2> QED  BY Zenon, <2>1, <2>3 DEF SleepInv, WaitersWaitForSomething
  <1>7. ClockInv'
    <2>1. \A x \in Slot : at'[x] = "sleep_lk" <=> at[x] = "sleep_lk"
      BY Zenon, <1>0, <1>c
    <2>2. \A d \in CPU : tickslock = d => proc[d] \in Slot
      BY Zenon DEF ClockInv, TypeOK
    <2>3. SleepersHaveTicksLeft'
      BY <1>0, <1>a DEF ClockInv, SleepersHaveTicksLeft
    <2>4. \A x \in Slot : at[x] = "sleep_lk" =>
            \E d \in CPU : proc[d] = x /\ tickslock = d /\ lock' # d
      <3>1. ASSUME NEW x \in Slot, at[x] = "sleep_lk"
            PROVE  \E d \in CPU : proc[d] = x /\ tickslock = d /\ lock' # d
        <4>1. PICK d \in CPU : proc[d] = x /\ tickslock = d
          BY Zenon, <3>1 DEF ClockInv
        <4>2. d # c
          BY Zenon, <4>1, <3>1, <1>0 DEF p
        <4> QED  BY Zenon, <4>1, <4>2, <1>0
      <3> QED  BY Zenon, <3>1
    <2> QED  BY ZenonT(60), <1>0, <2>1, <2>2, <2>3, <2>4 DEF ClockInv
  <1> QED  BY Zenon, <1>1, <1>2, <1>3, <1>4, <1>5, <1>6, <1>7

\* A step that only halts the machine, or leaves every variable alone.
LEMMA QuietStep ==
    ASSUME IInv, panicked' \in BOOLEAN,
           UNCHANGED <<pvars, lvars, nextpid, ticks, lock, tickslock, proc, intr>>
    PROVE  IInv'
  <1>a. UNCHANGED <<state, pid, parent, chan, killed, priority, ticks_waiting, kstack>>
    BY Zenon DEF pvars
  <1>b. UNCHANGED <<at, child, ticks0, want, nextpid, ticks, lock, tickslock, proc, intr>>
    BY Zenon DEF lvars
  <1> HIDE DEF pvars, lvars
  <1>1. TypeOK'
    BY Zenon, <1>a, <1>b DEF IInv, TypeOK
  <1>2. CpuInv'
    BY Zenon, <1>a, <1>b DEF IInv, CpuInv
  <1>3. StackInv'
    BY Zenon, <1>a, <1>b DEF IInv, StackInv
  <1>4. ForkInv'
    BY Zenon, <1>a, <1>b DEF IInv, ForkInv
  <1>5. FamilyInv'
    BY Zenon, <1>a, <1>b DEF IInv, FamilyInv
  <1>6. SleepInv'
    BY Zenon, <1>a, <1>b, SleepFrame DEF IInv
  <1>7. ClockInv'
    BY Zenon, <1>a, <1>b, Consts, ClockFrame DEF IInv
  <1> QED  BY Zenon, <1>1, <1>2, <1>3, <1>4, <1>5, <1>6, <1>7 DEF IInv

\* panic("init exiting") changes nothing the invariant speaks of.
LEMMA InitExitsStep ==
    ASSUME IInv, NEW c \in CPU, InitExits(c)
    PROVE  IInv'
  BY Zenon, QuietStep DEF InitExits

\* The loop of sys_sleep(), up to sleep().
LEMMA SleepLoopStep ==
    ASSUME IInv, NEW c \in CPU, NEW n \in SleepArgs, SleepLoop(c, n)
    PROVE  IInv'
  <1> USE Consts DEF IInv
  <1> DEFINE p == proc[c]
             t0 == IF at[p] = "sleep" THEN ticks ELSE ticks0[p]
             left == (ticks - t0) % TickMod < n
  <1>0. /\ p \in Slot /\ state[p] = "RUNNING" /\ lock # c /\ ~intr[c]
        /\ at[p] \in {"sleep", "sleep_again"} /\ tickslock = None
        /\ UNCHANGED <<state, pid, parent, chan, killed, priority,
                       ticks_waiting, kstack, child, nextpid, ticks, lock,
                       proc, intr, panicked>>
    BY Zenon, ExecutesRunning DEF SleepLoop, Executes, pvars
  <1>a. /\ n \in Nat /\ t0 \in 0..(TickMod - 1) /\ 0 \in 0..(TickMod - 1)
        /\ \A x \in Slot : at[x] # "sleep_lk"
    <2>1. n \in Nat /\ 0 \in 0..(TickMod - 1)
      BY ProcAssumption
    <2>2. t0 \in 0..(TickMod - 1)
      BY ZenonT(60), <1>0 DEF TypeOK
    <2>3. \A x \in Slot : at[x] # "sleep_lk"
      BY Zenon, <1>0 DEF ClockInv
    <2> QED  BY Zenon, <2>1, <2>2, <2>3
  <1>1. ASSUME NEW pt \in {"ret", "sleep_lk"}, NEW t \in 0..(TickMod - 1),
               NEW w \in Nat, NEW tl \in {None, c},
               ticks0' = [ticks0 EXCEPT ![p] = t],
               want' = [want EXCEPT ![p] = w],
               Goto(p, pt), tickslock' = tl,
               pt = "sleep_lk" <=> tl = c,
               pt = "sleep_lk" => (ticks - t) % TickMod < w
        PROVE  IInv'
    <2>a. /\ \A x \in Slot : x # p =>
                at'[x] = at[x] /\ ticks0'[x] = ticks0[x] /\ want'[x] = want[x]
          /\ at'[p] = pt /\ ticks0'[p] = t /\ want'[p] = w
      BY <1>0, <1>1 DEF TypeOK, Goto
    <2> HIDE DEF p, t0, left
    <2>1. TypeOK'
      <3>1. at' \in [Slot -> Points]
        BY Zenon, <1>0, <1>1 DEF TypeOK, Goto, Points
      <3>2. ticks0' \in [Slot -> 0..(TickMod - 1)] /\ want' \in [Slot -> Nat]
        BY Zenon, <1>0, <1>1 DEF TypeOK
      <3> QED  BY SMTT(30), <1>0, <1>1, <3>1, <3>2 DEF TypeOK
    <2>2. CpuInv'
      BY Zenon, <1>0, <1>1 DEF CpuInv
    <2>3. StackInv'
      BY Zenon, <1>0, <1>1, <2>a DEF StackInv, Live
    <2>4. ForkInv'
      <3>1. /\ \A x \in Slot : state[x] = "EMBRYO" => at'[x] = at[x]
            /\ \A x \in Slot : at'[x] \in ForkPoints => at'[x] = at[x]
            /\ \A x \in Slot : at[x] \in ForkPoints => at'[x] = at[x]
        BY Zenon, <1>0, <1>1, <2>a DEF ForkPoints
      <3> QED  BY Zenon, <1>0, <3>1, ForkFrame
    <2>5. FamilyInv'
      BY Zenon, <1>0 DEF FamilyInv
    <2>6. SleepInv'
      <3>1. \A x \in Slot : Kids(x)' = Kids(x) /\ Zombies(x)' = Zombies(x)
        BY Zenon, <1>0 DEF Kids, Zombies
      <3> QED  BY <1>0, <2>a, <3>1 DEF SleepInv, WaitersWaitForSomething
    <2>7. ClockInv'
      <3>1. \A x \in Slot : at'[x] = "sleep_lk" => x = p /\ pt = "sleep_lk"
        BY Zenon, <1>a, <2>a
      <3>2. SleepersHaveTicksLeft'
        BY Zenon, <1>0, <2>a DEF ClockInv, SleepersHaveTicksLeft
      <3>3. proc[c] = p /\ p # None
        BY Zenon, <1>0 DEF p
      <3>4. \A x \in Slot : at'[x] = "sleep_lk" =>
              \E d \in CPU : proc[d] = x /\ tickslock' = d /\ lock # d
        BY Zenon, <1>0, <1>1, <3>1, <3>3
      <3>5. \A x \in Slot : at'[x] = "sleep_lk" =>
              (ticks - ticks0'[x]) % TickMod < want'[x]
        BY Zenon, <1>1, <2>a, <3>1
      <3>6. \A d \in CPU : tickslock' = d =>
              proc[d] # None /\ at'[proc[d]] = "sleep_lk"
        BY SMTT(30), <1>1, <2>a, <3>3
      <3> QED  BY Zenon, <1>0, <3>2, <3>4, <3>5, <3>6 DEF ClockInv
    <2> QED  BY Zenon, <2>1, <2>2, <2>3, <2>4, <2>5, <2>6, <2>7
  <1>2. CASE /\ ticks0' = [ticks0 EXCEPT ![p] = 0]
             /\ want' = [want EXCEPT ![p] = 0]
             /\ Goto(p, "ret")
             /\ UNCHANGED tickslock
    BY ZenonT(60), <1>0, <1>1, <1>2, <1>a
  <1>3. CASE /\ left
             /\ ticks0' = [ticks0 EXCEPT ![p] = t0]
             /\ want' = [want EXCEPT ![p] = n]
             /\ Goto(p, "sleep_lk")
             /\ tickslock' = c
    BY ZenonT(60), <1>1, <1>3, <1>a
  <1> QED  BY ZenonT(60), <1>2, <1>3 DEF SleepLoop

----------------------------------------------------------------------------
\* Every step of the kernel and of the programs preserves the invariant.
LEMMA NextInv == IInv /\ [Next]_vars => IInv'
  <1> SUFFICES ASSUME IInv, [Next]_vars PROVE IInv'
    OBVIOUS
  <1>1. ASSUME NEW c \in CPU, CpuStep(c) PROVE IInv'
BY Zenon, <1>1, ScheduleStep, SchedulerBackStep, ResumeStep, ResumeWaitStep,
         TimerIntrStep, TimerYieldStep DEF CpuStep
  <1>2. ASSUME NEW c \in CPU, KernelStep(c) PROVE IInv'
BY Zenon, <1>2, ReturnStep, WaitStep, ExitStep, InitExitsStep, AllocProcStep,
         AllocKstackStep, CopyProcStep, ForkRunStep, KillStep, SetPriorityStep,
         SleepLoopStep, SleepSchedStep DEF KernelStep
  <1>3. ASSUME NEW c \in CPU, UserStep(c) PROVE IInv'
    BY Zenon, <1>3, UserFaultStep, SyscallStep DEF UserStep
  <1>4. CASE UNCHANGED vars
    BY Zenon, <1>4, QuietStep DEF vars, pvars, lvars, IInv, TypeOK
  <1> QED  BY Zenon, <1>1, <1>2, <1>3, <1>4 DEF Next, Halted

\* The invariant of the process table, on which the theorems below rest.
THEOREM Invariant == Spec => []IInv
  BY InitInv, NextInv, PTL DEF Spec

\* The fields of the process table keep their types: priorities stay at most
\* MAX_PRIORITY whatever scheduler() and setpriority() do, ticks stays a uint.
THEOREM TypeCorrect == Spec => []TypeOK
  <1>1. IInv => TypeOK
    BY Zenon DEF IInv
  <1> QED  BY <1>1, Invariant, PTL

\* No two CPUs are ever on one kernel stack, with any number of CPUs: the
\* hand-over of ptable.lock in sched() and scheduler() is right.
THEOREM OneCpu == Spec => []OneCpuPerProcess
  <1>1. IInv => OneCpuPerProcess
    BY SMTT(30) DEF IInv, CpuInv, OneCpuPerProcess
  <1> QED  BY <1>1, Invariant, PTL

\* wait() never frees a stack in use, and no zombie is ever resumed.
THEOREM StackSafe == Spec => []StackWhileOnCpu
  <1>1. IInv => StackWhileOnCpu
    <2> SUFFICES ASSUME IInv, NEW c \in CPU, proc[c] # None
                 PROVE  /\ kstack[proc[c]]
                        /\ state[proc[c]] = "RUNNING" => at[proc[c]] # "dead"
      BY Zenon DEF StackWhileOnCpu
    <2>1. proc[c] \in Slot
      BY Zenon DEF IInv, TypeOK
    <2>2. state[proc[c]] \in Live \cup {"ZOMBIE"}
      BY Zenon DEF IInv, CpuInv, Live
    <2> QED  BY SMTT(30), <2>1, <2>2 DEF IInv, StackInv, Live
  <1> QED  BY <1>1, Invariant, PTL

\* Every process but initproc always has a living parent.
THEOREM Parents == Spec => []ParentsLive
  <1>1. IInv => ParentsLive
    BY Zenon DEF IInv, FamilyInv, ParentsLive
  <1> QED  BY <1>1, Invariant, PTL

\* No wakeup of a wait() is lost, neither that of an exiting child nor that
\* of kill().
THEOREM NoLostWait == Spec => []WaitersWaitForSomething
  <1>1. IInv => WaitersWaitForSomething
    BY Zenon DEF IInv, SleepInv
  <1> QED  BY <1>1, Invariant, PTL

\* No tick is lost between the test of the clock in sys_sleep() and sleep().
THEOREM NoLostTick == Spec => []SleepersHaveTicksLeft
  <1>1. IInv => SleepersHaveTicksLeft
    BY Zenon DEF IInv, ClockInv
  <1> QED  BY <1>1, Invariant, PTL

----------------------------------------------------------------------------
\* Only scheduler() puts a process on a CPU.
LEMMA OnlyScheduler ==
    ASSUME IInv, [Next]_vars, NEW c \in CPU, proc[c] = None, proc'[c] # None
    PROVE  Schedule(c)
  <1>1. ASSUME NEW d \in CPU, Schedule(d) PROVE d = c
    BY Zenon, <1>1 DEF Schedule, IInv, TypeOK
  <1>2. ASSUME NEW d \in CPU, SchedulerBack(d) PROVE FALSE
    BY Zenon, <1>2 DEF SchedulerBack, IInv, TypeOK
  <1>3. ASSUME NEW d \in CPU, CpuStep(d) PROVE Schedule(d) \/ SchedulerBack(d) \/ UNCHANGED proc
    BY Zenon, <1>3 DEF CpuStep, Resume, ResumeWait, TimerIntr, TimerYield
  <1>4. ASSUME NEW d \in CPU, KernelStep(d) PROVE UNCHANGED proc
    BY Zenon, <1>4 DEF KernelStep, Return, Wait, Exit, InitExits, AllocProc, AllocKstack,
             CopyProc, ForkRun, Kill, SetPriority, SleepLoop, SleepSched
  <1>5. ASSUME NEW d \in CPU, UserStep(d) PROVE UNCHANGED proc
    BY Zenon, <1>5 DEF UserStep, UserFault, Syscall
  <1> QED  BY Zenon, <1>1, <1>2, <1>3, <1>4, <1>5 DEF Next, Halted, vars

\* scheduler() always takes a process with the highest priority, the aging of
\* the same pass included, whatever the table, the threshold and the range of
\* priorities.
THEOREM Dispatch == Spec => DispatchesHighest
  <1>1. ASSUME IInv, [Next]_vars, NEW c \in CPU, proc[c] = None, proc'[c] # None,
               NEW q \in Slot, state[q] = "RUNNABLE"
        PROVE  priority'[q] <= priority'[proc'[c]]
    <2>1. PICK p \in Chosen(AgedPriority) :
              priority' = AgedPriority /\ proc' = [proc EXCEPT ![c] = p]
      BY Zenon, <1>1, OnlyScheduler DEF Schedule
    <2>2. /\ p \in Slot /\ priority'[p] > MIN_PRIORITY - 1
          /\ priority'[q] > MIN_PRIORITY - 1 => priority'[q] <= priority'[p]
      BY Zenon, <1>1, <2>1 DEF Chosen, First
    <2>3. priority'[q] \in Int /\ priority'[p] \in Int /\ MIN_PRIORITY \in Int
      BY <1>1, <2>1, <2>2, ProcAssumption DEF IInv, TypeOK, AgedPriority
    <2>4. priority'[q] <= priority'[p]
      BY <2>2, <2>3
    <2> QED  BY Zenon, <1>1, <2>1, <2>4 DEF IInv, TypeOK
  <1>2. IInv /\ [Next]_vars => [\A c \in CPU : proc[c] = None /\ proc'[c] # None =>
            \A q \in Slot : state[q] = "RUNNABLE" => priority'[q] <= priority'[proc'[c]]]_vars
    BY Zenon, <1>1
  <1> QED  BY <1>2, Invariant, PTL DEF Spec, DispatchesHighest

====
