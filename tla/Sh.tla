--------------------------------- MODULE Sh ---------------------------------
(***************************************************************************)
(* The shell's main loop and runcmd() of sh.c, on the files and pipes of   *)
(* File.  runcmd() of a parsed command is a program of system calls, and   *)
(* the shell forks a process to run it.                                    *)
(***************************************************************************)
EXTENDS File

CONSTANTS
    Cmds,               \* parsed commands the user types
    Program(_),         \* what an executable file does
    AnyCalls,           \* the calls of a program that may do anything
    Message,            \* what programs may write
    Overlap(_),         \* bound: processes left when the user types this
    Victim              \* bound: processes that are killed

Shell == 1

\* Instructions.
Instr(op, fd, n) == [op |-> op, fd |-> fd, n |-> n, bytes |-> <<>>, child |-> <<>>]
ForkOf(child) == [op |-> "fork", fd |-> 0, n |-> 0, bytes |-> <<>>, child |-> child]
ExecOf(cmd, in, out) == [op |-> "exec", fd |-> 0, n |-> 0, bytes |-> <<cmd, in, out>>,
                         child |-> <<>>]
WriteOf(bytes) == [op |-> "write", fd |-> 1, n |-> 0, bytes |-> bytes, child |-> <<>>]

\* Variant: the parent keeps its write end.
PipeScript_KeepsEnd(left, right) ==
    << Instr("pipe", 0, 0),
       ForkOf(<<Instr("close", 1, 0), Instr("dupp", 0, 2),
                Instr("closep", 0, 1), Instr("closep", 0, 2)>> \o left),
       ForkOf(<<Instr("close", 0, 0), Instr("dupp", 0, 1),
                Instr("closep", 0, 1), Instr("closep", 0, 2)>> \o right),
       Instr("closep", 0, 1),
       Instr("wait", 0, 0), Instr("wait", 0, 0), Instr("exit", 0, 0) >>

\* Variant: the right side duplicates its end before it closes descriptor 0.
PipeScript_DupFirst(left, right) ==
    << Instr("pipe", 0, 0),
       ForkOf(<<Instr("close", 1, 0), Instr("dupp", 0, 2),
                Instr("closep", 0, 1), Instr("closep", 0, 2)>> \o left),
       ForkOf(<<Instr("dupp", 0, 1), Instr("close", 0, 0),
                Instr("closep", 0, 1), Instr("closep", 0, 2)>> \o right),
       Instr("closep", 0, 1), Instr("closep", 0, 2),
       Instr("wait", 0, 0), Instr("wait", 0, 0), Instr("exit", 0, 0) >>

\* case PIPE of runcmd(), given the programs of both sides.
PipeScript(left, right) ==
    << Instr("pipe", 0, 0),
       ForkOf(<<Instr("close", 1, 0), Instr("dupp", 0, 2),
                Instr("closep", 0, 1), Instr("closep", 0, 2)>> \o left),
       ForkOf(<<Instr("close", 0, 0), Instr("dupp", 0, 1),
                Instr("closep", 0, 1), Instr("closep", 0, 2)>> \o right),
       Instr("closep", 0, 1), Instr("closep", 0, 2),
       Instr("wait", 0, 0), Instr("wait", 0, 0), Instr("exit", 0, 0) >>

\* runcmd() of a command whose input and output should be in and out.
RECURSIVE Runcmd(_, _, _)
Runcmd(cmd, in, out) ==
    CASE cmd.type = "EXEC" -> <<ExecOf(cmd.argv, in, out), Instr("exit", 0, 0)>>
      [] cmd.type = "REDIR" ->
            <<Instr("close", cmd.fd, 0), Instr("open", 0, 0)>>
            \o Runcmd(cmd.cmd, IF cmd.fd = 0 THEN "inode" ELSE in,
                               IF cmd.fd = 1 THEN "inode" ELSE out)
      [] cmd.type = "LIST" ->
            <<ForkOf(Runcmd(cmd.left, in, out)), Instr("wait", 0, 0)>>
            \o Runcmd(cmd.right, in, out)
      [] cmd.type = "PIPE" -> PipeScript(Runcmd(cmd.left, in, "pipe"),
                                         Runcmd(cmd.right, "pipe", out))
      [] cmd.type = "BACK" ->
            <<ForkOf(Runcmd(cmd.cmd, in, out)), Instr("exit", 0, 0)>>

\* The main loop: getcmd(), then fork1() and wait().
Getcmd(cmd) ==
    /\ pc[Shell] = "user" /\ prog[Shell] = <<>>
    /\ Cardinality({p \in Proc \ {Shell} : pc[p] # "free"}) <= Overlap(cmd)
    /\ prog' = [prog EXCEPT ![Shell] =
                  <<ForkOf(Runcmd(cmd, "inode", "inode")), Instr("wait", 0, 0)>>]
    /\ UNCHANGED <<ioVars, ofile, parent, killed, pc, fds, todo, exits, pfd>>

\* getcmd() finds the end of file, and main() exits.  Bound: the user types it
\* with at most one process left.
Eof ==
    /\ pc[Shell] = "user" /\ prog[Shell] = <<>>
    /\ Cardinality({p \in Proc \ {Shell} : pc[p] # "free"}) <= 1
    /\ prog' = [prog EXCEPT ![Shell] = <<Instr("exit", 0, 0)>>]
    /\ UNCHANGED <<ioVars, ofile, parent, killed, pc, fds, todo, exits, pfd>>

\* exec() of a program, or of a file that is none.
Exec(p) ==
    LET i == Head(prog[p]) IN
    /\ i.op = "exec"
    /\ prog' = [prog EXCEPT ![p] = Program(i.bytes[1]) \o Tail(@)]
    /\ UNCHANGED <<ioVars, ofile, parent, killed, pc, fds, todo, exits, pfd>>

\* A program of which nothing is known makes one of its n calls.
Choose(p) ==
    LET i == Head(prog[p]) IN
    /\ i.op = "any"
    /\ \E call \in AnyCalls :
        prog' = [prog EXCEPT ![p] = <<call>> \o (IF i.n = 1 THEN Tail(@) ELSE
                                   <<[i EXCEPT !.n = @ - 1]>> \o Tail(@))]
    /\ UNCHANGED <<ioVars, ofile, parent, killed, pc, fds, todo, exits, pfd>>

\* init starts a new shell when the old one has gone.
Restart ==
    /\ pc[Shell] = "zombie"
    /\ Goto(Shell, "user")
    /\ ofile' = [ofile EXCEPT ![Shell] = [d \in Fd |-> IF d < 3 THEN 1 ELSE None]]
    /\ file' = [file EXCEPT ![1].ref = @ + 3]
    /\ UNCHANGED <<pipe, cut, on, rem, got, parent, killed, fds, todo, exits, prog,
                   pfd>>

\* One step of process p.
Step(p) ==
    \/ InCall(p)
    \/ /\ pc[p] = "user" /\ ~killed[p] /\ prog[p] # <<>>
       /\ \/ Syscall(p, Head(prog[p]))
          \/ Exec(p) \/ Choose(p)
    \/ Die(p)
    \/ p # Shell /\ InitWait(p)

Run == Restart \/ \E p \in Proc : Step(p)

\* Bound: one killed process at a time.
Next ==
    \/ \E cmd \in Cmds : Getcmd(cmd)
    \/ Eof
    \/ Run
    \/ \E p \in Victim :
          (\A r \in Proc \ {p} : ~killed[r]) /\ Kill(p)

\* The scheduler does not idle while a process can run.
Spec == Init /\ [][Next]_vars /\ WF_vars(Run)

----------------------------------------------------------------------------
(* Properties                                                              *)

\* References to f that process p has: descriptors, and files that a call is
\* about to install or to close.
References(p, f) ==
    Uses(p, f) + Cardinality({i \in DOMAIN todo[p] : todo[p][i] = f})
               + Cardinality({i \in DOMAIN fds[p] : fds[p][i] = f})

\* The reference count of a file is the number of references there are, so
\* fileclose() and filedup() never panic and filealloc() never hands out a
\* file in use; and a pipe has an end open exactly when a file or a
\* pipeclose() still to come stands for that end, so the page of a pipe is
\* freed neither too early nor never.
RefsExact ==
    /\ \A f \in Files :
        file[f].ref = (IF f = 1 THEN 3 ELSE 0)
                      + SumFunction([p \in Proc |-> References(p, f)])
    /\ \A q \in Pipes, w \in BOOLEAN :
        (IF w THEN pipe[q].writeopen ELSE pipe[q].readopen)
        <=> \/ \E f \in Files : /\ file[f].ref > 0 /\ file[f].type = "pipe"
                                 /\ file[f].pipe = q /\ file[f].writable = w
            \/ \E p \in Proc : /\ on[p] = q
                                /\ pc[p] = IF w THEN "close_write" ELSE "close_read"

\* A sleeping reader finds nothing to read and somebody who can write, a
\* sleeping writer finds no room and somebody who can read; the exception is
\* a pipe whose last writer was killed and left without a wakeup().
PipeSleepersHaveReason ==
    \A p \in {r \in Proc : on[r] # None /\ Unlocked(on[r])} :
        /\ pc[p] = "read_sleep" =>
              (Avail(on[p]) = 0 \/ cut[on[p]]) /\ pipe[on[p]].writeopen
        /\ pc[p] = "write_sleep" =>
              Avail(on[p]) = PIPESIZE /\ pipe[on[p]].readopen

\* A program that runcmd() starts has three descriptors, and 0 and 1 are
\* the ends the command line says: a pipe's read end on the right of a bar,
\* its write end on the left, the file of a redirection.
Kind(p, fd, w) ==
    LET f == ofile[p][fd] IN
    IF f = None \/ (file[f].type = "pipe" /\ file[f].writable # w) THEN "none"
                                                                 ELSE file[f].type
Plumbed ==
    \A p \in Proc :
        pc[p] = "user" /\ prog[p] # <<>> /\ Head(prog[p]).op = "exec" =>
            /\ {d \in Fd : ofile[p][d] # None} = 0..2
            /\ <<Kind(p, 0, FALSE), Kind(p, 1, TRUE)>> = Tail(Head(prog[p]).bytes)

\* Pipes keep the bytes and their order, also when nread and nwrite wrap.
IsOpen(q) == pipe[q].readopen \/ pipe[q].writeopen
F == INSTANCE Fifo WITH Pipe <- Pipes, Capacity <- PIPESIZE,
        open <- [q \in Pipes |-> IsOpen(q)],
        queue <- [q \in Pipes |-> IF IsOpen(q) THEN Content(q) ELSE <<>>]
ImplementsFifo == F!Spec

\* The shell always comes back to its prompt, or init to a new shell, however
\* the commands end: programs that fail or are killed, fork() and pipe() that
\* find no slot included.
ShellReturns == []<>(pc[Shell] = "user" /\ prog[Shell] = <<>>)
====
