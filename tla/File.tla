-------------------------------- MODULE File --------------------------------
(***************************************************************************)
(* Open files and pipes: the file table (file.c), descriptors and the      *)
(* calls on them (sysfile.c), pipes (pipe.c), and what fork(), exit(),     *)
(* wait() and kill() do to them.                                           *)
(*                                                                         *)
(* A process runs a program, a sequence of instructions; an instruction is *)
(* one system call.  Grain: a step is what runs under one spin lock, and a *)
(* killed check is apart from the sleep() after it, because kill() needs   *)
(* only ptable.lock.  fork()'s filedup()s are one step: nobody else can    *)
(* close the parent's files.  Inode files are empty and take all writes.   *)
(***************************************************************************)
EXTENDS Integers, Sequences, SequencesExt, FiniteSets, FiniteSetsExt

CONSTANTS
    NPROC,              \* process slots; init is not one of them
    NFILE, NOFILE, NPIPE,
    PIPESIZE,
    UINT                \* modulus of the counters of a pipe

ASSUME FileAssumption == UINT % PIPESIZE = 0 /\ UINT > PIPESIZE

Proc == 1..NPROC
Files == 1..NFILE
Fd == 0..NOFILE - 1
Pipes == 1..NPIPE       \* pages kalloc() has left for pipes
InitProc == 0
None == -1

VARIABLES
    file,               \* ftable.file
    ofile, parent, killed,
    pipe,               \* the pipes, and
    cut,                \* the ones a killed writer left without a wakeup
    pc,                 \* the step a process is at, in user mode or a call
    on,                 \* the pipe its read(), write() or close() is about
    rem, got,           \* bytes write() has still to store; what read() got
    fds,                \* files a call has allocated
    todo, exits,        \* files it has to close, and whether to exit
    prog, pfd           \* the rest of the program; its int p[2]

ioVars == <<file, pipe, cut, on, rem, got>>
procVars == <<ofile, parent, killed, pc, fds, todo, exits, prog, pfd>>
vars == <<ioVars, procVars>>

\* A file nobody has; the fields fileclose() leaves are set before they are read.
NoFile == [ref |-> 0, type |-> "none", pipe |-> None, writable |-> FALSE]
NoPipe == [data |-> [i \in 0..PIPESIZE - 1 |-> 0], nread |-> 0, nwrite |-> 0,
           readopen |-> FALSE, writeopen |-> FALSE]

\* The shell at its prompt: init and it have three descriptors each for the
\* console.
Init ==
    /\ file = [f \in Files |-> IF f = 1
                 THEN [ref |-> 6, type |-> "inode", pipe |-> None, writable |-> TRUE]
                 ELSE NoFile]
    /\ ofile = [p \in Proc |-> [d \in Fd |-> IF p = 1 /\ d < 3 THEN 1 ELSE None]]
    /\ parent = [p \in Proc |-> InitProc] /\ killed = [p \in Proc |-> FALSE]
    /\ pipe = [q \in Pipes |-> NoPipe] /\ cut = [q \in Pipes |-> FALSE]
    /\ pc = [p \in Proc |-> IF p = 1 THEN "user" ELSE "free"]
    /\ on = [p \in Proc |-> None]
    /\ rem = [p \in Proc |-> <<>>] /\ got = [p \in Proc |-> <<>>]
    /\ fds = [p \in Proc |-> <<>>] /\ todo = [p \in Proc |-> <<>>]
    /\ exits = [p \in Proc |-> FALSE]
    /\ prog = [p \in Proc |-> <<>>] /\ pfd = [p \in Proc |-> <<0, 0>>]

Goto(p, point) == pc' = [pc EXCEPT ![p] = point]

\* wakeup() of those who sleep at a point about pipe q, p itself moving on.
Wake(p, point, q, from, to) ==
    pc' = [r \in Proc |-> IF r = p THEN point
                          ELSE IF pc[r] = from /\ on[r] = q THEN to ELSE pc[r]]

\* The call returns and the program goes on with the rest.
Returns(p, rest) ==
    /\ prog' = [prog EXCEPT ![p] = rest]
    /\ Goto(p, "user")

----------------------------------------------------------------------------
(* Descriptors                                                             *)

FreeFds(p) == {d \in Fd : ofile[p][d] = None}
Unused == {f \in Files : file[f].ref = 0}

\* argfd(): the file of a descriptor.
Argfd(p, fd) == ofile[p][fd]

\* Calls that take an allocated file or two: pipe() and open().
Filealloc(p) ==
    /\ pc[p] \in {"pipe", "open"}
    /\ Len(fds[p]) < (IF pc[p] = "pipe" THEN 2 ELSE 1) /\ Unused # {}
    /\ file' = [file EXCEPT ![Min(Unused)].ref = 1]
    /\ fds' = [fds EXCEPT ![p] = Append(@, Min(Unused))]
    /\ UNCHANGED <<ofile, parent, killed, pipe, cut, pc, on, rem, got, todo,
                   exits, prog, pfd>>

\* What is left of a failed call: the files it has are closed, the program
\* panics.
Fails(p) ==
    /\ todo' = [todo EXCEPT ![p] = fds[p]] /\ fds' = [fds EXCEPT ![p] = <<>>]
    /\ exits' = [exits EXCEPT ![p] = FALSE]
    /\ prog' = [prog EXCEPT ![p] = <<[Head(@) EXCEPT !.op = "exit"]>>]
    /\ Goto(p, "close")

\* No file, for the first or the second: pipealloc() and open() go to bad.
FileallocFails(p) ==
    /\ pc[p] \in {"pipe", "open"}
    /\ Len(fds[p]) < (IF pc[p] = "pipe" THEN 2 ELSE 1) /\ Unused = {}
    /\ Fails(p)
    /\ UNCHANGED <<ofile, parent, killed, ioVars, pfd>>

\* The rest of pipealloc(), with page q for the pipe.
Pipealloc(p, q) ==
    LET End(w) == [ref |-> 1, type |-> "pipe", pipe |-> q, writable |-> w] IN
    /\ file' = [file EXCEPT ![fds[p][1]] = End(FALSE), ![fds[p][2]] = End(TRUE)]
    /\ pipe' = [pipe EXCEPT ![q] = [@ EXCEPT !.readopen = TRUE, !.writeopen = TRUE,
                                            !.nread = 0, !.nwrite = 0]]
    /\ cut' = [cut EXCEPT ![q] = FALSE]

\* The rest of sys_pipe().
SysPipe(p) ==
    LET q == {r \in Pipes : ~pipe[r].readopen /\ ~pipe[r].writeopen}
        free == FreeFds(p)
        fd0 == Min(free)
        fd1 == Min(free \ {fd0})
    IN
    /\ pc[p] = "pipe" /\ Len(fds[p]) = 2
    /\ \/ q = {} /\ Fails(p) /\ UNCHANGED <<file, ofile, pipe, cut, pfd>>
       \/ /\ q # {}
          /\ Pipealloc(p, Min(q))
          /\ \/ Cardinality(free) < 2 /\ Fails(p) /\ UNCHANGED <<ofile, pfd>>
             \/ /\ Cardinality(free) >= 2
                /\ ofile' = [ofile EXCEPT ![p][fd0] = fds[p][1], ![p][fd1] = fds[p][2]]
                /\ pfd' = [pfd EXCEPT ![p] = <<fd0, fd1>>]
                /\ fds' = [fds EXCEPT ![p] = <<>>]
                /\ Returns(p, Tail(prog[p])) /\ UNCHANGED <<todo, exits>>
    /\ UNCHANGED <<parent, killed, on, rem, got>>

\* The rest of sys_open().
SysOpen(p) ==
    /\ pc[p] = "open" /\ Len(fds[p]) = 1
    /\ \/ FreeFds(p) = {} /\ Fails(p) /\ UNCHANGED <<file, ofile>>
       \/ /\ FreeFds(p) # {}
          /\ file' = [file EXCEPT ![fds[p][1]] =
                [ref |-> 1, type |-> "inode", pipe |-> None, writable |-> TRUE]]
          /\ ofile' = [ofile EXCEPT ![p][Min(FreeFds(p))] = fds[p][1]]
          /\ fds' = [fds EXCEPT ![p] = <<>>]
          /\ Returns(p, Tail(prog[p])) /\ UNCHANGED <<todo, exits>>
    /\ UNCHANGED <<parent, killed, pipe, cut, on, rem, got, pfd>>

\* sys_dup().
SysDup(p, fd) ==
    /\ \/ /\ Argfd(p, fd) # None /\ FreeFds(p) # {}
          /\ ofile' = [ofile EXCEPT ![p][Min(FreeFds(p))] = Argfd(p, fd)]
          /\ file' = [file EXCEPT ![Argfd(p, fd)].ref = @ + 1]
       \/ /\ Argfd(p, fd) = None \/ FreeFds(p) = {}
          /\ UNCHANGED <<file, ofile>>
    /\ Returns(p, Tail(prog[p]))
    /\ UNCHANGED <<parent, killed, pipe, cut, on, rem, got, fds, todo, exits, pfd>>

\* Variant: the type of a closed file stays.
Closed_KeepsType(f) == [file EXCEPT ![f].ref = @ - 1]

\* ftable after fileclose(f) under ftable.lock.
Closed(f) ==
    IF file[f].ref > 1 THEN [file EXCEPT ![f].ref = @ - 1]
                       ELSE [file EXCEPT ![f] = NoFile]

\* fileclose(f), up to pipeclose(); then is where it returns to.
Fileclose(p, f, then) ==
    LET last == file[f].ref = 1 /\ file[f].type = "pipe" IN
    /\ file' = Closed(f)
    /\ on' = IF last THEN [on EXCEPT ![p] = file[f].pipe] ELSE on
    /\ Goto(p, IF ~last THEN then
               ELSE IF file[f].writable THEN "close_write" ELSE "close_read")

\* sys_close().
SysClose(p, fd) ==
    /\ \/ /\ Argfd(p, fd) # None
          /\ ofile' = [ofile EXCEPT ![p][fd] = None]
          /\ Fileclose(p, Argfd(p, fd), "user")
       \/ Argfd(p, fd) = None /\ UNCHANGED <<ofile, file, on, pc>>
    /\ prog' = [prog EXCEPT ![p] = Tail(@)]
    /\ UNCHANGED <<parent, killed, pipe, cut, rem, got, fds, todo, exits, pfd>>

\* The next fileclose() of exit() or of a call that failed.
CloseNext(p) ==
    /\ pc[p] = "close" /\ todo[p] # <<>>
    /\ Fileclose(p, Head(todo[p]), "close")
    /\ todo' = [todo EXCEPT ![p] = Tail(@)]
    /\ UNCHANGED <<ofile, parent, killed, pipe, cut, rem, got, fds, exits, prog, pfd>>

----------------------------------------------------------------------------
(* pipe.c                                                                  *)

\* p->lock is taken for a moment, or by a process about to sleep.
Unlocked(q) == \A p \in Proc : ~(pc[p] \in {"write_full", "read_empty"} /\ on[p] = q)

Avail(q) == (pipe[q].nwrite - pipe[q].nread) % UINT
Content(q) == [i \in 1..Avail(q) |->
                  pipe[q].data[(pipe[q].nread + i - 1) % PIPESIZE]]

\* Where a fileclose() returns to.
Back(p) == IF exits[p] \/ todo[p] # <<>> THEN "close" ELSE "user"

\* The pipe with one end closed; with the last one its page is freed.
Shut(q, writable) ==
    IF writable
    THEN IF pipe[q].readopen THEN [pipe[q] EXCEPT !.writeopen = FALSE] ELSE NoPipe
    ELSE IF pipe[q].writeopen THEN [pipe[q] EXCEPT !.readopen = FALSE] ELSE NoPipe

\* Variant: the readers are not told that nobody will write any more.
Pipeclose_NoWake(p) ==
    /\ pc[p] \in {"close_write", "close_read"} /\ Unlocked(on[p])
    /\ pipe' = [pipe EXCEPT ![on[p]] = Shut(on[p], pc[p] = "close_write")]
    /\ Goto(p, Back(p))
    /\ on' = [on EXCEPT ![p] = None]
    /\ UNCHANGED <<cut, file, rem, got, ofile, parent, killed, fds, todo, exits,
                   prog, pfd>>

Pipeclose(p) ==
    /\ pc[p] \in {"close_write", "close_read"} /\ Unlocked(on[p])
    /\ pipe' = [pipe EXCEPT ![on[p]] = Shut(on[p], pc[p] = "close_write")]
    /\ \/ /\ pc[p] = "close_write"
          /\ Wake(p, Back(p), on[p], "read_sleep", "read")
          /\ cut' = [cut EXCEPT ![on[p]] = FALSE]
       \/ /\ pc[p] = "close_read"
          /\ Wake(p, Back(p), on[p], "write_sleep", "write")
          /\ UNCHANGED cut
    /\ on' = [on EXCEPT ![p] = None]
    /\ UNCHANGED <<file, rem, got, ofile, parent, killed, fds, todo, exits,
                   prog, pfd>>

\* filewrite() of file f is a call of pipewrite().
WritesPipe(f) == f # None /\ file[f].type = "pipe" /\ file[f].writable

\* sys_write(): refused, taken by an inode, or a call of pipewrite().
SysWrite(p, fd, bytes) ==
    LET f == Argfd(p, fd) IN
    /\ \/ ~WritesPipe(f) /\ Returns(p, Tail(prog[p])) /\ UNCHANGED <<on, rem>>
       \/ /\ WritesPipe(f) /\ on' = [on EXCEPT ![p] = file[f].pipe]
          /\ rem' = [rem EXCEPT ![p] = bytes]
          /\ prog' = [prog EXCEPT ![p] = Tail(@)]
          /\ Goto(p, "write")
    /\ UNCHANGED <<file, pipe, cut, got, ofile, parent, killed, fds, todo, exits, pfd>>

\* Variant: the pipe looks full one byte too late.
Room_OffByOne(q) == PIPESIZE + 1 - Avail(q)

Room(q) == PIPESIZE - Avail(q)

\* The pipe after the first k bytes were stored.
Store(q, bytes, k) ==
    [pipe[q] EXCEPT
        !.data = [i \in 0..PIPESIZE - 1 |->
            LET new == {j \in 1..k : (pipe[q].nwrite + j - 1) % PIPESIZE = i}
            IN IF new = {} THEN @[i] ELSE bytes[Max(new)]],
        !.nwrite = (@ + k) % UINT]

\* pipewrite() from acquire(), or from sleep(), until it is done or the pipe
\* is full; there it gives up if nobody can read or the caller was killed.
Pipewrite(p) ==
    LET q == on[p]
        k == Min({Len(rem[p]), Room(q)})
        full == k < Len(rem[p])
        stop == ~pipe[q].readopen \/ killed[p]
    IN
    /\ pc[p] = "write" /\ Unlocked(q)
    /\ pipe' = [pipe EXCEPT ![q] = Store(q, rem[p], k)]
    /\ \/ /\ full /\ ~stop
          /\ rem' = [rem EXCEPT ![p] = SubSeq(@, k + 1, Len(@))]
          /\ Goto(p, "write_full") /\ UNCHANGED <<on, cut>>
       \/ /\ full /\ stop
          /\ rem' = [rem EXCEPT ![p] = SubSeq(@, k + 1, Len(@))]
          /\ Goto(p, "write_fail")
          /\ cut' = [cut EXCEPT ![q] = TRUE]
          /\ UNCHANGED on
       \/ /\ ~full
          /\ rem' = [rem EXCEPT ![p] = <<>>]
          /\ Wake(p, "user", q, "read_sleep", "read")
          /\ cut' = [cut EXCEPT ![q] = FALSE]
          /\ on' = [on EXCEPT ![p] = None]
    /\ UNCHANGED <<file, got, ofile, parent, killed, fds, todo, exits, prog, pfd>>

\* The wakeup() and the sleep() after the check, and the return of -1.
PipewriteSleep(p) ==
    /\ pc[p] = "write_full"
    /\ Wake(p, "write_sleep", on[p], "read_sleep", "read")
    /\ cut' = [cut EXCEPT ![on[p]] = FALSE]
    /\ UNCHANGED <<file, pipe, on, rem, got, ofile, parent, killed, fds, todo,
                   exits, prog, pfd>>

PipewriteFails(p) ==
    /\ pc[p] = "write_fail"
    /\ rem' = [rem EXCEPT ![p] = <<>>] /\ on' = [on EXCEPT ![p] = None]
    /\ Goto(p, "user")
    /\ UNCHANGED <<file, pipe, cut, got, ofile, parent, killed, fds, todo, exits,
                   prog, pfd>>

\* read() returned these bytes: a program that copies writes them to
\* descriptor 1 and reads again, until there are none.
ReadReturns(p, bytes) ==
    /\ got' = [got EXCEPT ![p] = bytes]
    /\ prog' = [prog EXCEPT ![p] =
          IF Head(@).op = "copy" /\ bytes # <<>>
          THEN <<[Head(@) EXCEPT !.op = "write", !.fd = 1, !.bytes = bytes]>> \o @
          ELSE Tail(@)]

\* fileread() of file f is a call of piperead().
ReadsPipe(f) == f # None /\ file[f].type = "pipe" /\ ~file[f].writable

\* sys_read(): refused, the end of an inode file, or a call of piperead().
SysRead(p, fd) ==
    LET f == Argfd(p, fd) IN
    /\ \/ ~ReadsPipe(f) /\ ReadReturns(p, <<>>) /\ UNCHANGED <<on, pc>>
       \/ /\ ReadsPipe(f) /\ on' = [on EXCEPT ![p] = file[f].pipe]
          /\ Goto(p, "read") /\ UNCHANGED <<got, prog>>
    /\ UNCHANGED <<file, pipe, cut, rem, ofile, parent, killed, fds, todo, exits, pfd>>

\* piperead() from acquire(), or from sleep(), until it returns or finds the
\* pipe empty.
Piperead(p) ==
    LET q == on[p]
        k == Min({Head(prog[p]).n, Avail(q)})
        empty == Avail(q) = 0 /\ pipe[q].writeopen
    IN
    /\ pc[p] = "read" /\ Unlocked(q)
    /\ \/ /\ empty /\ ~killed[p]
          /\ Goto(p, "read_empty") /\ UNCHANGED <<pipe, on, got, prog>>
       \/ /\ empty /\ killed[p]
          /\ ReadReturns(p, <<>>) /\ on' = [on EXCEPT ![p] = None]
          /\ Goto(p, "user") /\ UNCHANGED pipe
       \/ /\ ~empty
          /\ ReadReturns(p, SubSeq(Content(q), 1, k))
          /\ pipe' = [pipe EXCEPT ![q].nread = (@ + k) % UINT]
          /\ on' = [on EXCEPT ![p] = None]
          /\ Wake(p, "user", q, "write_sleep", "write")
    /\ UNCHANGED <<file, cut, rem, ofile, parent, killed, fds, todo, exits, pfd>>

PipereadSleep(p) ==
    /\ pc[p] = "read_empty"
    /\ Goto(p, "read_sleep")
    /\ UNCHANGED <<ioVars, ofile, parent, killed, fds, todo, exits, prog, pfd>>

----------------------------------------------------------------------------
(* fork(), exit(), wait(), kill()                                          *)

Uses(p, f) == Cardinality({d \in Fd : ofile[p][d] = f})

\* ftable after the filedup()s of fork().
ForkFiles(p) == [f \in Files |-> [file[f] EXCEPT !.ref = @ + Uses(p, f)]]

\* fork() of a child that runs this program; fork1() panics without a slot.
Fork(p, program) ==
    LET free == {c \in Proc : pc[c] = "free"} IN
    /\ \/ /\ free # {}
          /\ file' = ForkFiles(p)
          /\ ofile' = [ofile EXCEPT ![Min(free)] = ofile[p]]
          /\ parent' = [parent EXCEPT ![Min(free)] = p]
          /\ Goto(Min(free), "user")
          /\ prog' = [prog EXCEPT ![Min(free)] = program, ![p] = Tail(@)]
          /\ pfd' = [pfd EXCEPT ![Min(free)] = pfd[p]]
       \/ /\ free = {}
          /\ prog' = [prog EXCEPT ![p] = <<[Head(@) EXCEPT !.op = "exit"]>>]
          /\ UNCHANGED <<file, ofile, parent, pc, pfd>>
    /\ UNCHANGED <<pipe, cut, on, rem, got, killed, fds, todo, exits>>

\* exit(): every descriptor is closed, then the process becomes a zombie.
\* The inode files are closed at once: nobody waits for that.
Exit(p) ==
    LET inodes == {f \in Files : file[f].type = "inode" /\ Uses(p, f) > 0} IN
    /\ file' = [f \in Files |->
          IF f \notin inodes THEN file[f]
          ELSE IF file[f].ref = Uses(p, f) THEN NoFile
          ELSE [file[f] EXCEPT !.ref = @ - Uses(p, f)]]
    /\ todo' = [todo EXCEPT ![p] = SelectSeq([i \in 1..NOFILE |-> ofile[p][i - 1]],
                                   LAMBDA f : f \notin inodes \cup {None})]
    /\ ofile' = [ofile EXCEPT ![p] = [d \in Fd |-> None]]
    /\ exits' = [exits EXCEPT ![p] = TRUE]
    /\ Goto(p, "close")
    /\ UNCHANGED <<pipe, cut, on, rem, got, parent, killed, fds, prog, pfd>>

\* The calls of fileclose() are done.
CloseDone(p) ==
    /\ pc[p] = "close" /\ todo[p] = <<>> /\ ~exits[p]
    /\ Goto(p, "user")
    /\ UNCHANGED <<ioVars, ofile, parent, killed, fds, todo, exits, prog, pfd>>

ExitDone(p) ==
    /\ pc[p] = "close" /\ todo[p] = <<>> /\ exits[p]
    /\ pc' = [r \in Proc |-> IF r = p THEN "zombie"
                 ELSE IF r = parent[p] /\ pc[r] = "wait_sleep" THEN "wait" ELSE pc[r]]
    /\ parent' = [r \in Proc |-> IF parent[r] = p THEN InitProc ELSE parent[r]]
    /\ prog' = [prog EXCEPT ![p] = <<>>] /\ pfd' = [pfd EXCEPT ![p] = <<0, 0>>]
    /\ got' = [got EXCEPT ![p] = <<>>] /\ exits' = [exits EXCEPT ![p] = FALSE]
    /\ UNCHANGED <<file, pipe, cut, on, rem, ofile, killed, fds, todo>>

\* One turn of the loop of wait().
Wait(p) ==
    LET kids == {c \in Proc : pc[c] # "free" /\ parent[c] = p}
        zombies == {c \in kids : pc[c] = "zombie"}
    IN
    /\ pc[p] = "wait"
    /\ \/ /\ zombies # {}
          /\ pc' = [pc EXCEPT ![Min(zombies)] = "free", ![p] = "user"]
          /\ killed' = [killed EXCEPT ![Min(zombies)] = FALSE]
          /\ parent' = [parent EXCEPT ![Min(zombies)] = InitProc]
       \/ /\ zombies = {}
          /\ Goto(p, IF kids = {} \/ killed[p] THEN "user" ELSE "wait_sleep")
          /\ UNCHANGED <<killed, parent>>
    /\ UNCHANGED <<ioVars, ofile, fds, todo, exits, prog, pfd>>

\* init reaps its children.
InitWait(p) ==
    /\ pc[p] = "zombie" /\ parent[p] = InitProc
    /\ Goto(p, "free") /\ killed' = [killed EXCEPT ![p] = FALSE]
    /\ UNCHANGED <<ioVars, ofile, parent, fds, todo, exits, prog, pfd>>

Kill(p) ==
    /\ pc[p] \notin {"free", "zombie"}
    /\ killed' = [killed EXCEPT ![p] = TRUE]
    /\ pc' = [pc EXCEPT ![p] = CASE @ = "write_sleep" -> "write"
                                [] @ = "read_sleep" -> "read"
                                [] @ = "wait_sleep" -> "wait"
                                [] OTHER -> @]
    /\ UNCHANGED <<ioVars, ofile, parent, fds, todo, exits, prog, pfd>>

\* trap(): a killed process exits before it returns to user mode.
Die(p) == pc[p] = "user" /\ killed[p] /\ Exit(p)

Enter(p, point) ==
    /\ Goto(p, point)
    /\ UNCHANGED <<ioVars, ofile, parent, killed, fds, todo, exits, pfd>>

\* The descriptor an instruction is about; "closep" and "dupp" take p[n].
FdOf(p, i) == IF i.op \in {"dupp", "closep"} THEN pfd[p][i.n] ELSE i.fd

\* The system call an instruction makes.
Syscall(p, i) ==
    \/ i.op = "fork" /\ Fork(p, i.child)
    \/ i.op = "wait" /\ Enter(p, "wait") /\ prog' = [prog EXCEPT ![p] = Tail(@)]
    \/ i.op = "exit" /\ Exit(p)
    \/ i.op \in {"pipe", "open"} /\ Enter(p, i.op) /\ UNCHANGED prog
    \/ i.op \in {"dup", "dupp"} /\ SysDup(p, FdOf(p, i))
    \/ i.op \in {"close", "closep"} /\ SysClose(p, FdOf(p, i))
    \/ i.op = "write" /\ SysWrite(p, i.fd, i.bytes)
    \/ i.op \in {"read", "copy"} /\ SysRead(p, i.fd)

\* The rest of a call, a step at a time.
InCall(p) ==
    \/ Filealloc(p) \/ FileallocFails(p) \/ SysPipe(p) \/ SysOpen(p)
    \/ CloseNext(p) \/ Pipeclose(p) \/ CloseDone(p) \/ ExitDone(p)
    \/ Pipewrite(p) \/ PipewriteSleep(p) \/ PipewriteFails(p)
    \/ Piperead(p) \/ PipereadSleep(p) \/ Wait(p)
====
