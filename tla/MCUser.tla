------------------------------- MODULE MCUser -------------------------------
(* User programs for TLC: the shell with the files and pipes under it, its *)
(* parser, and the allocator they all use.  The three share no state: a    *)
(* behaviour is one of one part.                                           *)
EXTENDS Sh, Umalloc, Parser

EXEC(name) == [type |-> "EXEC", argv |-> name]
PIPE(left, right) == [type |-> "PIPE", left |-> left, right |-> right]
LIST(left, right) == [type |-> "LIST", left |-> left, right |-> right]
REDIR(cmd, fd) == [type |-> "REDIR", cmd |-> cmd, fd |-> fd]
BACK(cmd) == [type |-> "BACK", cmd |-> cmd]

\* write more than a pipe holds; copy to the end; read once; ask for
\* pipes and descriptors until there are none; anything.
MCProgram(name) ==
    CASE name = "writer" -> <<WriteOf(<<1, 0, 1>>)>>
      [] name = "cat" -> <<Instr("copy", 0, 2)>>
      [] name = "head" -> <<Instr("read", 0, 1)>>
      [] name = "any" -> <<Instr("any", 0, 2)>>
      [] name = "pipes" -> <<Instr("pipe", 0, 0), Instr("pipe", 0, 0)>>
      [] name = "opens" -> <<Instr("dup", 0, 0), Instr("dup", 0, 0), Instr("dup", 0, 0),
                             Instr("open", 0, 0)>>
      [] name = "none" -> <<>>

MCMessage == {<<1, 0, 1>>, <<1, 0>>, <<1>>, <<0>>, <<0, 1>>, <<1, 1>>, <<>>}

\* Only the name of a program is typed while a background command runs.
MCOverlap(cmd) == IF cmd = EXEC("none") THEN NPROC - 1 ELSE 0

\* No call among these waits for its own process.
MCAnyCalls == {
    Instr("pipe", 0, 0), Instr("dup", 0, 0), Instr("close", 0, 0), Instr("close", 3, 0),
    ForkOf(<<Instr("close", 4, 0), Instr("read", 3, 1), Instr("exit", 0, 0)>>),
    [WriteOf(<<1>>) EXCEPT !.fd = 4]}

MCCmds == {
    PIPE(EXEC("writer"), EXEC("cat")),
    BACK(PIPE(EXEC("writer"), EXEC("head"))),
    LIST(EXEC("writer"), REDIR(EXEC("cat"), 0)),
    REDIR(EXEC("pipes"), 1),
    EXEC("none"), EXEC("opens"),
    EXEC("any")}
VARIABLE part

userVars == <<vars, heapVars, typed, part>>

UserInit ==
    /\ part \in {"shell", "heap", "parser"}
    /\ Init /\ HeapInit /\ ParserInit

UserNext ==
    \/ part = "shell" /\ Next /\ UNCHANGED <<heapVars, typed, part>>
    \/ part = "heap" /\ HeapNext /\ UNCHANGED <<vars, typed, part>>
    \/ part = "parser" /\ ParserNext /\ UNCHANGED <<vars, heapVars, part>>

UserSpec == UserInit /\ [][UserNext]_userVars /\ WF_vars(Run)
====
