------------------------------- MODULE Parser -------------------------------
(***************************************************************************)
(* The shell's parser, the second half of sh.c: recursive descent over the *)
(* characters of the line, and the NULs written into the line afterwards.  *)
(*                                                                         *)
(* A position is an index into the line; the one after the last character  *)
(* is es, where the NUL is.  A parsing function returns the command and    *)
(* the position it leaves in *ps, or Panic.  The user types the line one   *)
(* character after another, and every prefix is a line to parse.           *)
(***************************************************************************)
EXTENDS Grammar

CONSTANTS
    Alphabet,           \* characters the user types
    MaxLine             \* bound: length of the line

ASSUME ParserAssumption == MAXARGS \in Nat \ {0} /\ MaxLine \in Nat

VARIABLE typed

Parsed(cmd, s) == [ok |-> TRUE, cmd |-> cmd, s |-> s]
Panic == [ok |-> FALSE, cmd |-> <<>>, s |-> 0]

CharAt(s) == IF s <= Len(typed) THEN typed[s] ELSE "NUL"

Skip[s \in Nat] == IF CharAt(s) \in Space THEN Skip[s + 1] ELSE s
WordEnd[s \in Nat] ==
    IF CharAt(s) \in Symbol \cup Space \cup {"NUL"} THEN s ELSE WordEnd[s + 1]

\* Variant: ">>" is two tokens.
TokenAt_Single(q) ==
    CASE CharAt(q) = "NUL" -> <<"NUL", q>>
      [] CharAt(q) \in Symbol -> <<CharAt(q), q + 1>>
      [] OTHER -> <<"a", WordEnd[q]>>

\* The switch of gettoken(): the token that begins at q, and its end.
TokenAt(q) ==
    CASE CharAt(q) = "NUL" -> <<"NUL", q>>
      [] CharAt(q) = ">" /\ CharAt(q + 1) = ">" -> <<"+", q + 2>>
      [] CharAt(q) \in Symbol -> <<CharAt(q), q + 1>>
      [] OTHER -> <<"a", WordEnd[q]>>

Gettoken[s \in Nat] ==
    LET t == TokenAt(Skip[s]) IN
    [tok |-> t[1], word |-> <<Skip[s], t[2]>>, s |-> Skip[t[2]]]

Peek(s, toks) == CharAt(Skip[s]) \in toks

\* Arguments, and redirections to put around a command.
Words == Seq(Nat \X Nat)
Redirections == Seq([file : Nat \X Nat, fd : {0, 1}])

\* parseredirs(): the redirections found, added to those before.
Parseredirs[s \in Nat, redirs \in Redirections] ==
    LET file == Gettoken[Gettoken[s].s]
        fd == IF Gettoken[s].tok = "<" THEN 0 ELSE 1
    IN IF ~Peek(s, {"<", ">"}) THEN Parsed(redirs, s)
       ELSE IF file.tok # "a" THEN Panic
       ELSE Parseredirs[file.s, Append(redirs, [file |-> file.word, fd |-> fd])]

\* The loop of parseexec(), with the arguments and redirections so far.
Arguments[s \in Nat, argv \in Words, redirs \in Redirections] ==
    LET word == Gettoken[s]
        next == Append(argv, word.word)
        r == Parseredirs[word.s, redirs]
    IN IF Peek(s, {"|", ")", "&", ";"}) \/ word.tok = "NUL"
       THEN Parsed(Wrapped(Execcmd(argv), redirs), s)
       ELSE IF word.tok # "a" \/ Len(next) >= MAXARGS \/ ~r.ok THEN Panic
       ELSE Arguments[r.s, next, r.cmd]

\* The functions that call each other take P, which gives what each of them
\* returns at a position.
Parseblock(P, s) ==
    LET line == P["parseline", Gettoken[s].s]
        r == Parseredirs[Gettoken[line.s].s, <<>>]
    IN IF ~line.ok \/ ~Peek(line.s, {")"}) \/ ~r.ok THEN Panic
       ELSE Parsed(Wrapped(line.cmd, r.cmd), r.s)

Parseexec(P, s) ==
    LET r == Parseredirs[s, <<>>]
    IN IF Peek(s, {"("}) THEN Parseblock(P, s)
       ELSE IF ~r.ok THEN Panic ELSE Arguments[r.s, <<>>, r.cmd]

Parsepipe(P, s) ==
    LET left == P["parseexec", s]
        right == P["parsepipe", Gettoken[left.s].s]
    IN IF ~left.ok \/ ~Peek(left.s, {"|"}) THEN left
       ELSE IF ~right.ok THEN Panic
       ELSE Parsed(Pipecmd(left.cmd, right.cmd), right.s)

\* The loop of parseline(): where the ampersands end and how many they are.
Ampersands[s \in Nat, k \in Nat] ==
    IF Peek(s, {"&"}) THEN Ampersands[Gettoken[s].s, k + 1] ELSE <<s, k>>
Backcmds(cmd, k) == FoldLeft(LAMBDA c, i : Backcmd(c), cmd, [i \in 1..k |-> i])

Parseline(P, s) ==
    LET left == P["parsepipe", s]
        amps == Ampersands[left.s, 0]
        cmd == Backcmds(left.cmd, amps[2])
        right == P["parseline", Gettoken[amps[1]].s]
    IN IF ~left.ok THEN Panic
       ELSE IF ~Peek(amps[1], {";"}) THEN Parsed(cmd, amps[1])
       ELSE IF ~right.ok THEN Panic
       ELSE Parsed(Listcmd(cmd, right.cmd), right.s)

\* parsecmd() before nulterminate(): nothing may be left over.
Parsecmd ==
    LET P[f \in {"parseline", "parsepipe", "parseexec"}, s \in Nat] ==
            CASE f = "parseline" -> Parseline(P, s)
              [] f = "parsepipe" -> Parsepipe(P, s)
              [] f = "parseexec" -> Parseexec(P, s)
        r == P["parseline", 1]
    IN IF r.ok /\ Skip[r.s] = Len(typed) + 1 THEN r ELSE Panic

\* The words of a command that become strings.
RECURSIVE Strings(_)
Strings(cmd) ==
    CASE cmd[1] = "EXEC" -> ToSet(cmd[2])
      [] cmd[1] = "REDIR" -> Strings(cmd[2]) \cup {cmd[3]}
      [] cmd[1] \in {"PIPE", "LIST"} -> Strings(cmd[2]) \cup Strings(cmd[3])
      [] cmd[1] = "BACK" -> Strings(cmd[2])

\* The positions where nulterminate() writes a NUL.
RECURSIVE Nulterminate(_)
Nulterminate(cmd) ==
    CASE cmd[1] = "EXEC" -> {w[2] : w \in ToSet(cmd[2])}
      [] cmd[1] = "REDIR" -> Nulterminate(cmd[2]) \cup {cmd[3][2]}
      [] cmd[1] \in {"PIPE", "LIST"} -> Nulterminate(cmd[2]) \cup Nulterminate(cmd[3])
      [] cmd[1] = "BACK" -> Nulterminate(cmd[2])

ParserInit == typed = <<>>
ParserNext ==
    \/ Len(typed) < MaxLine /\ \E c \in Alphabet : typed' = Append(typed, c)
    \/ Len(typed) > 0 /\ typed' = <<>>                  \* the newline
ParserSpec == ParserInit /\ [][ParserNext]_typed

----------------------------------------------------------------------------
(* Properties                                                              *)

\* The parser accepts exactly the grammar, which gives every line at most one
\* tree, and builds that tree; and the NULs written into the line end every
\* argument and file name where it ends and cut none of them short, though they
\* overwrite the line itself: what runcmd() runs is what the line says.
ParsesGrammar ==
    \A r \in {Parsecmd}, ts \in {Tokens(typed)} :
        /\ Trees(ts) = IF r.ok THEN {r.cmd} ELSE {}
        /\ r.ok => LET nuls == Nulterminate(r.cmd) \cup {Len(typed) + 1} IN
            \A w \in Strings(r.cmd) :
                w[2] \in nuls /\ \A k \in w[1]..(w[2] - 1) : k \notin nuls
====
