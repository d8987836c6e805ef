------------------------------ MODULE Grammar ------------------------------
(***************************************************************************)
(* The shell's command language, as a grammar over tokens:                 *)
(*                                                                         *)
(*   line  ::= pipe "&"* [";" line]                                        *)
(*   pipe  ::= exec ["|" pipe]                                             *)
(*   exec  ::= redir* (word redir* )*  |  "(" line ")" redir*              *)
(*   redir ::= ("<" | ">" | ">>") word                                     *)
(*                                                                         *)
(* It is what parsecmd() of sh.c is checked against.  An operator returns  *)
(* the set of all trees of a sequence of tokens.  A token is its kind and  *)
(* the positions where it begins and ends.                                 *)
(***************************************************************************)
EXTENDS Integers, Sequences, SequencesExt, FiniteSets

CONSTANT MAXARGS

Symbol == {"<", "|", ">", "&", ";", "(", ")"}
Space == {" "}

\* The tokens of a line of characters: words are maximal, and a ">" that
\* follows an odd number of others belongs to the one before.
WordAt(line, i) == i \in DOMAIN line /\ line[i] \notin Symbol \cup Space
Before(line, i) ==         \* how many ">" end just before i
    Cardinality({k \in 1..(i - 1) : \A j \in k..(i - 1) : line[j] = ">"})
Second(line, i) == i \in DOMAIN line /\ line[i] = ">" /\ Before(line, i) % 2 = 1
Tokens(line) ==
    LET words == {[kind |-> "a", q |-> i, eq |-> j] : i, j \in 1..(Len(line) + 1)}
        isWord(t) == /\ t.q < t.eq /\ \A k \in t.q..(t.eq - 1) : WordAt(line, k)
                     /\ ~WordAt(line, t.q - 1) /\ ~WordAt(line, t.eq)
        marks == {i \in DOMAIN line : line[i] \in Symbol /\ ~Second(line, i)}
        mark(i) == IF line[i] = ">" /\ Second(line, i + 1)
                   THEN [kind |-> "+", q |-> i, eq |-> i + 2]
                   ELSE [kind |-> line[i], q |-> i, eq |-> i + 1]
    IN SetToSortSeq({t \in words : isWord(t)} \cup {mark(i) : i \in marks},
                    LAMBDA s, t : s.q < t.q)

\* The positions of ts that satisfy a test, in order.
Positions(ts, Test(_)) == SetToSortSeq({i \in DOMAIN ts : Test(i)}, <)

\* The nodes of a tree.
Execcmd(argv) == <<"EXEC", argv>>
Redircmd(c, file, fd) == <<"REDIR", c, file, fd>>
Pipecmd(left, right) == <<"PIPE", left, right>>
Listcmd(left, right) == <<"LIST", left, right>>
Backcmd(c) == <<"BACK", c>>

\* A command with redirections around it, the first one innermost.
Wrapped(cmd, redirs) ==
    FoldLeft(LAMBDA c, r : Redircmd(c, r.file, r.fd), cmd, redirs)

\* Sequences of words and redirections: every "<", ">" and ">>" has a word
\* after it, and the other words are arguments.
Redirs == {"<", ">", "+"}
WellFormed(ts) ==
    \A i \in DOMAIN ts :
        /\ ts[i].kind \in Redirs \cup {"a"}
        /\ ts[i].kind \in Redirs => i < Len(ts) /\ ts[i + 1].kind = "a"
Signs(ts) == Positions(ts, LAMBDA i : ts[i].kind \in Redirs)
RedirsOf(ts) ==
    [k \in DOMAIN Signs(ts) |->
        [file |-> <<ts[Signs(ts)[k] + 1].q, ts[Signs(ts)[k] + 1].eq>>,
         fd |-> IF ts[Signs(ts)[k]].kind = "<" THEN 0 ELSE 1]]
WordsOf(ts) ==
    LET at == Positions(ts, LAMBDA i : /\ ts[i].kind = "a"
                                       /\ (i = 1 \/ ts[i - 1].kind \notin Redirs))
    IN [k \in DOMAIN at |-> <<ts[at[k]].q, ts[at[k]].eq>>]

\* The trees of the tokens i to j as a rule of the grammar, when T gives those
\* of shorter sequences or of simpler rules.
ExecTrees(T, ts, i, j) ==
    LET all == SubSeq(ts, i, j) IN
    (IF WellFormed(all) /\ Len(WordsOf(all)) < MAXARGS
     THEN {Wrapped(Execcmd(WordsOf(all)), RedirsOf(all))} ELSE {})
    \cup UNION {
        {Wrapped(c, RedirsOf(SubSeq(ts, k + 1, j))) : c \in T["line", i + 1, k - 1]}
        : k \in {k \in (i + 1)..j : /\ ts[i].kind = "(" /\ ts[k].kind = ")"
                                   /\ WellFormed(SubSeq(ts, k + 1, j))
                                   /\ WordsOf(SubSeq(ts, k + 1, j)) = <<>>}}

PipeTrees(T, ts, i, j) ==
    T["exec", i, j]
    \cup UNION {{Pipecmd(l, r) : l \in T["exec", i, k - 1], r \in T["pipe", k + 1, j]}
                : k \in {k \in i..j : ts[k].kind = "|"}}

\* A pipeline followed by ampersands.
BackTrees(T, ts, i, j) ==
    T["pipe", i, j]
    \cup (IF i <= j /\ ts[j].kind = "&" THEN {Backcmd(c) : c \in T["back", i, j - 1]}
                                        ELSE {})

LineTrees(T, ts, i, j) ==
    T["back", i, j]
    \cup UNION {{Listcmd(l, r) : l \in T["back", i, k - 1], r \in T["line", k + 1, j]}
                : k \in {k \in i..j : ts[k].kind = ";"}}

Trees(ts) ==
    LET T[f \in {"line", "back", "pipe", "exec"}, i \in Nat, j \in Nat] ==
            CASE f = "line" -> LineTrees(T, ts, i, j)
              [] f = "back" -> BackTrees(T, ts, i, j)
              [] f = "pipe" -> PipeTrees(T, ts, i, j)
              [] f = "exec" -> ExecTrees(T, ts, i, j)
    IN T["line", 1, Len(ts)]
====
