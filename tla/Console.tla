------------------------------ MODULE Console ------------------------------
(***************************************************************************)
(* The console of console.c: the input ring that consoleintr() fills and   *)
(* consoleread() empties, and the cursor that consputc() moves.            *)
(*                                                                         *)
(* Grain.  A step is what runs under cons.lock, and a character of an      *)
(* interrupt is a step.  A reader that has decided to sleep still holds    *)
(* the lock, and kill(), which does not take it, may come in between.      *)
(***************************************************************************)
EXTENDS Integers, Sequences, SequencesExt, FiniteSetsExt

CONSTANTS
    Reader,             \* processes that read the console
    NoReader,
    Plain,              \* ordinary characters
    INPUT_BUF,
    Wrap,               \* 2^32: the indices are counted modulo Wrap
    ROWS, COLS,         \* the screen, 25 by 80
    ReadSizes,          \* what readers ask for
    Writes              \* what processes write

ASSUME ConsoleAssumption ==
    /\ NoReader \notin Reader
    /\ INPUT_BUF \in Nat \ {0} /\ Wrap > INPUT_BUF /\ Wrap % INPUT_BUF = 0
    /\ ROWS > 1 /\ COLS > 0
    /\ ReadSizes \subseteq Nat \ {0}

Char == Plain \cup {"newline", "C-D"}
Key == Char \cup {"C-U", "backspace"}

VARIABLES
    input,              \* buf, r, w, e
    reader,             \* of each reader: where it is, what it waits for
    cons,               \* the reader that holds cons.lock on its way to sleep
    pos                 \* the cursor

consoleVars == <<input, reader, cons, pos>>

Away == [at |-> "user", n |-> 0, target |-> 0, killed |-> FALSE]

ConsoleInit ==
    /\ \E c \in Plain :
        input = [buf |-> [i \in 0..(INPUT_BUF - 1) |-> c], r |-> 0, w |-> 0, e |-> 0]
    /\ reader = [p \in Reader |-> Away]
    /\ cons = NoReader
    /\ pos = 0

\* Index arithmetic on unsigned words.
Plus(i, k) == (i + k) % Wrap
Minus(i, k) == (i - k) % Wrap

\* The characters from index i up to j.
Chars(i, j) == [k \in 1..Minus(j, i) |-> input.buf[Plus(i, k - 1) % INPUT_BUF]]

----------------------------------------------------------------------------
(* The screen                                                              *)

\* Variant: the last line is used before the screen scrolls.
Cgaputc_Late(at0, c) ==
    LET moved == CASE c = "newline" -> at0 + COLS - (at0 % COLS)
                   [] c = "backspace" -> IF at0 > 0 THEN at0 - 1 ELSE at0
                   [] OTHER -> at0 + 1
    IN IF moved \div COLS >= ROWS THEN moved - COLS ELSE moved

\* cgaputc(): the cursor after character c, with the screen scrolled when it
\* reaches the last line.
Cgaputc(at0, c) ==
    LET moved == CASE c = "newline" -> at0 + COLS - (at0 % COLS)
                   [] c = "backspace" -> IF at0 > 0 THEN at0 - 1 ELSE at0
                   [] OTHER -> at0 + 1
    IN IF moved \div COLS >= ROWS - 1 THEN moved - COLS ELSE moved

\* consputc() of one character after another.
Consputc(s) == FoldLeft(Cgaputc, pos, s)

ConsoleWrite(s) ==
    /\ cons = NoReader
    /\ pos' = Consputc(s)
    /\ UNCHANGED <<input, reader, cons>>

----------------------------------------------------------------------------
(* consoleintr()                                                           *)

\* How far ^U goes back.
KillLength ==
    Min({k \in 0..Minus(input.e, input.w) :
            \/ k = Minus(input.e, input.w)
            \/ input.buf[Minus(input.e, k + 1) % INPUT_BUF] = "newline"})

\* wakeup(&input.r).
ConsoleWake ==
    [p \in Reader |-> IF reader[p].at = "asleep" THEN [reader[p] EXCEPT !.at = "run"]
                                                 ELSE reader[p]]

\* Variant: a full buffer does not end the line.
Complete_NotFull(c, e) == c \in {"newline", "C-D"}

\* The line ends here, or the buffer is full.
Complete(c, e) == c \in {"newline", "C-D"} \/ e = Plus(input.r, INPUT_BUF)

\* default: of the switch.
Typed(c) ==
    LET e == Plus(input.e, 1) IN
    IF Minus(input.e, input.r) < INPUT_BUF
    THEN /\ input' = [input EXCEPT !.buf[input.e % INPUT_BUF] = c, !.e = e,
                                   !.w = IF Complete(c, e) THEN e ELSE @]
         /\ reader' = IF Complete(c, e) THEN ConsoleWake ELSE reader
         /\ pos' = Consputc(<<c>>)
    ELSE UNCHANGED <<input, reader, pos>>

Consoleintr(key) ==
    /\ cons = NoReader
    /\ \/ /\ key = "C-U"
          /\ input' = [input EXCEPT !.e = Minus(@, KillLength)]
          /\ pos' = Consputc([k \in 1..KillLength |-> "backspace"])
          /\ UNCHANGED reader
       \/ /\ key = "backspace" /\ input.e # input.w
          /\ input' = [input EXCEPT !.e = Minus(@, 1)]
          /\ pos' = Consputc(<<"backspace">>)
          /\ UNCHANGED reader
       \/ key \in Char /\ Typed(key)
    /\ UNCHANGED cons

----------------------------------------------------------------------------
(* consoleread()                                                           *)

ReadCall(p, n) ==
    /\ reader[p].at = "user" /\ ~reader[p].killed
    /\ reader' = [reader EXCEPT ![p].at = "run", ![p].n = n, ![p].target = n]
    /\ UNCHANGED <<input, cons, pos>>

\* The reader takes k characters and returns, or waits for the rest.
Returning(p, k) ==
    /\ input' = [input EXCEPT !.r = Plus(@, k)]
    /\ reader' = [reader EXCEPT ![p] = [Away EXCEPT !.killed = reader[p].killed]]
    /\ UNCHANGED cons

\* Variant: ^D is used up by a read that has characters.
AtEof_Drops(p, k) == Returning(p, k)

\* ^D is the k-th character: it is left for the next read if this one has
\* characters already, and returns 0 else.
AtEof(p, k) ==
    Returning(p, IF reader[p].n - (k - 1) < reader[p].target THEN k - 1 ELSE k)

\* The loop, up to sleep() or the end.
Consoleread(p) ==
    LET s == Chars(input.r, input.w)
        n == reader[p].n
        stops == {k \in 1..Min({n, Len(s)}) : s[k] \in {"newline", "C-D"}}
    IN
    /\ cons = NoReader /\ reader[p].at = "run"
    /\ \/ /\ stops # {}
          /\ LET k == Min(stops) IN
             IF s[k] = "C-D" THEN AtEof(p, k)
             ELSE Returning(p, k)
       \/ stops = {} /\ n <= Len(s) /\ Returning(p, n)
       \/ /\ stops = {} /\ n > Len(s) /\ reader[p].killed
          /\ Returning(p, Len(s))
       \/ /\ stops = {} /\ n > Len(s) /\ ~reader[p].killed
          /\ input' = [input EXCEPT !.r = input.w]
          /\ reader' = [reader EXCEPT ![p].n = n - Len(s), ![p].at = "falling"]
          /\ cons' = p
    /\ UNCHANGED pos

\* sleep(&input.r, &cons.lock).
ConsoleSleep(p) ==
    /\ cons = p
    /\ reader' = [reader EXCEPT ![p].at = "asleep"]
    /\ cons' = NoReader
    /\ UNCHANGED <<input, pos>>

\* kill(), and the end of a killed process, whose slot is used again.
ConsoleKill(p) ==
    /\ reader' = [reader EXCEPT ![p].killed = TRUE,
                                ![p].at = IF @ = "asleep" THEN "run" ELSE @]
    /\ UNCHANGED <<input, cons, pos>>
ConsoleExit(p) ==
    /\ reader[p].at = "user" /\ reader[p].killed
    /\ reader' = [reader EXCEPT ![p] = Away]
    /\ UNCHANGED <<input, cons, pos>>

ConsoleNext ==
    \/ \E key \in Key : Consoleintr(key)
    \/ \E s \in Writes : ConsoleWrite(s)
    \/ \E p \in Reader :
        \/ \E n \in ReadSizes : ReadCall(p, n)
        \/ Consoleread(p) \/ ConsoleSleep(p) \/ ConsoleKill(p) \/ ConsoleExit(p)

ConsoleSpec == ConsoleInit /\ [][ConsoleNext]_consoleVars

----------------------------------------------------------------------------
(* Properties                                                              *)

\* The cursor stays above the last line, so cgaputc() neither panics nor
\* writes past the screen, however far typing, erasing and output interleave.
CursorOnScreen == pos \in 0..((ROWS - 1) * COLS - 1)

\* A reader sleeps only while there is nothing to read, and a full buffer has
\* something to read: typist and readers never wait for each other.
ConsoleNotStuck ==
    /\ \A p \in Reader : reader[p].at = "asleep" => input.r = input.w
    /\ Minus(input.e, input.r) = INPUT_BUF => input.w = input.e

\* The ring is the line discipline: when the indices wrap, no character is
\* lost, doubled or seen before its line is complete, a line that is erased
\* never takes back what a reader may have, and no read crosses a line's end.
Lines == INSTANCE LineDiscipline WITH
    Size <- INPUT_BUF, Text <- Plain, Ends <- {"newline", "C-D"},
    ready <- Chars(input.r, input.w), editing <- Chars(input.w, input.e)
ImplementsLineDiscipline == Lines!Spec

\* A ^D leaves the ring only when a read returns 0 for it, having taken
\* nothing else: a reader whose read ended at a ^D is told of the end of file
\* by its next read.
EofGivesZero ==
    [][LET taken == Chars(input.r, input'.r) IN
       "C-D" \in ToSet(taken) =>
         /\ taken = <<"C-D">>
         /\ \E p \in Reader : /\ reader[p].at = "run" /\ reader'[p].at = "user"
                              /\ reader[p].n = reader[p].target]_consoleVars
====
