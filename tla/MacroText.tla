------------------------------ MODULE MacroText ------------------------------
(***************************************************************************)
(* What the manual promises of the control commands of a macro (doc/en/html/  *)
(* macro/command: if, for, while, until, do, break, continue, goto, call,     *)
(* return, include, exit, end), for a macro whose blocks are nested: which    *)
(* line may be carried out after which.  Nothing is skipped, counted or       *)
(* stacked here: a block's end is found in the text.  Conditions, and the     *)
(* number of times a "for" goes round, are open.                              *)
(*                                                                         *)
(* A line is a sequence of words; "when" is an "if" without "then", with its  *)
(* command behind it; "while" and "loop" are the ends of a loop that have a   *)
(* condition, "do" and "endwhile" those that have none.                       *)
(***************************************************************************)
EXTENDS Naturals, Sequences, FiniteSetsExt

CONSTANT Macros     \* macros: functions from the names of files to sequences of lines

VARIABLES text,     \* the macro
          at,       \* the line carried out last, with the places to come back to
          over      \* the macro has ended

\* A place in a file: "tested" is an "elseif" whose condition decides.
Place(file, line, tested, back) == [file |-> file, line |-> line, tested |-> tested, back |-> back]
Return(kind, file, line) == [kind |-> kind, file |-> file, line |-> line]
NoLine == Place("main", 0, FALSE, <<>>)

Init == text \in Macros /\ at = NoLine /\ over = FALSE

Op(t, i) == Head(t[i])
IsOpener(op) == op \in {"if", "for", "while", "do"}
IsCloser(op) == op \in {"endif", "next", "endwhile", "loop"}

\* A block's lines between its ends are deeper than its ends, which are equally deep.
Depth(t, i) == Cardinality({k \in 1..i : IsOpener(Op(t, k))})
             - Cardinality({k \in 1..(i - 1) : IsCloser(Op(t, k))})
Same(t, i, j, ops) == Op(t, j) \in ops /\ Depth(t, j) = Depth(t, i)

Closer(t, i) == Min({j \in (i + 1)..Len(t) : IsCloser(Op(t, j)) /\ Depth(t, j) = Depth(t, i)})
Opener(t, j) == Max({i \in 1..(j - 1) : IsOpener(Op(t, i)) /\ Depth(t, i) = Depth(t, j)})
Branch(t, i) == Min({j \in (i + 1)..Len(t) : Same(t, i, j, {"else", "elseif", "endif"})})
EndIf(t, i)  == Min({j \in (i + 1)..Len(t) : Same(t, i, j, {"endif"})})
Loop(t, i)   == Max({k \in 1..i : Op(t, k) \in {"for", "while", "do"} /\ Closer(t, k) > i})

-----------------------------------------------------------------------------
(* Where a line leads to, in its file: a line, and whether it is a test.     *)

To(i) == <<i, FALSE>>

\* The condition of an "if" or "elseif" fails.
Fails(t, i) ==
    LET j == Branch(t, i) IN IF Op(t, j) = "elseif" THEN <<j, TRUE>> ELSE To(j + 1)

LeadsTo(t, i, tested, command) ==
    CASE command = "if" \/ tested         -> {To(i + 1), Fails(t, i)}
      [] command \in {"else", "elseif"} /\ ~tested -> {To(EndIf(t, i) + 1)}
      [] command = "while"                -> {To(i + 1), To(Closer(t, i) + 1)}
      [] command = "endwhile"             -> {To(Opener(t, i))}
      [] command \in {"next", "loop"}     -> {To(Opener(t, i)), To(i + 1)}
      [] command = "break"                -> {To(Closer(t, Loop(t, i)) + 1)}
      [] command = "continue"             -> {To(Closer(t, Loop(t, i)))}
      [] OTHER                            -> {To(i + 1)}

LabelOf(t, name) == CHOOSE i \in 1..Len(t) : t[i] = <<"label", name>>

\* The innermost place to come back to of a kind, and what is outside it.
Inner(back, kind) == Max({k \in 1..Len(back) : back[k].kind = kind})
ComesBack(back, kind) ==
    LET k == Inner(back, kind)
    IN  Place(back[k].file, back[k].line, FALSE, SubSeq(back, 1, k - 1))

\* Where a line leads to, in the macro.
Leads(p, words) ==
    LET t == text[p.file]
        command == Head(words)
        Comes(kind) == Return(kind, p.file, p.line + 1)
        There(back) == Place(p.file, LabelOf(t, words[2]), FALSE, back)
    IN CASE command = "goto"    -> {There(p.back)}
         [] command = "call"    -> {There(Append(p.back, Comes("call")))}
         [] command = "include" -> {Place(words[2], 1, FALSE, Append(p.back, Comes("include")))}
         [] command = "return"  -> {ComesBack(p.back, "call")}
         [] command = "exit"    -> {ComesBack(p.back, "include")}
         [] OTHER               -> {Place(p.file, x[1], x[2], p.back)
                                      : x \in LeadsTo(t, p.line, p.tested, command)}

\* A command behind "when" may be left out.  Two commands end the macro.
Line(p) == text[p.file][p.line]
Command(words) == IF Head(words) = "when" THEN Tail(words) ELSE words
Stops(p) ==
    \/ Head(Command(Line(p))) = "end"
    \/ Head(Command(Line(p))) = "exit" /\ p.file = "main"
Onward(p) == Place(p.file, p.line + 1, FALSE, p.back)
Goes(p) ==
    (IF Head(Line(p)) = "when" THEN {Onward(p)} ELSE {})
    \cup (IF Stops(p) THEN {} ELSE Leads(p, Command(Line(p))))

\* The first line that is no label from a place on: a file that is at its end goes
\* back to the file that included it.
Left(p) == {i \in p.line..Len(text[p.file]) : Op(text[p.file], i) # "label"}
Outer(p) ==
    {p} \cup {Place(p.back[k].file, p.back[k].line, FALSE, SubSeq(p.back, 1, k - 1))
                : k \in {k \in 1..Len(p.back) : p.back[k].kind = "include"}}
Landings(p) ==
    LET open == {q \in Outer(p) : Left(q) # {}}
    IN  {[q EXCEPT !.line = Min(Left(q))]
           : q \in {q \in open : \A r \in open : Len(r.back) <= Len(q.back)}}

Follows(p) ==
    IF p = NoLine THEN {Place("main", 1, FALSE, <<>>)} ELSE Goes(p)

CarriesOut ==
    /\ \E p \in Follows(at) : at' \in Landings(p)
    /\ over' \in IF ~Stops(at') THEN {FALSE}
                 ELSE IF Head(Line(at')) = "when" THEN BOOLEAN ELSE {TRUE}
    /\ UNCHANGED text
ReachesEnd == \E p \in Follows(at) : Landings(p) = {} /\ over' = TRUE /\ UNCHANGED <<text, at>>

Next == ~over /\ (CarriesOut \/ ReachesEnd)
Spec == Init /\ [][Next]_<<text, at, over>>
=============================================================================
