---------------------------- MODULE MacroControl ----------------------------
(***************************************************************************)
(* The control commands of the macro language (ttpmacro/ttmbuff.c and ttl.cpp) *)
(* as TTMACRO carries them out: a line at a time, with no knowledge of where   *)
(* a block ends.  What is not to run is read and skipped while one of four     *)
(* counters is positive, open "if" blocks are counted, and loops, calls and    *)
(* included files are on stacks.                                            *)
(*                                                                         *)
(* A line is a sequence of words (see MacroText); any other word is a command  *)
(* that leaves the control alone.                                           *)
(***************************************************************************)
EXTENDS Naturals, Sequences, FiniteSetsExt, SequencesExt

CONSTANTS
    Macros,     \* macros: functions from the names of files to sequences of lines
    Nested(_),  \* whether a macro's blocks are nested, and left as the manual says
    MaxSP,      \* MAXSP: what the control stack holds
    MaxNest,    \* MAXNESTLEVEL: files open at a time
    MaxIfNest   \* bound: IfNest, which "return", "exit" and "goto" leave as it is

\* "when" is an "if" with its command on the line.
Body(words) == IF Head(words) = "when" THEN Tail(words) ELSE words

\* A macro has a file to begin with, and the files that its lines include.
ASSUME MacroAssumption ==
    /\ MaxSP \in Nat /\ MaxNest \in Nat \ {0}
    /\ \A t \in Macros :
         /\ "main" \in DOMAIN t
         /\ \A f \in DOMAIN t :
              /\ t[f] \in Seq(Seq(STRING))
              /\ \A i \in 1..Len(t[f]) :
                   Head(Body(t[f][i])) = "include" => Body(t[f][i])[2] \in DOMAIN t

VARIABLES
    text,       \* the macro's files
    ctl,        \* the state of ttmbuff.c and of ExecCmnd
    ran         \* history: the line carried out last, with the places to come back to

controlVars == <<text, ctl, ran>>

\* A line number stands for LineStart and BuffPtr; 0 for INVALIDPTR.  "owner" is history.
Entry(type, level, line, owner) == [type |-> type, level |-> level, line |-> line, owner |-> owner]
NoRun == [file |-> "main", line |-> 0, tested |-> FALSE, back |-> <<>>]

\* InitBuff, InitTTL.
InitBuff ==
    [files |-> <<"main">>, ptr |-> <<1>>, stack |-> <<>>, next |-> FALSE,
     ifNest |-> 0, else |-> 0, endIf |-> 0, endWhile |-> 0, brk |-> 0, cont |-> FALSE,
     err |-> FALSE, end |-> FALSE]
ControlInit == text \in Macros /\ ctl = InitBuff /\ ran = NoRun

INest(s) == Len(s.files)
Lines(s, l) == text[s.files[l]]

-----------------------------------------------------------------------------
(* The files: reading, labels and closing.                                  *)

CloseBuff_KeepsLoops(s, l) == [s EXCEPT !.files = SubSeq(@, 1, l), !.ptr = SubSeq(@, 1, l)]

\* CloseBuff of all that is above a level: its loops and calls go with a file.
CloseBuff(s, l) ==
    LET kept == Max({0} \cup {k \in 1..Len(s.stack) : s.stack[k].level <= l})
    IN  [s EXCEPT !.files = SubSeq(@, 1, l), !.ptr = SubSeq(@, 1, l),
                  !.stack = SubSeq(@, 1, kept)]

\* GetNewLine: the next line that is no label; a file that is at its end is closed.
Unread(s, l) == {i \in s.ptr[l]..Len(Lines(s, l)) : Head(Lines(s, l)[i]) # "label"}
GetNewLine(s) ==
    LET open == {l \in 1..INest(s) : Unread(s, l) # {}}
    IN  IF open = {} THEN [s EXCEPT !.end = TRUE]
        ELSE [CloseBuff(s, Max(open)) EXCEPT !.ptr[Max(open)] = Min(Unread(s, Max(open))) + 1]

LineStart(s) == s.ptr[INest(s)] - 1
Words(s) == Lines(s, INest(s))[LineStart(s)]

\* RegisterLabels: the labels of the open files; the first of a name is the one.
Labels(s, l) == {i \in 1..Len(Lines(s, l)) : Head(Lines(s, l)[i]) = "label"}
LevelsWith(s, name) == {l \in 1..INest(s) : \E i \in Labels(s, l) : Lines(s, l)[i][2] = name}
LineOf(s, l, name) == Min({i \in Labels(s, l) : Lines(s, l)[i][2] = name})

Err(s) == [s EXCEPT !.err = TRUE]
Jump(s, l, line) == [CloseBuff(s, l) EXCEPT !.ptr[l] = line]

BuffInclude(s, file) ==
    LET opened == [s EXCEPT !.files = Append(@, file), !.ptr = Append(@, 1)]
        Names(l) == {Lines(opened, l)[i][2] : i \in Labels(opened, l)}
    IN  IF INest(s) >= MaxNest THEN Err(s)
        ELSE IF \E l \in 1..INest(s) : Names(l) \cap Names(INest(opened)) # {} THEN Err(opened)
        ELSE opened

TTLExit(s) == IF INest(s) = 1 THEN [s EXCEPT !.end = TRUE] ELSE CloseBuff(s, INest(s) - 1)

-----------------------------------------------------------------------------
(* The control stack.                                                       *)

Top(s) == Last(s.stack)
TopIs(s, types) == s.stack # <<>> /\ Top(s).type \in types
Pop(s) == [s EXCEPT !.stack = Front(@)]
Push(s, type, line) ==
    IF Len(s.stack) >= MaxSP THEN Err(s)
    ELSE [s EXCEPT !.stack = Append(@, Entry(type, INest(s), line, Last(s.files)))]

JumpToLabel(s, name) ==
    IF LevelsWith(s, name) = {} THEN Err(s)
    ELSE LET l == Min(LevelsWith(s, name)) IN Jump(s, l, LineOf(s, l, name) + 1)

CallToLabel(s, name) ==
    LET called == Push(s, "call", s.ptr[INest(s)])
    IN  IF LevelsWith(s, name) = {} THEN Err(s)
        ELSE IF Min(LevelsWith(s, name)) # INest(s) \/ called.err THEN Err(s)
        ELSE Jump(called, INest(s), LineOf(s, INest(s), name) + 1)

ReturnFromSub(s) ==
    IF TopIs(s, {"call"}) THEN Jump(Pop(s), Top(s).level, Top(s).line) ELSE Err(s)

\* TTLFor: "last" says that the variable has come to its end (LastForLoop).
LastForLoop(s) ==
    IF TopIs(s, {"for"}) THEN [s EXCEPT !.stack[Len(s.stack)].line = 0] ELSE s
TTLFor(s, last) ==
    LET begun == IF s.next THEN [s EXCEPT !.next = FALSE] ELSE Push(s, "for", LineStart(s))
    IN  IF last /\ ~begun.err THEN LastForLoop(begun) ELSE begun

NextLoop(s) ==
    IF ~TopIs(s, {"for"}) THEN Err(s)
    ELSE IF Top(s).line = 0 THEN [Pop(s) EXCEPT !.next = FALSE]
    ELSE [Jump(s, Top(s).level, Top(s).line) EXCEPT !.next = TRUE]

\* TTLWhile and TTLDo; BackToWhile.
TTLWhile(s, holds) ==
    IF holds THEN Push(s, "while", LineStart(s)) ELSE [s EXCEPT !.endWhile = 1]
BackToWhile(s, again) ==
    IF ~TopIs(s, {"while"}) THEN Err(s)
    ELSE IF again THEN Jump(Pop(s), Top(s).level, Top(s).line)
    ELSE CloseBuff(Pop(s), Top(s).level)

BreakLoop(s, word) ==
    IF ~TopIs(s, {"for", "while"}) THEN Err(s)
    ELSE IF word = "continue" THEN [s EXCEPT !.cont = TRUE, !.brk = 1]
    ELSE [CloseBuff(Pop(s), Top(s).level) EXCEPT !.brk = 1]

-----------------------------------------------------------------------------
(* The commands.  "holds" is what a command's condition says, "taken" what the  *)
(* one of an "if" without "then" does.                                      *)

TTLIf(s, holds) == [s EXCEPT !.ifNest = @ + 1, !.else = IF holds THEN @ ELSE 1]
TTLElse(s) == IF s.ifNest < 1 THEN Err(s) ELSE [s EXCEPT !.ifNest = @ - 1, !.endIf = 1]
TTLEndIf(s) == IF s.ifNest < 1 THEN Err(s) ELSE [s EXCEPT !.ifNest = @ - 1]

Command(s, words, holds) ==
    CASE Head(words) = "if"       -> TTLIf(s, holds)
      [] Head(words) \in {"else", "elseif"} -> TTLElse(s)
      [] Head(words) = "endif"    -> TTLEndIf(s)
      [] Head(words) = "for"      -> TTLFor(s, holds)
      [] Head(words) = "next"     -> NextLoop(s)
      [] Head(words) = "while"    -> TTLWhile(s, holds)
      [] Head(words) = "do"       -> TTLWhile(s, TRUE)
      [] Head(words) = "endwhile" -> BackToWhile(s, TRUE)
      [] Head(words) = "loop"     -> BackToWhile(s, holds)
      [] Head(words) \in {"break", "continue"} -> BreakLoop(s, Head(words))
      [] Head(words) = "goto"     -> JumpToLabel(s, words[2])
      [] Head(words) = "call"     -> CallToLabel(s, words[2])
      [] Head(words) = "return"   -> ReturnFromSub(s)
      [] Head(words) = "include"  -> BuffInclude(s, words[2])
      [] Head(words) = "exit"     -> TTLExit(s)
      [] Head(words) = "end"      -> [s EXCEPT !.end = TRUE]
      [] OTHER                    -> s

TTLIfThen(s, words, holds, taken) ==
    IF Head(words) = "when" /\ ~taken THEN s ELSE Command(s, Body(words), holds)

\* Skipping to the end of a loop that is not entered.
LoopsOpen == {"while", "do"}
LoopsClose == {"endwhile", "loop"}
SkipWhile(s, op) ==
    [s EXCEPT !.endWhile = CASE op \in LoopsOpen -> @ + 1 [] op \in LoopsClose -> @ - 1 [] OTHER -> @]

SkipBreak_FirstEnd(s, op) ==
    CASE op = "if"                    -> [s EXCEPT !.ifNest = @ + 1]
      [] op = "endif"                 -> TTLEndIf(s)
      [] op \in LoopsClose \cup {"next"} -> [s EXCEPT !.brk = @ - 1]
      [] OTHER                        -> s

\* Skipping to the end of a loop that "break" or "continue" leaves.
SkipBreak(s, op) ==
    CASE op = "if"                    -> [s EXCEPT !.ifNest = @ + 1]
      [] op = "endif"                 -> TTLEndIf(s)
      [] op \in LoopsOpen \cup {"for"}   -> [s EXCEPT !.brk = @ + 1]
      [] op \in LoopsClose \cup {"next"} -> [s EXCEPT !.brk = @ - 1]
      [] OTHER                        -> s

\* Skipping to the end of an "if", and to its next branch.
SkipEndIf(s, op) ==
    [s EXCEPT !.endIf = CASE op = "if" -> @ + 1 [] op = "endif" -> @ - 1 [] OTHER -> @]
SkipElse(s, op, holds) ==
    CASE op = "if"     -> [s EXCEPT !.endIf = @ + 1]
      [] op = "else" \/ (op = "elseif" /\ holds) -> [s EXCEPT !.else = @ - 1]
      [] op = "endif"  -> [s EXCEPT !.else = @ - 1, !.ifNest = IF s.else = 1 THEN @ - 1 ELSE @]
      [] OTHER         -> s

\* ExecCmnd of the line that was read, with the counters in the code's order.
ExecCmnd(s, words, holds, taken) ==
    LET op == Head(words)
        broken == SkipBreak(s, op)
        on == IF s.brk > 0 THEN [broken EXCEPT !.cont = FALSE] ELSE s
    IN  IF s.endWhile > 0 THEN SkipWhile(s, op)
        ELSE IF s.brk > 0 /\ (broken.brk > 0 \/ ~broken.cont) THEN broken
        ELSE IF on.endIf > 0 THEN SkipEndIf(on, op)
        ELSE IF on.else > 0 THEN SkipElse(on, op, holds)
        ELSE TTLIfThen(on, words, holds, taken)

\* History: whether a line is carried out, or its condition looked at.
Skips(s, op) ==
    \/ s.endWhile > 0 \/ s.endIf > 0
    \/ s.brk > 0 /\ (SkipBreak(s, op).brk > 0 \/ ~s.cont)
Tests(s, op) == ~Skips(s, op) /\ s.else > 0 /\ op = "elseif" /\ s.endIf = 0
Carries(s, op) == ~Skips(s, op) /\ s.else = 0

\* History: where calls and included files come back to, the innermost last.
Return(kind, file, line) == [kind |-> kind, file |-> file, line |-> line]
Calls(s, l) == SelectSeq(s.stack, LAMBDA e : e.type = "call" /\ e.level = l)
Back(s) ==
    FlattenSeq([l \in 1..INest(s) |->
        [k \in 1..Len(Calls(s, l)) |-> Return("call", s.files[l], Calls(s, l)[k].line)]
        \o (IF l < INest(s) THEN <<Return("include", s.files[l], s.ptr[l])>> ELSE <<>>)])
RunOf(s, tested) ==
    [file |-> Last(s.files), line |-> LineStart(s), tested |-> tested, back |-> Back(s)]

-----------------------------------------------------------------------------
\* The conditions that a line has.
Asks(words) == Head(words) \in {"if", "elseif", "for", "while", "loop"}
Says(yes) == IF yes THEN BOOLEAN ELSE {TRUE}

\* ExecControl: the user may stop the macro when a command fails, or go on (DispErr).
ExecControl ==
    /\ ~ctl.end /\ ctl.ifNest <= MaxIfNest
    /\ LET s == GetNewLine([ctl EXCEPT !.err = FALSE])
           words == Words(s)
           op == Head(words)
       IN  IF s.end THEN ctl' = s /\ UNCHANGED <<text, ran>>
           ELSE /\ \E taken \in Says(op = "when"), holds \in Says(Asks(Body(words))) :
                     \E done \in {ExecCmnd(s, words, holds, taken)} :
                     \E stop \in {FALSE, done.err} : ctl' = [done EXCEPT !.end = @ \/ stop]
                /\ ran' = IF Carries(s, op) \/ Tests(s, op) THEN RunOf(s, Tests(s, op)) ELSE ran
                /\ UNCHANGED text

ControlNext == ExecControl
ControlSpec == ControlInit /\ [][ControlNext]_controlVars

-----------------------------------------------------------------------------
\* A loop or a call on the control stack is one of a file that is still open: what
\* ends a file (GetNewLine, "exit", "goto", "return", "break", "next") takes its entries
\* along (CloseBuff), in whatever order the lines come.
StackOwned ==
    \A k \in 1..Len(ctl.stack) :
       LET e == ctl.stack[k] IN e.level <= INest(ctl) /\ ctl.files[e.level] = e.owner

\* The counters, the flags and the stack find what the text says: after a line comes
\* the one that the manual promises, wherever "break", "continue", "return", "exit" and
\* "goto" leave a branch, and no command fails.  Nothing is claimed of macros whose
\* blocks are not nested: goto.html forbids to leave a loop with "goto".
Text == INSTANCE MacroText WITH
    at <- IF Nested(text) THEN ran ELSE NoRun,
    over <- IF ~Nested(text) THEN FALSE ELSE IF ctl.err THEN "failed" ELSE ctl.end
ImplementsText == Text!Spec
=============================================================================
