------------------------------- MODULE MCMacro -------------------------------
(***************************************************************************)
(* The macro for TLC, in two parts that a run chooses between when it starts: *)
(* "link", the macro's link with the terminal, whose commands come in any     *)
(* order; and "control", the order in which a macro's lines are carried out.   *)
(***************************************************************************)
EXTENDS MacroLink, MacroControl

VARIABLE part

MCvars == <<vars, part, controlVars>>

-----------------------------------------------------------------------------
(* Macros whose blocks are nested, by their lines: a step adds the blocks with  *)
(* a line more.  "in" says that the block is in a loop.                      *)

One(c) == <<c>>
Sides == BOOLEAN
Single(words, in) == IF in THEN words.inside ELSE words.outside
LoopEnds == {<<"for", "next">>, <<"while", "endwhile">>, <<"do", "loop">>}

Grown(B, words) ==
    LET n == Len(B)         \* B[k + 1]: the blocks of k lines
        Split(k) == {s \in (0..k) \X (0..k) : s[1] + s[2] <= k}
        In(x, in) == B[x + 1][in]
    IN  Append(B, [in \in Sides |->
          {One(c) \o r : c \in Single(words, in), r \in In(n - 1, in)}
          \cup UNION {{One(<<e[1]>>) \o b \o One(<<e[2]>>) \o r :
                         e \in words.loops, b \in In(s[1], TRUE), r \in In(n - 2 - s[1], in)}
                        : s \in {s \in Split(n) : n >= 2 /\ s[2] = n - 2 - s[1]}}
          \cup UNION {{One(<<"if">>) \o b \o One(<<"endif">>) \o r :
                         b \in In(s[1], in), r \in In(n - 2 - s[1], in)}
                        : s \in {s \in Split(n) : n >= 2 /\ s[2] = n - 2 - s[1]}}
          \cup UNION {{One(<<"if">>) \o b \o One(<<e>>) \o c \o One(<<"endif">>) \o r :
                         e \in words.branches, b \in In(s[1], in), c \in In(s[2], in),
                         r \in In(n - 3 - s[1] - s[2], in)}
                        : s \in {s \in Split(n) : s[1] + s[2] + 3 <= n}}])

Empty == <<[in \in Sides |-> {<<>>}]>>
Outside(B) == UNION {B[k][FALSE] : k \in 1..Len(B)}

\* Loops and branches.
LoopWords == [inside |-> {<<"when", "break">>, <<"when", "continue">>}, outside |-> {},
              loops |-> LoopEnds, branches |-> {"else", "elseif"}]
L1 == Grown(Empty, LoopWords)
L2 == Grown(L1, LoopWords)
L3 == Grown(L2, LoopWords)
L4 == Grown(L3, LoopWords)
L5 == Grown(L4, LoopWords)
L6 == Grown(L5, LoopWords)

\* Calls, included files and "goto" out of branches.
CallWords == [inside |-> {<<"call", "sub">>, <<"include", "inc">>},
              outside |-> {<<"call", "sub">>, <<"include", "inc">>, <<"when", "goto", "out">>},
              loops |-> LoopEnds, branches |-> {"else"}]
C1 == Grown(Empty, CallWords)
C2 == Grown(C1, CallWords)
C3 == Grown(C2, CallWords)

Sub == << <<"label", "out">>, <<"when", "end">>, <<"exit">>, <<"label", "sub">>,
          <<"if">>, <<"return">>, <<"endif">>, <<"for">>, <<"next">>, <<"return">> >>
Inc == << <<"while">>, <<"endwhile">>, <<"if">>, <<"exit">>, <<"else">>, <<"send">>, <<"endif">> >>

Macro(main, inc) == [main |-> main, inc |-> inc]
NestedMacros == {Macro(b, <<>>) : b \in Outside(L6)} \cup {Macro(b \o Sub, Inc) : b \in Outside(C3)}

\* Lines in no order, in two files.
Tangles == {<<"label", "a">>, <<"goto", "a">>, <<"for">>, <<"next">>, <<"while">>, <<"endwhile">>,
            <<"when", "break">>, <<"include", "inc">>, <<"call", "b">>}
Included == {<< <<"for">> >>, << <<"while">>, <<"goto", "a">> >>, << <<"call", "b">>, <<"label", "b">> >>,
             << <<"break">>, <<"next">> >>, << <<"when", "exit">>, <<"return">>, <<"endwhile">> >>}
Tangled == {Macro(main, inc) : main \in [1..3 -> Tangles], inc \in Included}

MCMacros == NestedMacros \cup Tangled
MCNested(t) == t \in NestedMacros

-----------------------------------------------------------------------------
MCInit ==
    /\ Init /\ part \in {"link", "control"}
    /\ IF part = "control" THEN ControlInit
       ELSE /\ text = Macro(<<>>, <<>>) /\ ran = NoRun /\ ctl = InitBuff

Linked(A) == part = "link" /\ A /\ UNCHANGED <<part, controlVars>>
MCNext ==
    \/ Linked(Next)
    \/ part = "control" /\ ControlNext /\ UNCHANGED <<part, vars>>

MCFairness ==
    /\ WF_MCvars(Linked(MacroLoop)) /\ WF_MCvars(Linked(TerminalLoop))
    /\ WF_MCvars(Linked(Parses)) /\ WF_MCvars(Linked(ParsesOver))
MCSpec == MCInit /\ [][MCNext]_MCvars /\ MCFairness
=============================================================================
