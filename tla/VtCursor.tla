------------------------------ MODULE VtCursor ------------------------------
(***************************************************************************)
(* Where the terminal writes next (vtterm.c, buffer.c): the cursor and its   *)
(* pending wrap, the scroll region, the left and right margins, the tab      *)
(* stops, the three saved cursors and the status line, under the control     *)
(* functions of the host, the commands of the user and changes of the size.  *)
(*                                                                         *)
(* What is written where is ScreenBuffer's matter.  The limits of the scroll *)
(* buffer are not reached, and pages of one column do not occur: PutU32 does *)
(* not return from a wide character there.                                   *)
(***************************************************************************)
EXTENDS Integers, Sequences, SequencesExt, FiniteSets

CONSTANTS
    Sizes,            \* <<columns, lines>> of the page
    Params,           \* the parameters of the control functions, 0: left out
    TabWidth,         \* 8
    Settings          \* sets of settings the user may have

ASSUME CursorAssumption ==
    /\ Sizes \subseteq (Nat \ {0, 1}) \X (Nat \ {0})
    /\ Params \subseteq Nat /\ TabWidth \in Nat \ {0}
    /\ Settings \subseteq SUBSET {"CLEARONRESIZE", "BACKWRAP", "VTCOMPATTAB"}

VARIABLES
    vt,               \* the terminal
    entered           \* history: where DECSET 1049 left the main screen

vars == <<vt, entered>>

Least(i, j) == IF i < j THEN i ELSE j
Most(i, j) == IF i < j THEN j ELSE i

\* CheckParamVal and CheckParamValMax
Arg(p, max) == IF p = 0 THEN 1 ELSE Least(p, max)
ArgMax(p, max) == IF p = 0 THEN max ELSE Least(p, max)

\* t.lines counts the status line, as NumOfLines does.
LastColumn(t) == t.cols - 1
LastRow(t) == t.lines - t.status - 1
isCursorOnStatusLine(t) == t.status = 1 /\ t.y = t.lines - 1
Is(t, m) == m \in t.mode

MoveCursor_KeepsWrap(t, x, y) == [t EXCEPT !.x = x, !.y = y]
MoveCursor(t, x, y) == [t EXCEPT !.x = x, !.y = y, !.wrap = FALSE]

FullMargins(t) == [t EXCEPT !.top = 0, !.bottom = LastRow(t), !.left = 0, !.right = LastColumn(t)]
DefaultTabs(cols) == [i \in 1..((cols - 1) \div TabWidth) |-> i * TabWidth]

-----------------------------------------------------------------------------
(* Characters and the control characters.                                    *)

CarriageReturn(t) ==
    IF Is(t, "DECOM") \/ t.x > t.left THEN MoveCursor(t, t.left, t.y)
    ELSE IF t.x < t.left THEN MoveCursor(t, 0, t.y) ELSE t

\* On the region's last line the page scrolls and the cursor stays, with Wrap.
LineFeed(t) ==
    LET s == IF t.y < t.bottom \/ (t.y > t.bottom /\ t.y < LastRow(t))
               THEN MoveCursor(t, t.x, t.y + 1) ELSE t
    IN IF Is(s, "LNM") THEN CarriageReturn(s) ELSE s

NextLine(t) == LineFeed(CarriageReturn(t))

BackSpace(t) ==
    IF t.x \notin {t.left, 0} THEN MoveCursor(t, t.x - 1, t.y)
    ELSE IF t.y > 0 /\ "BACKWRAP" \in t.ts THEN MoveCursor(t, t.right, t.y - 1) ELSE t

\* The column that ends the line for a cursor at x.
LineEnd(t) == IF t.x > t.right THEN LastColumn(t) ELSE t.right

Advanced(t, n, ends) ==
    [t EXCEPT !.x = @ + (IF ends THEN n - 1 ELSE n), !.wrap = ends /\ Is(t, "DECAWM")]

\* PutChar, RepeatChar, and PutU32 of a character of one cell
PutHalf(t) ==
    LET s == IF t.wrap THEN NextLine(t) ELSE t
    IN Advanced(s, 1, s.x = s.right \/ s.x >= LastColumn(s))

\* BuffPutUnicode has no room for two cells.
NoRoom(t) == IF Is(t, "IRM") THEN t.x + 1 > LineEnd(t) ELSE t.x + 2 > t.cols

\* PutU32 of a character of two cells
PutWide(t) ==
    LET s == IF t.wrap THEN NextLine(t) ELSE t
        u == IF ~NoRoom(s) THEN s
             ELSE IF Is(s, "DECAWM") THEN NextLine(s) ELSE [s EXCEPT !.x = 0]
    IN Advanced(u, 2, u.x + 1 = u.right \/ u.x + 1 >= LastColumn(u))

\* PutKanji looks for room before it goes to the next line.
PutKanji(t) ==
    LET end == LineEnd(t)
        full == t.x > end - 1
        s == IF t.wrap \/ full THEN NextLine(t) ELSE t
    IN IF full /\ ~t.wrap /\ ~Is(t, "DECAWM") THEN t
       ELSE IF s.x < end THEN Advanced(s, 2, s.x = end - 1)
       ELSE Advanced(s, 1, TRUE)

\* DECBI, DECFI: at the margin the region moves instead.
InMargins(t) == t.y \in t.top..t.bottom /\ t.x \in t.left..t.right
BackIndex(t) == IF InMargins(t) /\ t.x # t.left THEN MoveCursor(t, t.x - 1, t.y) ELSE t
ForwardIndex(t) == IF InMargins(t) /\ t.x # t.right THEN MoveCursor(t, t.x + 1, t.y) ELSE t

\* RI
CursorUpWithScroll(t) ==
    IF t.y > t.top \/ (0 < t.y /\ t.y < t.top) THEN MoveCursor(t, t.x, t.y - 1) ELSE t

\* NEL goes to the margin after C1, to the first column after ESC.
NelC1(t) == CarriageReturn(LineFeed(t))
NelEscape(t) == LineFeed(MoveCursor(t, 0, t.y))

-----------------------------------------------------------------------------
(* Tab stops.                                                                *)

\* How many stops the search passes before one at x or behind it.
Preceding(tabs, x) == Cardinality({i \in DOMAIN tabs : \A j \in 1..i : tabs[j] < x})

InRegion(t) == t.y \in t.top..t.bottom
TabEnd(t) == IF t.x > t.right \/ ~InRegion(t) THEN LastColumn(t) ELSE t.right
TabStart(t) == IF t.x < t.left \/ ~InRegion(t) THEN 0 ELSE t.left

CursorForwardTab(t, n) ==
    LET i == Preceding(t.tabs, t.x + 1) + n IN
    IF i <= Len(t.tabs) /\ t.tabs[i] <= TabEnd(t) THEN MoveCursor(t, t.tabs[i], t.y)
    ELSE [t EXCEPT !.x = TabEnd(t), !.wrap = IF "VTCOMPATTAB" \in t.ts THEN @ ELSE Is(t, "DECAWM")]

CursorBackwardTab(t, n) ==
    LET i == Preceding(t.tabs, t.x) - n + 1 IN
    IF i < 1 \/ t.tabs[i] < TabStart(t) THEN MoveCursor(t, TabStart(t), t.y)
    ELSE MoveCursor(t, t.tabs[i], t.y)

Tab(t) ==
    CursorForwardTab(IF t.wrap /\ "VTCOMPATTAB" \notin t.ts
                       THEN [NextLine(t) EXCEPT !.wrap = FALSE] ELSE t, 1)

SetTabStop_Appends(t) ==
    IF Len(t.tabs) < t.cols /\ t.x \notin {t.tabs[i] : i \in DOMAIN t.tabs}
      THEN [t EXCEPT !.tabs = Append(@, t.x)] ELSE t
SetTabStop(t) ==
    LET i == Preceding(t.tabs, t.x) + 1 IN
    IF Len(t.tabs) < t.cols /\ ~(i <= Len(t.tabs) /\ t.tabs[i] = t.x)
      THEN [t EXCEPT !.tabs = InsertAt(@, i, t.x)] ELSE t

ClearTabStop(t, p) ==
    LET At == {i \in DOMAIN t.tabs : t.tabs[i] = t.x} IN
    IF p = 3 THEN [t EXCEPT !.tabs = <<>>]
    ELSE IF p = 0 /\ At # {} THEN [t EXCEPT !.tabs = RemoveAt(@, CHOOSE i \in At : TRUE)]
    ELSE t

-----------------------------------------------------------------------------
(* Cursor movement.  A margin stops the cursor unless it is beyond it; VPB,  *)
(* VPR, HPB and HPR do not look at the margins.                              *)

CSCursorUp(t, p, margin) ==
    MoveCursor(t, t.x, Most(t.y - Arg(p, t.y), IF margin /\ t.y >= t.top THEN t.top ELSE 0))

CSCursorDown(t, p, margin) ==
    LET stop == IF margin /\ t.y <= t.bottom THEN t.bottom ELSE LastRow(t)
    IN MoveCursor(t, t.x, Least(t.y + Arg(p, stop), stop))

CSCursorRight(t, p, margin) ==
    LET stop == IF margin /\ t.x <= t.right THEN t.right ELSE LastColumn(t)
    IN MoveCursor(t, Least(t.x + Arg(p, t.cols), stop), t.y)

CSCursorLeft(t, p, margin) ==
    MoveCursor(t, Most(t.x - Arg(p, t.cols), IF margin /\ t.x >= t.left THEN t.left ELSE 0), t.y)

CSCursorUp1(t, p) == CSCursorUp(MoveCursor(t, t.left, t.y), p, TRUE)
CSCursorDown1(t, p) == CSCursorDown(MoveCursor(t, t.left, t.y), p, TRUE)

CSMoveToColumnN(t, p) ==
    LET x == Arg(p, t.cols) - 1
    IN MoveCursor(t, IF Is(t, "DECOM") THEN Least(t.left + x, t.right) ELSE x, t.y)

CSMoveToLineN(t, p) ==
    LET y == Arg(p, LastRow(t) + 1) - 1
    IN MoveCursor(t, t.x, IF Is(t, "DECOM") THEN Least(t.top + y, t.bottom) ELSE y)

CSMoveToXY(t, p1, p2) ==
    LET y == Arg(p1, LastRow(t) + 1) - 1
        x == Arg(p2, t.cols) - 1
    IN IF isCursorOnStatusLine(t) THEN MoveCursor(t, x, t.y)
       ELSE IF Is(t, "DECOM")
         THEN MoveCursor(t, Least(t.left + x, t.right), Least(t.top + y, t.bottom))
         ELSE MoveCursor(t, x, y)

\* CS_n_Mode: line and column of the cursor position report
Report_NoOrigin(t) == IF isCursorOnStatusLine(t) THEN <<1, t.x + 1>> ELSE <<t.y + 1, t.x + 1>>
Report(t) ==
    IF isCursorOnStatusLine(t) THEN <<1, t.x + 1>>
    ELSE IF Is(t, "DECOM") THEN <<t.y - t.top + 1, t.x - t.left + 1>>
    ELSE <<t.y + 1, t.x + 1>>

-----------------------------------------------------------------------------
(* Margins and modes.                                                        *)

CSSetScrollRegion(t, p1, p2) ==
    LET first == Arg(p1, LastRow(t) + 1)
        last == ArgMax(p2, LastRow(t) + 1)
    IN IF isCursorOnStatusLine(t) THEN MoveCursor(t, 0, t.y)
       ELSE IF first >= last THEN t
       ELSE MoveCursor([t EXCEPT !.top = first - 1, !.bottom = last - 1], 0,
                       IF Is(t, "DECOM") THEN first - 1 ELSE 0)

CSSetLRScrollRegion(t, p1, p2) ==
    LET first == Arg(p1, t.cols)
        last == ArgMax(p2, t.cols)
        s == [t EXCEPT !.left = first - 1, !.right = last - 1]
    IN IF first >= last THEN t
       ELSE IF Is(t, "DECOM") THEN MoveCursor(s, s.left, s.top) ELSE MoveCursor(s, 0, 0)

SetMode(t, m) == [t EXCEPT !.mode = @ \cup {m}]
ResetMode(t, m) == [t EXCEPT !.mode = @ \ {m}]

\* DECOM set and reset
Origin(t) ==
    IF isCursorOnStatusLine(t) THEN MoveCursor(t, 0, t.y)
    ELSE MoveCursor(SetMode(t, "DECOM"), 0, t.top)
NoOrigin(t) ==
    IF isCursorOnStatusLine(t) THEN MoveCursor(t, 0, t.y)
    ELSE MoveCursor(ResetMode(t, "DECOM"), 0, 0)

\* DECRST 69
NoLRMargins(t) == [ResetMode(t, "DECLRMM") EXCEPT !.left = 0, !.right = LastColumn(t)]

\* DECALN
ScreenAlignment(t) == MoveCursor(FullMargins(t), 0, 0)

-----------------------------------------------------------------------------
(* Saved cursors: one for the main screen, one for the alternate screen and  *)
(* one for the status line.                                                  *)

NewSlot == [x |-> 0, y |-> 0, mode |-> {"DECAWM"}]
SavedModes == {"DECAWM", "DECOM"}

Slot_OneForBoth(t) == IF isCursorOnStatusLine(t) THEN "status" ELSE "main"
Slot(t) == IF isCursorOnStatusLine(t) THEN "status" ELSE IF t.alt THEN "alt" ELSE "main"

SaveCursor(t) ==
    [t EXCEPT !.saved[Slot(t)] = [x |-> t.x, y |-> t.y, mode |-> t.mode \cap SavedModes]]

\* The saved position is cut to the page, in the slot too.
RestoreCursor(t) ==
    LET old == t.saved[Slot(t)]
        s == [old EXCEPT !.x = Least(@, LastColumn(t)), !.y = Least(@, LastRow(t))]
    IN MoveCursor([t EXCEPT !.saved[Slot(t)] = s, !.mode = (@ \ SavedModes) \cup s.mode], s.x, s.y)

\* DECSET and DECRST 47, 1047 and 1049
Alternate(t) == [t EXCEPT !.alt = TRUE]
AlternateSaving(t) == Alternate(SaveCursor(t))
Main(t) == [t EXCEPT !.alt = FALSE]
MainRestoring(t) == RestoreCursor(Main(t))

-----------------------------------------------------------------------------
(* The status line.  MoveToMainScreen also restores Wrap, which MoveCursor   *)
(* then clears.                                                              *)

MoveToMainScreen_KeepsMargins(t) ==
    [MoveCursor(t, t.main.x, t.main.y) EXCEPT !.line = [x |-> t.x, wrap |-> t.wrap]]
MoveToMainScreen(t) ==
    [MoveCursor(t, t.main.x, t.main.y) EXCEPT
       !.line = [x |-> t.x, wrap |-> t.wrap], !.top = t.main.top, !.bottom = t.main.bottom]

MoveToStatusLine(t) ==
    [t EXCEPT !.main = [x |-> t.x, y |-> t.y, top |-> t.top, bottom |-> t.bottom],
              !.x = t.line.x, !.y = t.lines - 1, !.wrap = t.line.wrap,
              !.top = t.lines - 1, !.bottom = t.lines - 1]

LeaveStatusLine(t) == IF isCursorOnStatusLine(t) THEN MoveToMainScreen(t) ELSE t

HideStatusLine(t) ==
    LET s == [LeaveStatusLine(t) EXCEPT !.line = [x |-> 0, wrap |-> FALSE]]
    IN IF s.status = 0 THEN s ELSE MoveCursor([s EXCEPT !.status = 0, !.lines = @ - 1], s.x, s.y)

ShowStatusLine(t) == MoveCursor([t EXCEPT !.status = 1, !.lines = @ + 1], t.x, t.y)

-----------------------------------------------------------------------------
(* Other sizes.  Of the lines a page gets, k come from the scroll buffer and *)
(* move the cursor's line down.                                              *)

BuffChangeTerminalSize(t, cols, rows, k) ==
    LET clear == "CLEARONRESIZE" \in t.ts
        s == FullMargins([t EXCEPT !.cols = cols, !.lines = rows + t.status, !.tabs = DefaultTabs(cols),
               !.x = IF clear THEN 0 ELSE Least(@, cols - 1),
               !.y = IF clear THEN 0 ELSE Least(@ + k, rows - 1)])
        bottom == s.lines - 1
    IN IF isCursorOnStatusLine(t) THEN [s EXCEPT !.y = bottom, !.top = bottom, !.bottom = bottom] ELSE s

ChangeTerminalSize(t, cols, rows, k) ==
    [BuffChangeTerminalSize(t, cols, rows, k) EXCEPT
       !.line.x = 0, !.main = [x |-> 0, y |-> 0, top |-> 0, bottom |-> rows - 1]]

\* DECCOLM
CSQChangeColumnMode(t, cols) ==
    LET s == ResetMode(ChangeTerminalSize(t, cols, LastRow(t) + 1, 0), "DECLRMM")
    IN IF "CLEARONRESIZE" \in t.ts THEN s ELSE MoveCursor(s, 0, 0)

Pulled(t, rows) == 0..Most(0, rows - LastRow(t) - 1)

-----------------------------------------------------------------------------
(* Resets and the clearing of the page or the buffer.                        *)

NewSaved == [s \in {"main", "alt", "status"} |-> NewSlot]

ResetTerminal(t) ==
    [FullMargins(MoveCursor([t EXCEPT !.status = 0], 0, 0)) EXCEPT
       !.tabs = DefaultTabs(t.cols), !.mode = {"DECAWM"} \cup (@ \cap {"LNM"}),
       !.saved = NewSaved, !.alt = FALSE]

\* The scroll region becomes all lines, with the status line.
ClearBuffer(t) ==
    [t EXCEPT !.x = 0, !.y = 0, !.top = 0, !.bottom = t.lines - 1, !.left = 0, !.right = LastColumn(t)]

OnControlResetTerminal(t) == ResetTerminal(HideStatusLine(t))
HardwareReset(t) == ClearBuffer(OnControlResetTerminal(t))

SoftReset(t) ==
    LET s == FullMargins(LeaveStatusLine(t)) IN
    [s EXCEPT !.mode = @ \ {"IRM", "DECOM"},
              !.saved = [@ EXCEPT !["status"] = NewSlot, ![IF t.alt THEN "alt" ELSE "main"] = NewSlot]]

\* ED 2 after DECSET 8200
ClearThenHome(t) ==
    IF ~Is(t, "HOME") \/ isCursorOnStatusLine(t) THEN t
    ELSE IF Is(t, "DECOM") THEN MoveCursor(t, 0, 0) ELSE MoveCursor(t, t.left, t.top)

OnEditClearScreen(t) == MoveCursor(t, 0, IF isCursorOnStatusLine(t) THEN t.y ELSE 0)

-----------------------------------------------------------------------------
Becomes(t) == vt' = t /\ entered' = IF t.alt THEN entered ELSE {}

Writes == Becomes(PutHalf(vt)) \/ Becomes(PutWide(vt)) \/ Becomes(PutKanji(vt))

BackSpaces == Becomes(BackSpace(vt))
\* CRReceive and the last character decide which of the three a CR or LF is.
Lines == Becomes(CarriageReturn(vt)) \/ Becomes(LineFeed(vt)) \/ Becomes(NextLine(vt))
Indexes ==
    \/ Becomes(BackIndex(vt)) \/ Becomes(ForwardIndex(vt)) \/ Becomes(CursorUpWithScroll(vt))
    \/ Becomes(NelC1(vt)) \/ Becomes(NelEscape(vt))

Tabs ==
    \/ Becomes(Tab(vt)) \/ Becomes(SetTabStop(vt))
    \/ \E p \in Params : Becomes(CursorForwardTab(vt, Arg(p, vt.cols)))
    \/ \E p \in Params : Becomes(CursorBackwardTab(vt, Arg(p, vt.cols)))
    \/ \E p \in Params : Becomes(ClearTabStop(vt, p))

Moves ==
    \/ \E p \in Params : Becomes(CSCursorUp(vt, p, TRUE)) \/ Becomes(CSCursorDown(vt, p, TRUE))
    \/ \E p \in Params, m \in BOOLEAN : Becomes(CSCursorLeft(vt, p, m)) \/ Becomes(CSCursorRight(vt, p, m))
    \/ \E p \in Params : Becomes(CSCursorUp1(vt, p)) \/ Becomes(CSCursorDown1(vt, p))
    \/ \E p \in Params : Becomes(CSMoveToColumnN(vt, p))
    \/ \E p1, p2 \in Params : Becomes(CSMoveToXY(vt, p1, p2))

\* VPA, VPB and VPR
MovesDown ==
    \E p \in Params :
       \/ Becomes(CSMoveToLineN(vt, p))
       \/ Becomes(CSCursorUp(vt, p, FALSE)) \/ Becomes(CSCursorDown(vt, p, FALSE))

Regions == \E p1, p2 \in Params : Becomes(CSSetScrollRegion(vt, p1, p2))
\* CSI s is SaveCursor without DECLRMM.
LRRegions == Is(vt, "DECLRMM") /\ \E p1, p2 \in Params : Becomes(CSSetLRScrollRegion(vt, p1, p2))
LRModes == Becomes(SetMode(vt, "DECLRMM")) \/ Becomes(NoLRMargins(vt))
Origins == Becomes(Origin(vt)) \/ Becomes(NoOrigin(vt)) \/ Becomes(ScreenAlignment(vt))
Modes == \E m \in {"DECAWM", "IRM", "LNM", "HOME"} : Becomes(SetMode(vt, m)) \/ Becomes(ResetMode(vt, m))

Saves == Becomes(SaveCursor(vt))
Restores == Becomes(RestoreCursor(vt))
AlternateScreen == ~vt.alt /\ Becomes(Alternate(vt))
AlternateScreenSaving ==
    /\ ~vt.alt
    /\ vt' = AlternateSaving(vt)
    /\ entered' = IF isCursorOnStatusLine(vt) THEN {} ELSE {vt'.saved["main"]}
MainScreen == vt.alt /\ Becomes(Main(vt))
MainScreenRestoring == vt.alt /\ Becomes(MainRestoring(vt))

\* DECSASD and DECSSDT
ToMainScreen == isCursorOnStatusLine(vt) /\ Becomes(MoveToMainScreen(vt))
ToStatusLine == vt.status = 1 /\ ~isCursorOnStatusLine(vt) /\ Becomes(MoveToStatusLine(vt))
Hides == Becomes(HideStatusLine(vt))
Shows == vt.status = 0 /\ Becomes(ShowStatusLine(vt))

\* CSI 8 t, and the host's telnet NAWS
Resizes ==
    \E z \in Sizes : \E k \in Pulled(vt, z[2]) : Becomes(ChangeTerminalSize(vt, z[1], z[2], k))
ColumnModes == \E z \in Sizes : Becomes(CSQChangeColumnMode(vt, z[1]))
\* The user drags the window's border; with TermIsWin the terminal follows.
OnSize ==
    LET t == HideStatusLine(vt) IN
    \/ Becomes(t)
    \/ \E z \in Sizes : \E k \in Pulled(t, z[2]) :
         z # <<t.cols, t.lines>> /\ Becomes(BuffChangeTerminalSize(t, z[1], z[2], k))

Resets == Becomes(HardwareReset(vt)) \/ Becomes(OnControlResetTerminal(vt))
SoftResets == Becomes(SoftReset(vt))
Homes == Becomes(ClearThenHome(vt)) \/ Becomes(OnEditClearScreen(vt))
\* ED 3, and the user's menu
Clears == Becomes(ClearBuffer(vt))

-----------------------------------------------------------------------------
Start(z, ts) ==
    [cols |-> z[1], lines |-> z[2], status |-> 0, x |-> 0, y |-> 0, wrap |-> FALSE,
     top |-> 0, bottom |-> z[2] - 1, left |-> 0, right |-> z[1] - 1,
     tabs |-> DefaultTabs(z[1]), mode |-> {"DECAWM"}, ts |-> ts, saved |-> NewSaved, alt |-> FALSE,
     line |-> [x |-> 0, wrap |-> FALSE], main |-> [x |-> 0, y |-> 0, top |-> 0, bottom |-> 0]]

Init == (\E z \in Sizes, ts \in Settings : vt = Start(z, ts)) /\ entered = {}

Next ==
    \/ Writes \/ BackSpaces \/ Lines \/ Indexes \/ Tabs \/ Moves \/ MovesDown
    \/ Regions \/ LRRegions \/ LRModes \/ Origins \/ Modes
    \/ Saves \/ Restores \/ AlternateScreen \/ AlternateScreenSaving \/ MainScreen \/ MainScreenRestoring
    \/ ToMainScreen \/ ToStatusLine \/ Hides \/ Shows
    \/ Resizes \/ ColumnModes \/ OnSize \/ Resets \/ SoftResets \/ Homes \/ Clears

Spec == Init /\ [][Next]_vars

-----------------------------------------------------------------------------
Columns(t) == 0..LastColumn(t)
Rows(t) == 0..LastRow(t)

\* The columns fit the width: the cursor's, the margins', those of the tab
\* stops and those kept for the other of page and status line.
InColumns(t) ==
    /\ {t.x, t.left, t.right, t.line.x} \subseteq Columns(t) /\ t.left < t.right
    /\ isCursorOnStatusLine(t) => t.main.x \in Columns(t)
    /\ \A i \in DOMAIN t.tabs : t.tabs[i] \in Columns(t)

\* The cursor and the scroll region are in the page, or both are the status
\* line and the page's wait for the cursor's return.
InRows(t) ==
    IF isCursorOnStatusLine(t)
      THEN /\ t.top = t.y /\ t.bottom = t.y
           /\ {t.main.y, t.main.top, t.main.bottom} \subseteq Rows(t) /\ t.main.top <= t.main.bottom
      ELSE {t.y, t.top, t.bottom} \subseteq Rows(t) /\ t.top <= t.bottom

InPage(t) == InColumns(t) /\ InRows(t)

\* What takes the cursor off the status line with the status line's region,
\* and ClearBuffer, which puts a status line into the page's region.
Strays ==
    \/ isCursorOnStatusLine(vt) /\ (BackSpaces \/ MovesDown \/ LRRegions \/ ColumnModes \/ Restores \/ MainScreenRestoring)
    \/ vt.status = 1 /\ Clears

\* Everything else keeps the cursor, the margins and the stops in the page, in
\* any sequence of control functions, sizes and user commands: no character
\* goes elsewhere (BuffPutUnicode), and no scroll moves the status line.
StaysInPage == [][InPage(vt) => InPage(vt)' \/ Strays]_vars

\* Wrap waits at the end of a line.
WrapsAtEnd(t) == t.wrap => t.x \in {t.right, LastColumn(t)}
\* What moves the end of the line, or the cursor, and keeps Wrap.
KeepsWrap == Resizes \/ ColumnModes \/ OnSize \/ Clears \/ LRModes \/ SoftResets \/ ToStatusLine

\* A pending wrap goes with the cursor it belongs to (PutU32, MoveCursor): a
\* character is not written a line too low after the cursor was moved.
WrapGoesWithCursor == [][InPage(vt) /\ WrapsAtEnd(vt) => WrapsAtEnd(vt)' \/ KeepsWrap]_vars

\* What DSR 6 reports is a position that CUP understands: sent back it leaves
\* the cursor where it is, unless it is outside of the margins in origin mode.
ReportRoundTrip ==
    LET r == Report(vt) IN
    InPage(vt) /\ (~Is(vt, "DECOM") \/ isCursorOnStatusLine(vt) \/ InMargins(vt))
       => CSMoveToXY(vt, r[1], r[2]) = MoveCursor(vt, vt.x, vt.y)

\* A program that uses the alternate screen gives the main screen its cursor,
\* autowrap and origin mode back (DECRST 1049), whatever it saved, restored or
\* reset meanwhile, on a page of another size too.
MainCursorReturns ==
    [][MainScreenRestoring /\ ~isCursorOnStatusLine(vt) =>
         \A s \in entered : /\ vt'.x = Least(s.x, LastColumn(vt)) /\ vt'.y = Least(s.y, LastRow(vt))
                           /\ vt'.mode \cap SavedModes = s.mode]_vars

\* A tab goes to the nearest stop, or to the margin when that is nearer, in
\* whatever order the stops were set and cleared.
TabFindsNearest ==
    LET stops == {vt.tabs[i] : i \in DOMAIN vt.tabs}
        ahead == {s \in stops \cup {TabEnd(vt)} : vt.x < s /\ s <= TabEnd(vt)}
        behind == {s \in stops \cup {TabStart(vt)} : TabStart(vt) <= s /\ s < vt.x}
    IN /\ \A s \in ahead : vt.x < CursorForwardTab(vt, 1).x /\ CursorForwardTab(vt, 1).x <= s
       /\ \A s \in behind : s <= CursorBackwardTab(vt, 1).x /\ CursorBackwardTab(vt, 1).x < vt.x
       /\ CursorForwardTab(vt, 1).x \in stops \cup {TabEnd(vt)}
       /\ CursorBackwardTab(vt, 1).x \in stops \cup {TabStart(vt)}
=============================================================================
