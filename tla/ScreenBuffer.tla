---------------------------- MODULE ScreenBuffer ----------------------------
(***************************************************************************)
(* The lines of the terminal (buffer.c, and the control functions of        *)
(* vtterm.c that move whole lines): a ring of lines that holds the page and *)
(* what has scrolled out of it.  Lines are addressed from the oldest on;    *)
(* LinePtr caches the address of the cursor's line.                         *)
(*                                                                         *)
(* A line is what is written in two parts of it: the part that the left and *)
(* right margins enclose when they are set, and the rest.  The status line  *)
(* is not shown, and the width does not change.                             *)
(***************************************************************************)
EXTENDS Integers, Sequences

CONSTANTS
    Heights,          \* of the page: NumOfLines
    ScrollSizes,      \* what the setup dialog may set ScrollBuffSize to
    Counts,           \* the parameters of the control functions
    ClearOnResize,    \* the setting of that name: BOOLEAN
    MaxTexts          \* bound: how often something is written

ASSUME BufferAssumption ==
    /\ Heights \subseteq Nat \ {0, 1} /\ ScrollSizes \subseteq Nat \ {0}
    /\ Counts \subseteq Nat \ {0} /\ ClearOnResize \in BOOLEAN /\ MaxTexts \in Nat

VARIABLES
    buf,              \* CodeBuffW and what describes it
    texts             \* how often something was written

vars == <<buf, texts>>

Parts == {"inside", "outside"}
Empty == [p \in Parts |-> 0]
Least(i, j) == IF i < j THEN i ELSE j
Most(i, j) == IF i < j THEN j ELSE i

\* GetLinePtr: the address of a line.
Addr(b, line) == (b.start + line) % b.n

\* NewLine
NewLine(b, line) == [b EXCEPT !.ptr = Addr(b, line)]

MoveCursor_Stays(b, y) == [b EXCEPT !.y = y]
MoveCursor(b, y) == IF y = b.y THEN b ELSE [NewLine(b, b.page + y) EXCEPT !.y = y]

-----------------------------------------------------------------------------
(* Scrolling.                                                               *)

\* memcpyW and memsetW of a whole line, one address after the other.
Moved(rows, dst, src) == [rows EXCEPT ![dst] = rows[src], ![src] = Empty]

\* The lines below the region are taken along, the last one first.
TakenAlong_Left(b, k, below) == b.rows
TakenAlong(b, k, below) ==
    LET At(i) == Addr(b, b.page + b.lines - i)
        rows[i \in 0..below] == IF i = 0 THEN b.rows ELSE Moved(rows[i - 1], At(i - k), At(i))
    IN rows[below]

\* The ring's ends, k lines on; the oldest lines go once it is full.
Advanced_StartMoves(b, k) ==
    LET full == b.end + k >= b.n
        end == IF full THEN b.n ELSE b.end + k
    IN [b EXCEPT !.endAbs = (@ + k) % b.n, !.end = end,
                 !.start = IF full THEN (@ + k) % b.n ELSE @, !.page = end - b.lines]
Advanced(b, k) ==
    LET endAbs == IF b.endAbs + k >= b.n THEN b.endAbs + k - b.n ELSE b.endAbs + k
        full == b.end + k >= b.n
        end == IF full THEN b.n ELSE b.end + k
    IN [b EXCEPT !.endAbs = endAbs, !.end = end, !.start = IF full THEN endAbs ELSE @,
                 !.page = end - b.lines]

\* BuffScroll: the page moves on by `count` lines.
BuffScroll(b, count, bottom) ==
    LET k == Least(count, b.n)
        below == b.lines - 1 - bottom
        moved == TakenAlong(b, k, below)
        blank == {Addr(b, b.page + b.lines - 1 + k - i) : i \in below..(k - 1)}
        t == Advanced([b EXCEPT !.rows = [a \in DOMAIN moved |-> IF a \in blank THEN Empty ELSE moved[a]]], k)
    IN NewLine(t, t.page + t.y)

\* The lines first..last of the page get those that are k further on, if they
\* are of the region, or blanks; between the margins only, when they are set.
Shifted(b, first, last, k) ==
    LET New(i) == IF i + k \in first..last THEN b.rows[Addr(b, b.page + i + k)] ELSE Empty
        At(a) == CHOOSE i \in first..last : Addr(b, b.page + i) = a
    IN [b EXCEPT !.rows = [a \in DOMAIN b.rows |->
          IF \E i \in first..last : Addr(b, b.page + i) = a
            THEN IF b.lr THEN [b.rows[a] EXCEPT !["inside"] = New(At(a))["inside"]] ELSE New(At(a))
            ELSE b.rows[a]]]

ShiftUp(b, first, last, k) == Shifted(b, first, last, k)
ShiftDown(b, first, last, k) == Shifted(b, first, last, -k)

LeavesTop(b) == ~b.lr /\ b.top = 0

\* BuffScrollNLines: what a line feed on the last line of the region does.
BuffScrollNLines(b, k) ==
    IF LeavesTop(b) /\ (b.bottom = b.lines - 1 \/ b.y <= b.bottom) THEN BuffScroll(b, k, b.bottom)
    ELSE IF b.y \in b.top..b.bottom THEN ShiftUp(b, b.top, b.bottom, k) ELSE b

\* BuffRegionScrollUpNLines
BuffRegionScrollUpNLines(b, k) ==
    IF LeavesTop(b) THEN BuffScroll(b, k, b.bottom) ELSE ShiftUp(b, b.top, b.bottom, k)

\* BuffClearScreen
BuffClearScreen(b) == BuffScroll(b, b.lines, b.lines - 1)

-----------------------------------------------------------------------------
(* Another buffer.                                                          *)

\* ChangeBuffer: a buffer of n lines with the last of the old one's.
ChangeBuffer(b, n) ==
    LET copied == Least(b.end, n) IN
    [b EXCEPT !.rows = [a \in 0..(n - 1) |->
                           IF a < copied THEN b.rows[Addr(b, b.end - copied + a)] ELSE Empty],
              !.n = n, !.start = 0, !.end = copied, !.endAbs = copied % n,
              !.page = copied - b.lines, !.ptr = 0]

\* BuffChangeTerminalSize.  A page that is not cleared keeps the cursor's line.
Resized(b, h) ==
    LET t == ChangeBuffer(b, Most(h, b.size))
        more == IF h > t.end THEN h - t.end ELSE 0
        fewer == IF h > b.y + 1 THEN b.lines - h ELSE b.lines - 1 - b.y
        u == CASE h = b.lines -> b
               [] h # b.lines /\ ClearOnResize -> t
               [] h > b.lines /\ ~ClearOnResize ->
                    [t EXCEPT !.y = @ + (h - b.lines) - more, !.end = Most(h, @)]
               [] OTHER -> [t EXCEPT !.end = @ - fewer, !.y = Least(@, h - 1)]
    IN [u EXCEPT !.lines = h, !.page = u.end - h, !.size = Most(h, @)]

BuffChangeTerminalSize(b, h) ==
    LET t == Resized(b, h)
        u == IF ClearOnResize THEN [BuffScroll(t, h, h - 1) EXCEPT !.y = 0] ELSE t
        w == [u EXCEPT !.y = Least(@, h - 1), !.top = 0, !.bottom = h - 1, !.lr = FALSE]
    IN NewLine(w, w.page + w.y)

\* BuffReset and DispReset
BuffReset(b) ==
    [NewLine(b, b.page) EXCEPT !.y = 0, !.top = 0, !.bottom = b.lines - 1, !.lr = FALSE,
                               !.saved = <<>>, !.alt = FALSE]

\* ClearBuffer
ClearBuffer(b) ==
    [b EXCEPT !.rows = [a \in DOMAIN b.rows |-> Empty], !.start = 0, !.end = b.lines,
              !.endAbs = b.lines % b.n, !.page = 0, !.ptr = 0,
              !.y = 0, !.top = 0, !.bottom = b.lines - 1, !.lr = FALSE]

\* BuffSaveScreen and BuffRestoreScreen
BuffSaveScreen(b) ==
    IF b.saved # <<>> THEN b
    ELSE [b EXCEPT !.saved = [i \in 1..b.lines |-> b.rows[Addr(b, b.page + i - 1)]]]

BuffRestoreScreen(b) ==
    LET copied == Least(Len(b.saved), b.lines)
        At(a) == CHOOSE i \in 1..copied : Addr(b, b.page + i - 1) = a
    IN [b EXCEPT !.rows = [a \in DOMAIN b.rows |->
                              IF \E i \in 1..copied : Addr(b, b.page + i - 1) = a
                                THEN b.saved[At(a)] ELSE b.rows[a]],
                 !.saved = <<>>]

-----------------------------------------------------------------------------
(* What the terminal is told to do.                                         *)

Becomes(b) == buf' = b /\ UNCHANGED texts

\* BuffPutUnicode: into the line that LinePtr names.
Put == /\ texts < MaxTexts /\ texts' = texts + 1
       /\ \E p \in Parts : buf' = [buf EXCEPT !.rows[buf.ptr][p] = texts + 1]

LineFeed == Becomes(CASE buf.y = buf.bottom -> BuffScrollNLines(buf, 1)
                      [] buf.y # buf.bottom /\ buf.y < buf.lines - 1 -> MoveCursor(buf, buf.y + 1)
                      [] OTHER -> buf)

CursorUpWithScroll ==
    Becomes(CASE buf.y = buf.top -> ShiftDown(buf, buf.top, buf.bottom, 1)
              [] buf.y # buf.top /\ buf.y > 0 -> MoveCursor(buf, buf.y - 1)
              [] OTHER -> buf)

CSMoveToXY == \E y \in 0..(buf.lines - 1) : Becomes(MoveCursor(buf, y))

CSInsertLine ==
    /\ buf.y \in buf.top..buf.bottom
    /\ \E k \in Counts : Becomes(ShiftDown(buf, buf.y, buf.bottom, Least(k, buf.bottom + 1 - buf.y)))

CSDeleteNLines ==
    /\ buf.y \in buf.top..buf.bottom
    /\ \E k \in Counts : Becomes(ShiftUp(buf, buf.y, buf.bottom, Least(k, buf.bottom + 1 - buf.y)))

CSScrollUp == \E k \in Counts : Becomes(BuffRegionScrollUpNLines(buf, k))

CSScrollDown == \E k \in Counts : Becomes(ShiftDown(buf, buf.top, buf.bottom, Least(k, buf.lines)))

CSSetScrollRegion ==
    \E top, bottom \in 0..(buf.lines - 1) :
       /\ top < bottom
       /\ Becomes(MoveCursor([buf EXCEPT !.top = top, !.bottom = bottom], 0))

CSSetLRScrollRegion ==
    \/ Becomes(MoveCursor([buf EXCEPT !.lr = TRUE], 0))
    \/ buf.lr /\ Becomes([buf EXCEPT !.lr = FALSE])

CSScreenErase == Becomes(BuffClearScreen(buf)) \/ Becomes(ClearBuffer(buf))

\* DECSET and DECRST 47, 1049: the cursor is saved and restored by 1049.
AlternateScreen ==
    /\ ~buf.alt
    /\ LET t == [BuffSaveScreen(buf) EXCEPT !.alt = TRUE] IN
       Becomes(t) \/ Becomes([BuffClearScreen(t) EXCEPT !.savedY = buf.y])

MainScreen ==
    /\ buf.alt
    /\ LET Restored(b) == [BuffRestoreScreen(b) EXCEPT !.alt = FALSE]
           t == Restored(BuffClearScreen(buf))
           y == Least(t.savedY, t.lines - 1)
       IN Becomes(Restored(buf)) \/ Becomes([MoveCursor(t, y) EXCEPT !.savedY = y])

ChangeTerminalSize == \E h \in Heights : Becomes(BuffChangeTerminalSize(buf, h))

HardwareReset == Becomes(ClearBuffer(BuffReset(buf)))
OnControlResetTerminal == Becomes(BuffReset(buf))

\* ChangeWin: the setup dialog has set another size of the buffer.
ChangeWin ==
    \E size \in ScrollSizes :
       LET s == Most(size, buf.lines) IN
       /\ s # buf.n
       /\ Becomes([ChangeBuffer(buf, s) EXCEPT !.size = s])

-----------------------------------------------------------------------------
\* InitBuffer
Init ==
    /\ \E h \in Heights, size \in ScrollSizes :
         LET n == Most(size, h) IN
         buf = [n |-> n, size |-> n, lines |-> h, rows |-> [a \in 0..(n - 1) |-> Empty],
                start |-> 0, end |-> h, endAbs |-> h % n, page |-> 0, ptr |-> 0,
                y |-> 0, top |-> 0, bottom |-> h - 1, lr |-> FALSE,
                saved |-> <<>>, alt |-> FALSE, savedY |-> 0]
    /\ texts = 0

Next ==
    \/ Put \/ LineFeed \/ CursorUpWithScroll \/ CSMoveToXY
    \/ CSInsertLine \/ CSDeleteNLines \/ CSScrollUp \/ CSScrollDown
    \/ CSSetScrollRegion \/ CSSetLRScrollRegion \/ CSScreenErase
    \/ AlternateScreen \/ MainScreen \/ ChangeTerminalSize
    \/ HardwareReset \/ OnControlResetTerminal \/ ChangeWin

Spec == Init /\ [][Next]_vars

-----------------------------------------------------------------------------
\* The two ends of the ring agree: the line after the last one is where the
\* next line goes, and the first one once the ring is full (BuffScroll).
RingWhole == buf.endAbs = (buf.start + buf.end) % buf.n

\* LinePtr names the cursor's line.
PtrRight == buf.ptr = Addr(buf, buf.page + buf.y)

\* Nothing but the setup dialog leaves LinePtr at another line than the
\* cursor's: characters are written to where the cursor is.
OnlySetupMisleads == [][PtrRight => PtrRight' \/ ChangeWin]_vars

\* The ring is the terminal's text: lines that scroll out of the page are kept
\* in their order, those outside of a region stay, and every control function
\* moves the lines it should, whatever the ring's position.  What is written while
\* LinePtr is not at the cursor's line goes to another one.
History(b) == [i \in 1..b.page |-> b.rows[Addr(b, i - 1)]]
Page(b) == [i \in 1..b.lines |-> b.rows[Addr(b, b.page + i - 1)]]
Text == INSTANCE TerminalPage WITH
    Inside <- "inside", Counts <- Counts \cup {1}, room <- buf.n - buf.lines,
    hist <- History(buf), page <- Page(buf), y <- buf.y, top <- buf.top, bottom <- buf.bottom,
    lr <- buf.lr, kept <- buf.saved
ImplementsPage == [][(Put /\ ~PtrRight) \/ Text!Next \/ UNCHANGED Text!vars]_vars

=============================================================================
