------------------------- MODULE ScreenBufferProofs -------------------------
(***************************************************************************)
(* The two ends of the ring of lines agree for every height, size of the    *)
(* scroll buffer and parameter of a control function.  That the position    *)
(* after the last line is a sum modulo the ring's size is not inductive as   *)
(* it stands: what the code keeps up is that a ring that is not full begins  *)
(* at address 0, and that the ends of a full one meet.                       *)
(*                                                                         *)
(* Then the cursor's line, and that the ring implements TerminalPage: lines *)
(* are numbered from the oldest on, what an operation does is said line by  *)
(* line in these numbers, and the sequences of TerminalPage position by     *)
(* position.                                                               *)
(***************************************************************************)
EXTENDS ScreenBuffer, TLAPS, WellFoundedInduction, SequenceTheorems

Fields == {"n", "size", "lines", "rows", "start", "end", "endAbs", "page", "ptr",
           "y", "top", "bottom", "lr", "saved", "alt", "savedY"}

\* Sizes and ends of a ring.
Sized(n, size, lines, end) ==
    /\ n \in Nat \ {0} /\ size \in Nat /\ lines \in Nat \ {0} /\ end \in Nat
    /\ lines <= end /\ end <= n
Meet(n, start, end, endAbs) ==
    /\ start \in Nat /\ endAbs \in Nat /\ start < n
    /\ \/ end < n /\ start = 0 /\ endAbs = end
       \/ end = n /\ endAbs = start

RingInv(b) == /\ DOMAIN b = Fields
              /\ Sized(b.n, b.size, b.lines, b.end) /\ Meet(b.n, b.start, b.end, b.endAbs)

\* The ring is the same one, whatever its lines hold.
SameRing(b, c) ==
    /\ DOMAIN c = Fields
    /\ c.n = b.n /\ c.size = b.size /\ c.lines = b.lines
    /\ c.start = b.start /\ c.end = b.end /\ c.endAbs = b.endAbs

LEMMA Remainder ==
    ASSUME NEW n \in Nat \ {0}
    PROVE  /\ \A i \in Nat : i < n => i % n = i
           /\ n % n = 0
           /\ \A i \in Nat : i < n => (i + n) % n = i
OBVIOUS

LEMMA SameKeeps ==
    ASSUME NEW b, NEW c, RingInv(b), SameRing(b, c)
    PROVE  RingInv(c)
BY DEF RingInv, SameRing

\* RingWhole follows: the sum's remainder is what the ends' relation says.
LEMMA MeetWhole ==
    ASSUME NEW b, RingInv(b)
    PROVE  b.endAbs = (b.start + b.end) % b.n
<1>1. CASE b.end < b.n
    BY <1>1, Remainder DEF RingInv, Sized, Meet
<1>2. CASE b.end = b.n
    BY <1>2, Remainder DEF RingInv, Sized, Meet
<1> QED
    BY <1>1, <1>2 DEF RingInv, Sized, Meet

-----------------------------------------------------------------------------
(* Operations that leave the ring as it is.                                *)

LEMMA LeastType ==
    ASSUME NEW i \in Nat, NEW j \in Nat
    PROVE  /\ Least(i, j) \in Nat /\ Least(i, j) <= i /\ Least(i, j) <= j
           /\ Most(i, j) \in Nat /\ i <= Most(i, j) /\ j <= Most(i, j)
BY DEF Least, Most

LEMMA Moving ==
    ASSUME NEW b, RingInv(b)
    PROVE  /\ \A line : SameRing(b, NewLine(b, line))
           /\ \A y : SameRing(b, MoveCursor(b, y))
BY DEF RingInv, SameRing, Fields, NewLine, MoveCursor

LEMMA Shifting ==
    ASSUME NEW b, RingInv(b)
    PROVE  \A first, last, k : /\ SameRing(b, ShiftUp(b, first, last, k))
                               /\ SameRing(b, ShiftDown(b, first, last, k))
BY DEF RingInv, SameRing, Fields, ShiftUp, ShiftDown, Shifted

LEMMA Saving ==
    ASSUME NEW b, RingInv(b)
    PROVE  SameRing(b, BuffSaveScreen(b)) /\ SameRing(b, BuffRestoreScreen(b))
BY DEF RingInv, SameRing, Fields, BuffSaveScreen, BuffRestoreScreen

LEMMA Resetting ==
    ASSUME NEW b, RingInv(b)
    PROVE  SameRing(b, BuffReset(b))
BY DEF RingInv, SameRing, Fields, BuffReset, NewLine

-----------------------------------------------------------------------------
(* Operations that move its ends.                                          *)

\* Before a scroll of at least as many lines as the page has more than the
\* ring holds, the page need not be inside the ring.
LEMMA Advancing ==
    ASSUME NEW b, DOMAIN b = Fields, NEW k \in Nat \ {0}, k <= b.n,
           b.n \in Nat \ {0}, b.size \in Nat, b.lines \in Nat \ {0}, b.end \in Nat,
           b.lines <= b.end + k, b.lines <= b.n, b.end <= b.n,
           Meet(b.n, b.start, b.end, b.endAbs)
    PROVE  RingInv(Advanced(b, k))
<1> DEFINE c == Advanced(b, k)
<1>1. /\ DOMAIN c = Fields /\ c.n = b.n /\ c.size = b.size /\ c.lines = b.lines
      /\ c.endAbs = IF b.endAbs + k >= b.n THEN b.endAbs + k - b.n ELSE b.endAbs + k
      /\ c.end = IF b.end + k >= b.n THEN b.n ELSE b.end + k
      /\ c.start = IF b.end + k >= b.n THEN c.endAbs ELSE b.start
    BY DEF Fields, Advanced
<1>2. Sized(c.n, c.size, c.lines, c.end)
    BY <1>1 DEF Sized
<1>3. Meet(c.n, c.start, c.end, c.endAbs)
    BY <1>1 DEF Meet
<1> QED
    BY <1>1, <1>2, <1>3 DEF RingInv

LEMMA Scrolling ==
    ASSUME NEW b, DOMAIN b = Fields, NEW count \in Nat \ {0}, NEW bottom,
           b.n \in Nat \ {0}, b.size \in Nat, b.lines \in Nat \ {0}, b.end \in Nat,
           b.lines <= b.end + Least(count, b.n), b.lines <= b.n, b.end <= b.n,
           Meet(b.n, b.start, b.end, b.endAbs)
    PROVE  RingInv(BuffScroll(b, count, bottom))
<1> DEFINE k == Least(count, b.n)
<1>1. k \in Nat \ {0} /\ k <= b.n
    BY DEF Least
<1>2. PICK rows : /\ BuffScroll(b, count, bottom) =
                        NewLine(Advanced([b EXCEPT !.rows = rows], k),
                                Advanced([b EXCEPT !.rows = rows], k).page
                                  + Advanced([b EXCEPT !.rows = rows], k).y)
    BY DEF BuffScroll
<1>3. PICK c : c = [b EXCEPT !.rows = rows]
    OBVIOUS
<1>4. /\ DOMAIN c = Fields /\ c.n = b.n /\ c.size = b.size /\ c.lines = b.lines
      /\ c.end = b.end /\ c.start = b.start /\ c.endAbs = b.endAbs
    BY <1>3 DEF Fields
<1>5. RingInv(Advanced(c, k))
    BY <1>1, <1>4, Advancing
<1>6. BuffScroll(b, count, bottom) = NewLine(Advanced(c, k), Advanced(c, k).page + Advanced(c, k).y)
    BY <1>2, <1>3
<1>7. SameRing(Advanced(c, k), NewLine(Advanced(c, k), Advanced(c, k).page + Advanced(c, k).y))
    BY <1>5, Moving
<1> QED
    BY <1>5, <1>6, <1>7, SameKeeps

LEMMA ScrollingWhole ==
    ASSUME NEW b, RingInv(b), NEW count \in Nat \ {0}
    PROVE  \A bottom : RingInv(BuffScroll(b, count, bottom))
<1>1. Least(count, b.n) \in Nat
    BY DEF RingInv, Sized, Least
<1>2. b.lines <= b.end + Least(count, b.n)
    BY <1>1 DEF RingInv, Sized
<1> QED
    BY <1>2, Scrolling DEF RingInv, Sized

LEMMA Scrolls ==
    ASSUME NEW b, RingInv(b), NEW k \in Nat \ {0}
    PROVE  /\ RingInv(BuffScrollNLines(b, k)) /\ RingInv(BuffRegionScrollUpNLines(b, k))
           /\ RingInv(BuffClearScreen(b))
<1>1. RingInv(BuffScrollNLines(b, k))
    BY ScrollingWhole, Shifting, SameKeeps DEF BuffScrollNLines
<1>2. RingInv(BuffRegionScrollUpNLines(b, k))
    BY ScrollingWhole, Shifting, SameKeeps DEF BuffRegionScrollUpNLines
<1>3. RingInv(BuffClearScreen(b))
    BY ScrollingWhole DEF BuffClearScreen, RingInv, Sized
<1> QED
    BY <1>1, <1>2, <1>3

\* A buffer of n lines, which may have less text than the page has lines.
LEMMA Changing ==
    ASSUME NEW b, RingInv(b), NEW n \in Nat \ {0}
    PROVE  LET c == ChangeBuffer(b, n) IN
           /\ DOMAIN c = Fields /\ c.n = n /\ c.size = b.size /\ c.lines = b.lines
           /\ c.end = Least(b.end, n) /\ Meet(c.n, c.start, c.end, c.endAbs)
<1> DEFINE c == ChangeBuffer(b, n)
           copied == Least(b.end, n)
<1>1. /\ DOMAIN c = Fields /\ c.n = n /\ c.size = b.size /\ c.lines = b.lines
      /\ c.end = copied /\ c.start = 0 /\ c.endAbs = copied % n
    BY DEF RingInv, Fields, ChangeBuffer
<1>2. copied \in Nat /\ copied <= n
    BY DEF RingInv, Sized, Least
<1>3. CASE copied < n
    <2>1. copied % n = copied
        BY <1>2, <1>3, Remainder
    <2> QED
        BY <1>1, <1>2, <1>3, <2>1 DEF Meet
<1>4. CASE copied = n
    <2>1. copied % n = 0
        BY <1>4, Remainder
    <2> QED
        BY <1>1, <1>2, <1>4, <2>1 DEF Meet
<1> QED
    BY <1>1, <1>2, <1>3, <1>4

LEMMA Clearing ==
    ASSUME NEW b, RingInv(b)
    PROVE  RingInv(ClearBuffer(b))
<1> DEFINE c == ClearBuffer(b)
<1>1. /\ DOMAIN c = Fields /\ c.n = b.n /\ c.size = b.size /\ c.lines = b.lines
      /\ c.end = b.lines /\ c.start = 0 /\ c.endAbs = b.lines % b.n
    BY DEF RingInv, Fields, ClearBuffer
<1>2. CASE b.lines < b.n
    <2>1. b.lines % b.n = b.lines
        BY <1>2, Remainder DEF RingInv, Sized
    <2> QED
        BY <1>1, <1>2, <2>1 DEF RingInv, Sized, Meet
<1>3. CASE b.lines = b.n
    <2>1. b.lines % b.n = 0
        BY <1>3, Remainder DEF RingInv, Sized
    <2> QED
        BY <1>1, <1>3, <2>1 DEF RingInv, Sized, Meet
<1> QED
    BY <1>1, <1>2, <1>3 DEF RingInv, Sized

\* The page is cleared when the terminal's size changes: the scroll makes room
\* for all of its new lines.
LEMMA Resizing ==
    ASSUME NEW b, RingInv(b), NEW h \in Nat \ {0}, ClearOnResize
    PROVE  RingInv(BuffChangeTerminalSize(b, h))
<1> DEFINE t == Resized(b, h)
<1>1. /\ DOMAIN t = Fields /\ t.n \in Nat \ {0} /\ t.size \in Nat /\ t.lines = h
      /\ t.end \in Nat /\ t.end <= t.n /\ h <= t.n /\ Meet(t.n, t.start, t.end, t.endAbs)
    <2>1. CASE h = b.lines
        BY <2>1, LeastType DEF Resized, RingInv, Sized, Fields
    <2>2. CASE h # b.lines
        <3> DEFINE n == Most(h, b.size)
                   c == ChangeBuffer(b, n)
        <3>1. n \in Nat \ {0} /\ h <= n /\ b.end \in Nat
            BY DEF RingInv, Sized, Most
        <3>2. /\ DOMAIN c = Fields /\ c.n = n /\ c.size = b.size
              /\ c.end = Least(b.end, n) /\ Meet(c.n, c.start, c.end, c.endAbs)
            BY <3>1, Changing
        <3>3. t = [c EXCEPT !.lines = h, !.page = c.end - h, !.size = Most(h, @)]
            BY <2>2 DEF Resized
        <3>4. Least(b.end, n) \in Nat /\ Least(b.end, n) <= n /\ Most(h, b.size) \in Nat
            BY <3>1 DEF Least, Most, RingInv, Sized
        <3> HIDE DEF n, c
        <3>5. /\ DOMAIN t = Fields /\ t.n = c.n /\ t.lines = h /\ t.end = c.end
              /\ t.start = c.start /\ t.endAbs = c.endAbs /\ t.size = Most(h, c.size)
            BY <3>2, <3>3 DEF Fields
        <3> QED
            BY <3>1, <3>2, <3>4, <3>5
    <2> QED
        BY <2>1, <2>2
<1> HIDE DEF t
<1>2. t.lines <= t.end + Least(h, t.n)
    BY <1>1 DEF Least
<1>3. RingInv(BuffScroll(t, h, h - 1))
    BY <1>1, <1>2, Scrolling
<1>4. PICK c : c = BuffScroll(t, h, h - 1)
    OBVIOUS
<1>5. PICK w, line : /\ w = [c EXCEPT !.y = 0]
                     /\ BuffChangeTerminalSize(b, h) =
                          NewLine([w EXCEPT !.y = Least(@, h - 1), !.top = 0, !.bottom = h - 1, !.lr = FALSE], line)
    BY <1>4 DEF BuffChangeTerminalSize, t
<1>6. SameRing(c, BuffChangeTerminalSize(b, h))
    BY <1>3, <1>4, <1>5 DEF RingInv, SameRing, Fields, NewLine
<1> QED
    BY <1>3, <1>4, <1>6, SameKeeps

-----------------------------------------------------------------------------
(* The specification.                                                      *)

\* Switching between the screens, with or without the cursor and a clearing.
LEMMA Switching ==
    ASSUME RingInv(buf), AlternateScreen \/ MainScreen
    PROVE  RingInv(buf')
<1>1. CASE AlternateScreen
    <2> DEFINE t == [BuffSaveScreen(buf) EXCEPT !.alt = TRUE]
    <2>1. RingInv(BuffSaveScreen(buf))
        BY Saving, SameKeeps
    <2>2. SameRing(BuffSaveScreen(buf), t)
        BY <2>1 DEF RingInv, SameRing, Fields
    <2>3. RingInv(t)
        BY <2>1, <2>2, SameKeeps
    <2> HIDE DEF t
    <2>4. RingInv(BuffClearScreen(t))
        BY <2>3, Scrolls, 1 \in Nat \ {0}
    <2>5. SameRing(BuffClearScreen(t), [BuffClearScreen(t) EXCEPT !.savedY = buf.y])
        BY <2>4 DEF RingInv, SameRing, Fields
    <2>6. buf' = t \/ buf' = [BuffClearScreen(t) EXCEPT !.savedY = buf.y]
        BY <1>1 DEF AlternateScreen, Becomes, t
    <2> QED
        BY <2>3, <2>4, <2>5, <2>6, SameKeeps
<1>2. CASE MainScreen
    <2> DEFINE Restored(b) == [BuffRestoreScreen(b) EXCEPT !.alt = FALSE]
    <2>1. ASSUME NEW b, RingInv(b) PROVE RingInv(Restored(b))
        <3>1. RingInv(BuffRestoreScreen(b))
            BY <2>1, Saving, SameKeeps
        <3>2. SameRing(BuffRestoreScreen(b), Restored(b))
            BY <3>1 DEF RingInv, SameRing, Fields
        <3> QED
            BY <3>1, <3>2, SameKeeps
    <2> HIDE DEF Restored
    <2>2. RingInv(BuffClearScreen(buf))
        BY Scrolls, 1 \in Nat \ {0}
    <2>3. PICK y : \/ buf' = Restored(buf)
                   \/ buf' = [MoveCursor(Restored(BuffClearScreen(buf)), y) EXCEPT !.savedY = y]
        BY <1>2 DEF MainScreen, Becomes, Restored
    <2>4. PICK c : c = MoveCursor(Restored(BuffClearScreen(buf)), y)
        OBVIOUS
    <2>5. RingInv(c)
        BY <2>1, <2>2, <2>4, Moving, SameKeeps
    <2>6. SameRing(c, [c EXCEPT !.savedY = y])
        BY <2>5 DEF RingInv, SameRing, Fields
    <2> QED
        BY <2>1, <2>3, <2>4, <2>5, <2>6, SameKeeps
<1> QED
    BY <1>1, <1>2

\* Margins: the cursor goes home.
LEMMA Setting ==
    ASSUME RingInv(buf), CSSetScrollRegion \/ CSSetLRScrollRegion
    PROVE  RingInv(buf')
<1>1. PICK top, bottom, lr, c :
         /\ c = [buf EXCEPT !.top = top, !.bottom = bottom] \/ c = [buf EXCEPT !.lr = lr]
         /\ buf' = c \/ buf' = MoveCursor(c, 0)
    BY DEF CSSetScrollRegion, CSSetLRScrollRegion, Becomes
<1>2. SameRing(buf, c)
    BY <1>1 DEF RingInv, SameRing, Fields
<1>3. RingInv(c)
    BY <1>2, SameKeeps
<1> QED
    BY <1>1, <1>3, Moving, SameKeeps

\* The setup dialog has set another size of the buffer, of one line at least.
LEMMA Setup ==
    ASSUME RingInv(buf), ChangeWin
    PROVE  RingInv(buf')
<1>1. PICK size \in ScrollSizes : buf' = [ChangeBuffer(buf, Most(size, buf.lines)) EXCEPT !.size = Most(size, buf.lines)]
    BY DEF ChangeWin, Becomes
<1> DEFINE n == Most(size, buf.lines)
           c == ChangeBuffer(buf, n)
<1>2. n \in Nat \ {0} /\ buf.lines <= n /\ buf.lines <= Least(buf.end, n) /\ Least(buf.end, n) <= n
      /\ Least(buf.end, n) \in Nat
    BY BufferAssumption DEF RingInv, Sized, Most, Least
<1>3. /\ DOMAIN c = Fields /\ c.n = n /\ c.lines = buf.lines /\ c.end = Least(buf.end, n)
      /\ Meet(c.n, c.start, c.end, c.endAbs)
    BY <1>2, Changing
<1> HIDE DEF n, c
<1>4. buf' = [c EXCEPT !.size = n]
    BY <1>1 DEF n, c
<1>5. /\ DOMAIN buf' = Fields /\ buf'.n = n /\ buf'.size = n /\ buf'.lines = buf.lines
      /\ buf'.end = c.end /\ buf'.start = c.start /\ buf'.endAbs = c.endAbs
    BY <1>3, <1>4 DEF Fields
<1> QED
    BY <1>2, <1>3, <1>5 DEF RingInv, Sized

LEMMA InitRing ==
    ASSUME Init
    PROVE  RingInv(buf)
<1>1. PICK h \in Heights, size \in ScrollSizes :
         buf = [n |-> Most(size, h), size |-> Most(size, h), lines |-> h,
                rows |-> [a \in 0..(Most(size, h) - 1) |-> Empty],
                start |-> 0, end |-> h, endAbs |-> h % Most(size, h), page |-> 0, ptr |-> 0,
                y |-> 0, top |-> 0, bottom |-> h - 1, lr |-> FALSE,
                saved |-> <<>>, alt |-> FALSE, savedY |-> 0]
    BY DEF Init
<1> DEFINE n == Most(size, h)
<1>2. h \in Nat \ {0} /\ n \in Nat \ {0} /\ h <= n
    BY BufferAssumption DEF Most
<1>3. h % n = IF h < n THEN h ELSE 0
    BY <1>2, Remainder
<1>4. /\ DOMAIN buf = Fields /\ buf.n = n /\ buf.size = n /\ buf.lines = h /\ buf.end = h
      /\ buf.start = 0 /\ buf.endAbs = h % n
    BY <1>1 DEF Fields
<1> QED
    BY <1>2, <1>3, <1>4 DEF RingInv, Sized, Meet

LEMMA StepRing ==
    ASSUME RingInv(buf), [Next]_vars, ClearOnResize
    PROVE  RingInv(buf')
<1> USE BufferAssumption
<1> 1 \in Nat \ {0}
    OBVIOUS
<1>1. CASE Put
    <2>1. SameRing(buf, buf')
        BY <1>1 DEF Put, RingInv, SameRing, Fields
    <2> QED
        BY <2>1, SameKeeps
<1>2. CASE LineFeed
    <2>1. \/ buf' = BuffScrollNLines(buf, 1) \/ buf' = MoveCursor(buf, buf.y + 1) \/ buf' = buf
        BY <1>2 DEF LineFeed, Becomes
    <2> QED
        BY <2>1, Scrolls, Moving, SameKeeps
<1>3. CASE CursorUpWithScroll
    BY <1>3, Shifting, Moving, SameKeeps DEF CursorUpWithScroll, Becomes
<1>4. CASE CSMoveToXY
    BY <1>4, Moving, SameKeeps DEF CSMoveToXY, Becomes
<1>5. CASE CSInsertLine \/ CSDeleteNLines \/ CSScrollDown
    BY <1>5, Shifting, SameKeeps DEF CSInsertLine, CSDeleteNLines, CSScrollDown, Becomes
<1>6. CASE CSScrollUp
    BY <1>6, Scrolls DEF CSScrollUp, Becomes
<1>7. CASE CSSetScrollRegion \/ CSSetLRScrollRegion
    BY <1>7, Setting
<1>8. CASE CSScreenErase
    BY <1>8, Scrolls, Clearing DEF CSScreenErase, Becomes
<1>9. CASE AlternateScreen \/ MainScreen
    BY <1>9, Switching
<1>10. CASE ChangeTerminalSize
    BY <1>10, Resizing DEF ChangeTerminalSize, Becomes
<1>11. CASE HardwareReset \/ OnControlResetTerminal
    <2>1. RingInv(BuffReset(buf))
        BY Resetting, SameKeeps
    <2> QED
        BY <1>11, <2>1, Clearing DEF HardwareReset, OnControlResetTerminal, Becomes
<1>12. CASE ChangeWin
    BY <1>12, Setup
<1>13. CASE UNCHANGED vars
    BY <1>13 DEF vars
<1> QED
    BY <1>1, <1>2, <1>3, <1>4, <1>5, <1>6, <1>7, <1>8, <1>9, <1>10, <1>11, <1>12, <1>13 DEF Next

\* Where the next line goes is right behind the last one, and on the oldest
\* once the ring is full, whatever was scrolled, resized and cleared: with the
\* setting that clears the page when its size changes.
THEOREM RingCorrect == ASSUME ClearOnResize PROVE Spec => []RingWhole
<1>1. Init => RingInv(buf)
    BY InitRing
<1>2. RingInv(buf) /\ [Next]_vars => RingInv(buf)'
    BY StepRing
<1>3. RingInv(buf) => RingWhole
    BY MeetWhole DEF RingWhole
<1> QED
    BY <1>1, <1>2, <1>3, PTL DEF Spec

-----------------------------------------------------------------------------
(* The cursor's line.  Every function that moves the page or the cursor ends *)
(* with NewLine, and the others leave alone what the address is made of.     *)

Right(b) == b.ptr = Addr(b, b.page + b.y)
Shaped(b) == /\ DOMAIN b = Fields /\ b.n \in Nat \ {0}
             /\ b.size \in Int /\ b.lines \in Int /\ b.end \in Int /\ b.page \in Int /\ b.y \in Int
             /\ b.savedY \in Int
Leads(b, c) == Shaped(c) /\ (Right(b) => Right(c))

LEMMA LeadsOn ==
    ASSUME NEW b, NEW c, NEW d, Leads(b, c), Leads(c, d)
    PROVE  Leads(b, d)
BY DEF Leads

\* What changes no field that the address is made of.
SamePlace(b, c) ==
    /\ DOMAIN c = Fields
    /\ c.n = b.n /\ c.size = b.size /\ c.lines = b.lines /\ c.start = b.start /\ c.end = b.end
    /\ c.page = b.page /\ c.y = b.y /\ c.ptr = b.ptr /\ c.savedY \in Int

LEMMA PlaceKept ==
    ASSUME NEW b, NEW c, Shaped(b), SamePlace(b, c)
    PROVE  Leads(b, c)
BY DEF Leads, Shaped, SamePlace, Right, Addr

LEMMA Redrawn ==
    ASSUME NEW b, Shaped(b)
    PROVE  /\ \A rows : SamePlace(b, [b EXCEPT !.rows = rows])
           /\ \A first, last, k : Leads(b, ShiftUp(b, first, last, k)) /\ Leads(b, ShiftDown(b, first, last, k))
           /\ Leads(b, BuffSaveScreen(b)) /\ Leads(b, BuffRestoreScreen(b))
           /\ \A alt : Leads(b, [b EXCEPT !.alt = alt])
           /\ \A y \in Int : Leads(b, [b EXCEPT !.savedY = y])
           /\ \A top, bottom : Leads(b, [b EXCEPT !.top = top, !.bottom = bottom])
           /\ \A lr : Leads(b, [b EXCEPT !.lr = lr])
<1>1. \A rows : SamePlace(b, [b EXCEPT !.rows = rows])
    BY DEF Shaped, Fields, SamePlace
<1>2. \A first, last, k : SamePlace(b, ShiftUp(b, first, last, k)) /\ SamePlace(b, ShiftDown(b, first, last, k))
    BY DEF Shaped, Fields, SamePlace, ShiftUp, ShiftDown, Shifted
<1>3. SamePlace(b, BuffSaveScreen(b)) /\ SamePlace(b, BuffRestoreScreen(b))
    BY DEF Shaped, Fields, SamePlace, BuffSaveScreen, BuffRestoreScreen
<1>4. /\ \A alt : SamePlace(b, [b EXCEPT !.alt = alt])
      /\ \A y \in Int : SamePlace(b, [b EXCEPT !.savedY = y])
      /\ \A top, bottom : SamePlace(b, [b EXCEPT !.top = top, !.bottom = bottom])
      /\ \A lr : SamePlace(b, [b EXCEPT !.lr = lr])
    BY DEF Shaped, Fields, SamePlace
<1> QED BY <1>1, <1>2, <1>3, <1>4, PlaceKept

\* The cursor's line is looked up.
LEMMA LookedUp ==
    ASSUME NEW b, Shaped(b)
    PROVE  Shaped(NewLine(b, b.page + b.y)) /\ Right(NewLine(b, b.page + b.y))
BY DEF Shaped, Fields, Right, NewLine, Addr

LEMMA CursorMoves ==
    ASSUME NEW b, Shaped(b), NEW y \in Int
    PROVE  Leads(b, MoveCursor(b, y))
<1>1. CASE y = b.y
    BY <1>1 DEF MoveCursor, Leads
<1>2. CASE y # b.y
    <2> DEFINE c == MoveCursor(b, y)
    <2>1. c = [NewLine(b, b.page + y) EXCEPT !.y = y]
        BY <1>2 DEF MoveCursor
    <2>2. /\ DOMAIN c = Fields /\ c.n = b.n /\ c.size = b.size /\ c.lines = b.lines /\ c.start = b.start
          /\ c.end = b.end /\ c.page = b.page /\ c.y = y /\ c.ptr = Addr(b, b.page + y) /\ c.savedY = b.savedY
        BY <2>1 DEF Shaped, Fields, NewLine
    <2> HIDE DEF c
    <2>3. Shaped(c) /\ Right(c)
        BY <2>2 DEF Shaped, Right, Addr
    <2> QED BY <2>3 DEF Leads, c
<1> QED BY <1>1, <1>2

LEMMA ScrollLands ==
    ASSUME NEW b, Shaped(b), NEW count \in Int, NEW bottom
    PROVE  Leads(b, BuffScroll(b, count, bottom))
<1> DEFINE k == Least(count, b.n)
<1>1. PICK rows : BuffScroll(b, count, bottom) =
                    NewLine(Advanced([b EXCEPT !.rows = rows], k),
                            Advanced([b EXCEPT !.rows = rows], k).page + Advanced([b EXCEPT !.rows = rows], k).y)
    BY DEF BuffScroll
<1> DEFINE c == [b EXCEPT !.rows = rows]
           d == Advanced(c, k)
<1>2. DOMAIN c = Fields /\ c.n = b.n /\ c.size = b.size /\ c.lines = b.lines /\ c.end = b.end /\ c.y = b.y
      /\ c.savedY = b.savedY
    BY DEF Shaped, Fields
<1>3. k \in Int
    BY DEF Least, Shaped
<1>4. BuffScroll(b, count, bottom) = NewLine(d, d.page + d.y)
    BY <1>1
<1> HIDE DEF c, k
<1>5. Shaped(d)
    <2> DEFINE end == IF c.end + k >= c.n THEN c.n ELSE c.end + k
    <2>1. /\ DOMAIN d = Fields /\ d.n = c.n /\ d.size = c.size /\ d.lines = c.lines /\ d.y = c.y
          /\ d.end = end /\ d.page = end - c.lines /\ d.savedY = c.savedY
        BY <1>2 DEF Advanced, Fields
    <2>2. end \in Int
        BY <1>2, <1>3 DEF Shaped
    <2> HIDE DEF end, d
    <2> QED BY <1>2, <2>1, <2>2 DEF Shaped
<1> HIDE DEF d
<1>6. Shaped(NewLine(d, d.page + d.y)) /\ Right(NewLine(d, d.page + d.y))
    BY <1>5, LookedUp
<1> QED BY <1>4, <1>6 DEF Leads

LEMMA ScrollsLand ==
    ASSUME NEW b, Shaped(b), NEW k \in Int
    PROVE  /\ Leads(b, BuffScrollNLines(b, k)) /\ Leads(b, BuffRegionScrollUpNLines(b, k))
           /\ Leads(b, BuffClearScreen(b))
<1>0. Leads(b, b)
    BY DEF Leads
<1>1. Leads(b, BuffScrollNLines(b, k))
    BY <1>0, ScrollLands, Redrawn DEF BuffScrollNLines
<1>2. Leads(b, BuffRegionScrollUpNLines(b, k))
    BY ScrollLands, Redrawn DEF BuffRegionScrollUpNLines
<1>3. Leads(b, BuffClearScreen(b))
    <2>1. b.lines \in Int
        BY DEF Shaped
    <2> QED BY <2>1, ScrollLands DEF BuffClearScreen
<1> QED BY <1>1, <1>2, <1>3

LEMMA BufferLands ==
    ASSUME NEW b, Shaped(b), NEW n \in Nat \ {0}
    PROVE  LET c == ChangeBuffer(b, n) IN
           Shaped(c) /\ c.n = n /\ c.size = b.size /\ c.lines = b.lines /\ c.y = b.y
<1> DEFINE c == ChangeBuffer(b, n)
           copied == Least(b.end, n)
<1>1. /\ DOMAIN c = Fields /\ c.n = n /\ c.size = b.size /\ c.lines = b.lines /\ c.y = b.y
      /\ c.end = copied /\ c.page = copied - b.lines /\ c.savedY = b.savedY
    BY DEF Shaped, Fields, ChangeBuffer
<1>2. copied \in Int
    BY DEF Shaped, Least
<1> HIDE DEF c, copied
<1>3. Shaped(c)
    BY <1>1, <1>2 DEF Shaped
<1> QED BY <1>1, <1>3 DEF c

LEMMA ResizeLands ==
    ASSUME NEW b, Shaped(b), NEW h \in Nat \ {0}
    PROVE  Leads(b, BuffChangeTerminalSize(b, h))
<1> DEFINE n == Most(h, b.size)
           t == ChangeBuffer(b, n)
           r == Resized(b, h)
<1>1. n \in Nat \ {0} /\ Most(h, b.size) \in Int
    BY DEF Most, Shaped
<1>2. Shaped(t)
    BY <1>1, BufferLands
<1> DEFINE more == IF h > t.end THEN h - t.end ELSE 0
           fewer == IF h > b.y + 1 THEN b.lines - h ELSE b.lines - 1 - b.y
           y1 == t.y + (h - b.lines) - more
           end1 == Most(h, t.end)
           u1 == [t EXCEPT !.y = y1, !.end = end1]
           y2 == Least(t.y, h - 1)
           end2 == t.end - fewer
           u2 == [t EXCEPT !.end = end2, !.y = y2]
           u == CASE h = b.lines -> b
                  [] h # b.lines /\ ClearOnResize -> t
                  [] h > b.lines /\ ~ClearOnResize -> u1
                  [] OTHER -> u2
           size == Most(h, u.size)
<1>3. r = [u EXCEPT !.lines = h, !.page = u.end - h, !.size = size] /\ Shaped(u)
    <2>1. r = [u EXCEPT !.lines = h, !.page = u.end - h, !.size = size]
        BY DEF Resized
    <2>2. /\ y1 \in Int /\ end1 \in Int /\ y2 \in Int /\ end2 \in Int
        BY <1>2 DEF Shaped, Most, Least
    <2>3. Shaped(u1) /\ Shaped(u2)
        <3> HIDE DEF y1, end1, y2, end2, t
        <3> QED BY <1>2, <2>2 DEF Shaped, Fields
    <2> HIDE DEF u1, u2, t, r
    <2>4. u = b \/ u = t \/ u = u1 \/ u = u2
        <3>1. CASE h = b.lines
            BY <3>1
        <3>2. CASE h # b.lines /\ ClearOnResize
            BY <3>2
        <3>3. CASE h > b.lines /\ ~ClearOnResize
            BY <3>3 DEF Shaped
        <3>4. CASE h # b.lines /\ ~(h > b.lines) /\ ~ClearOnResize
            BY <3>4
        <3> QED BY <3>1, <3>2, <3>3, <3>4 DEF Shaped
    <2> HIDE DEF u
    <2>5. Shaped(u)
        BY <1>2, <2>3, <2>4
    <2> QED BY <2>1, <2>5 DEF r, u, t, u1, u2
<1> HIDE DEF u
<1>4. Shaped(r)
    <2>1. size \in Int
        BY <1>3 DEF Shaped, Most
    <2> HIDE DEF r, size
    <2>2. /\ DOMAIN r = Fields /\ r.n = u.n /\ r.size = size /\ r.lines = h /\ r.end = u.end /\ r.page = u.end - h /\ r.y = u.y
          /\ r.savedY = u.savedY
        BY <1>3 DEF Shaped, Fields
    <2> QED BY <1>3, <2>1, <2>2 DEF Shaped
<1> HIDE DEF r
<1> DEFINE c == BuffScroll(r, h, h - 1)
<1>5. Shaped(c)
    BY <1>4, ScrollLands DEF Leads
<1> HIDE DEF c
<1> DEFINE v == IF ClearOnResize THEN [c EXCEPT !.y = 0] ELSE r
           w == [v EXCEPT !.y = Least(@, h - 1), !.top = 0, !.bottom = h - 1, !.lr = FALSE]
<1>6. Shaped(v)
    BY <1>4, <1>5 DEF Shaped, Fields
<1>7. Shaped(w)
    <2> HIDE DEF v
    <2> DEFINE y == Least(v.y, h - 1)
    <2>1. y \in Int
        BY <1>6 DEF Least, Shaped
    <2>2. w = [v EXCEPT !.y = y, !.top = 0, !.bottom = h - 1, !.lr = FALSE]
        BY DEF w
    <2> HIDE DEF y, w
    <2> QED BY <1>6, <2>1, <2>2 DEF Shaped, Fields
<1>8. BuffChangeTerminalSize(b, h) = NewLine(w, w.page + w.y)
    BY DEF BuffChangeTerminalSize, r, c
<1> HIDE DEF w
<1> QED BY <1>7, <1>8, LookedUp DEF Leads

LEMMA ResetLands ==
    ASSUME NEW b, Shaped(b)
    PROVE  Leads(b, BuffReset(b)) /\ Leads(b, ClearBuffer(b))
<1>1. Leads(b, BuffReset(b))
    <2> DEFINE c == BuffReset(b)
    <2>1. /\ DOMAIN c = Fields /\ c.n = b.n /\ c.size = b.size /\ c.lines = b.lines /\ c.start = b.start
          /\ c.end = b.end /\ c.page = b.page /\ c.y = 0 /\ c.ptr = Addr(b, b.page) /\ c.savedY = b.savedY
        BY DEF BuffReset, NewLine, Shaped, Fields
    <2>2. b.page + 0 = b.page
        BY DEF Shaped
    <2> HIDE DEF c
    <2>3. Shaped(c) /\ Right(c)
        BY <2>1, <2>2 DEF Shaped, Right, Addr
    <2> QED BY <2>3 DEF Leads, c
<1>2. Leads(b, ClearBuffer(b))
    <2> DEFINE c == ClearBuffer(b)
    <2>1. /\ DOMAIN c = Fields /\ c.n = b.n /\ c.size = b.size /\ c.lines = b.lines /\ c.start = 0
          /\ c.end = b.lines /\ c.page = 0 /\ c.y = 0 /\ c.ptr = 0 /\ c.savedY = b.savedY
        BY DEF ClearBuffer, Shaped, Fields
    <2>2. 0 + (0 + 0) = 0 /\ 0 % b.n = 0
        BY DEF Shaped
    <2> HIDE DEF c
    <2>3. Shaped(c) /\ Right(c)
        BY <2>1, <2>2 DEF Shaped, Right, Addr
    <2> QED BY <2>3 DEF Leads, c
<1> QED BY <1>1, <1>2

LEMMA InitShaped ==
    ASSUME Init
    PROVE  Shaped(buf)
<1>1. PICK h \in Heights, size \in ScrollSizes :
         buf = [n |-> Most(size, h), size |-> Most(size, h), lines |-> h,
                rows |-> [a \in 0..(Most(size, h) - 1) |-> Empty],
                start |-> 0, end |-> h, endAbs |-> h % Most(size, h), page |-> 0, ptr |-> 0,
                y |-> 0, top |-> 0, bottom |-> h - 1, lr |-> FALSE,
                saved |-> <<>>, alt |-> FALSE, savedY |-> 0]
    BY DEF Init
<1>2. h \in Nat \ {0} /\ Most(size, h) \in Nat \ {0}
    BY BufferAssumption DEF Most
<1>3. /\ DOMAIN buf = Fields /\ buf.n = Most(size, h) /\ buf.size = Most(size, h) /\ buf.lines = h
      /\ buf.end = h /\ buf.page = 0 /\ buf.y = 0 /\ buf.savedY = 0
    BY <1>1 DEF Fields
<1> QED BY <1>2, <1>3 DEF Shaped

LEMMA SwitchLands ==
    ASSUME Shaped(buf), AlternateScreen \/ MainScreen
    PROVE  Leads(buf, buf')
<1>1. CASE AlternateScreen
    <2> DEFINE s == BuffSaveScreen(buf)
               t == [s EXCEPT !.alt = TRUE]
               c == BuffClearScreen(t)
               d == [c EXCEPT !.savedY = buf.y]
    <2>1. Leads(buf, s)
        BY Redrawn
    <2>2. Leads(s, t)
        <3> HIDE DEF s
        <3> QED BY <2>1, Redrawn DEF Leads
    <2>3. Leads(t, c)
        <3> HIDE DEF t
        <3> QED BY <2>2, ScrollsLand, 0 \in Int DEF Leads
    <2>4. Leads(c, d)
        <3> HIDE DEF c
        <3> QED BY <2>3, Redrawn DEF Leads, Shaped
    <2>5. buf' = t \/ buf' = d
        BY <1>1 DEF AlternateScreen, Becomes
    <2> HIDE DEF s, t, c, d
    <2> QED BY <2>1, <2>2, <2>3, <2>4, <2>5, LeadsOn
<1>2. CASE MainScreen
    <2> DEFINE R(b) == [BuffRestoreScreen(b) EXCEPT !.alt = FALSE]
    <2>1. ASSUME NEW b, Shaped(b) PROVE Leads(b, R(b))
        <3> DEFINE c == BuffRestoreScreen(b)
        <3>1. Leads(b, c)
            BY <2>1, Redrawn
        <3> HIDE DEF c
        <3>2. Leads(c, [c EXCEPT !.alt = FALSE])
            BY <3>1, Redrawn DEF Leads
        <3> QED BY <3>1, <3>2, LeadsOn DEF c
    <2> DEFINE e == BuffClearScreen(buf)
               t == R(e)
               y == Least(t.savedY, t.lines - 1)
               m == MoveCursor(t, y)
    <2>2. Leads(buf, e)
        BY ScrollsLand, 0 \in Int
    <2>3. Leads(e, t)
        <3> HIDE DEF e, R
        <3> QED BY <2>1, <2>2 DEF Leads
    <2>5. y \in Int
        <3> HIDE DEF t
        <3> QED BY <2>3 DEF Leads, Shaped, Least
    <2>6. Leads(t, m)
        <3> HIDE DEF t, y
        <3> QED BY <2>3, <2>5, CursorMoves DEF Leads
    <2>7. Leads(m, [m EXCEPT !.savedY = y])
        <3> HIDE DEF m, y
        <3> QED BY <2>5, <2>6, Redrawn DEF Leads
    <2>8. buf' = R(buf) \/ buf' = [m EXCEPT !.savedY = y]
        BY <1>2 DEF MainScreen, Becomes
    <2>9. Leads(buf, R(buf))
        BY <2>1
    <2> HIDE DEF R, e, t, m, y
    <2> QED BY <2>2, <2>3, <2>6, <2>7, <2>8, <2>9, LeadsOn
<1> QED BY <1>1, <1>2

LEMMA StepLands ==
    ASSUME Shaped(buf), [Next]_vars
    PROVE  Leads(buf, buf') \/ (ChangeWin /\ Shaped(buf'))
<1> USE BufferAssumption
<1>0. Leads(buf, buf) /\ 0 \in Int /\ 1 \in Int
    BY DEF Leads
<1>1. CASE Put
    <2>1. SamePlace(buf, buf')
        BY <1>1 DEF Put, Shaped, SamePlace, Fields
    <2> QED BY <2>1, PlaceKept
<1>2. CASE LineFeed
    <2>1. buf.y + 1 \in Int
        BY DEF Shaped
    <2>2. \/ buf' = BuffScrollNLines(buf, 1) \/ buf' = MoveCursor(buf, buf.y + 1) \/ buf' = buf
        BY <1>2 DEF LineFeed, Becomes
    <2> QED BY <1>0, <2>1, <2>2, ScrollsLand, CursorMoves
<1>3. CASE CursorUpWithScroll
    <2>1. buf.y - 1 \in Int
        BY DEF Shaped
    <2>2. \/ buf' = ShiftDown(buf, buf.top, buf.bottom, 1) \/ buf' = MoveCursor(buf, buf.y - 1) \/ buf' = buf
        BY <1>3 DEF CursorUpWithScroll, Becomes
    <2>3. Leads(buf, ShiftDown(buf, buf.top, buf.bottom, 1)) /\ Leads(buf, MoveCursor(buf, buf.y - 1))
        BY <2>1, Redrawn, CursorMoves
    <2> QED BY <1>0, <2>2, <2>3
<1>4. CASE CSMoveToXY
    BY <1>4, CursorMoves DEF CSMoveToXY, Becomes
<1>5. CASE CSInsertLine \/ CSDeleteNLines \/ CSScrollDown
    <2>1. PICK first, last, k : buf' = ShiftUp(buf, first, last, k) \/ buf' = ShiftDown(buf, first, last, k)
        BY <1>5 DEF CSInsertLine, CSDeleteNLines, CSScrollDown, Becomes
    <2>2. Leads(buf, ShiftUp(buf, first, last, k)) /\ Leads(buf, ShiftDown(buf, first, last, k))
        BY Redrawn
    <2> QED BY <2>1, <2>2
<1>6. CASE CSScrollUp
    <2>1. PICK k \in Counts : buf' = BuffRegionScrollUpNLines(buf, k)
        BY <1>6 DEF CSScrollUp, Becomes
    <2>2. k \in Int
        OBVIOUS
    <2> QED BY <2>1, <2>2, ScrollsLand
<1>7. CASE CSSetScrollRegion \/ CSSetLRScrollRegion
    <2>1. PICK top, bottom, lr, c :
             /\ c = [buf EXCEPT !.top = top, !.bottom = bottom] \/ c = [buf EXCEPT !.lr = lr]
             /\ buf' = c \/ buf' = MoveCursor(c, 0)
        BY <1>7 DEF CSSetScrollRegion, CSSetLRScrollRegion, Becomes
    <2>2. /\ Leads(buf, [buf EXCEPT !.top = top, !.bottom = bottom])
          /\ Leads(buf, [buf EXCEPT !.lr = lr])
        BY Redrawn
    <2>4. Leads(buf, c)
        BY <2>1, <2>2
    <2>3. Leads(c, MoveCursor(c, 0))
        BY <1>0, <2>4, CursorMoves DEF Leads
    <2> QED BY <2>1, <2>3, <2>4, LeadsOn
<1>8. CASE CSScreenErase
    BY <1>0, <1>8, ScrollsLand, ResetLands DEF CSScreenErase, Becomes
<1>9. CASE AlternateScreen \/ MainScreen
    BY <1>9, SwitchLands
<1>10. CASE ChangeTerminalSize
    <2>1. PICK h \in Heights : buf' = BuffChangeTerminalSize(buf, h)
        BY <1>10 DEF ChangeTerminalSize, Becomes
    <2>2. h \in Nat \ {0}
        OBVIOUS
    <2> QED BY <2>1, <2>2, ResizeLands
<1>11. CASE HardwareReset \/ OnControlResetTerminal
    <2>1. Leads(buf, BuffReset(buf)) /\ Leads(BuffReset(buf), ClearBuffer(BuffReset(buf)))
        BY ResetLands DEF Leads
    <2> QED BY <1>11, <2>1, LeadsOn DEF HardwareReset, OnControlResetTerminal, Becomes
<1>12. CASE ChangeWin
    <2>1. PICK size \in ScrollSizes : buf' = [ChangeBuffer(buf, Most(size, buf.lines)) EXCEPT !.size = Most(size, buf.lines)]
        BY <1>12 DEF ChangeWin, Becomes
    <2> DEFINE n == Most(size, buf.lines)
               c == ChangeBuffer(buf, n)
    <2>2. n \in Nat \ {0}
        BY DEF Shaped, Most
    <2>3. Shaped(c)
        BY <2>2, BufferLands
    <2> HIDE DEF n, c
    <2>4. buf' = [c EXCEPT !.size = n]
        BY <2>1 DEF n, c
    <2>5. Shaped(buf')
        BY <2>2, <2>3, <2>4 DEF Shaped, Fields
    <2> QED BY <1>12, <2>5
<1>13. CASE UNCHANGED vars
    BY <1>0, <1>13 DEF vars
<1> QED
    BY <1>1, <1>2, <1>3, <1>4, <1>5, <1>6, <1>7, <1>8, <1>9, <1>10, <1>11, <1>12, <1>13 DEF Next

\* LinePtr stays at the cursor's line through every function but the setup dialog, with or
\* without the page cleared on a resize: what is written goes to where the cursor is.
THEOREM WritesWhereCursorIs == Spec => OnlySetupMisleads
<1>1. Init => Shaped(buf)
    BY InitShaped
<1>2. Shaped(buf) /\ [Next]_vars => Shaped(buf)'
    BY StepLands DEF Leads
<1>3. Shaped(buf) /\ [Next]_vars => [PtrRight => PtrRight' \/ ChangeWin]_vars
    BY StepLands DEF Leads, Right, PtrRight
<1> QED
    BY <1>1, <1>2, <1>3, PTL DEF Spec, OnlySetupMisleads

-----------------------------------------------------------------------------
(* Addresses.  The lines of the ring are numbered from the oldest on; those  *)
(* that a scroll brings have the numbers after the last one.                 *)

LEMMA Wraps ==
    ASSUME NEW n \in Nat \ {0}, NEW x \in Nat
    PROVE  /\ x < n => x % n = x
           /\ x >= n /\ x < n + n => x % n = x - n
           /\ x >= n + n /\ x < n + n + n => x % n = x - n - n
OBVIOUS

Circular(b) == b.n \in Nat \ {0} /\ b.start \in Nat /\ b.start < b.n
Numbers(b) == 0..(b.n + b.n - 1)

LEMMA AddressIs ==
    ASSUME NEW b, Circular(b), NEW v \in Numbers(b)
    PROVE  /\ Addr(b, v) \in 0..(b.n - 1)
           /\ b.start + v < b.n => Addr(b, v) = b.start + v
           /\ b.start + v >= b.n /\ b.start + v < b.n + b.n => Addr(b, v) = b.start + v - b.n
           /\ b.start + v >= b.n + b.n => Addr(b, v) = b.start + v - b.n - b.n
<1>1. PICK n \in Nat \ {0}, x \in Nat : n = b.n /\ x = b.start + v
    BY DEF Circular, Numbers
<1>2. x < n + n + n
    BY <1>1 DEF Circular, Numbers
<1>3. PICK a : a = Addr(b, v) /\ a = x % n
    BY <1>1 DEF Addr
<1>4. /\ x < n => a = x
      /\ x >= n /\ x < n + n => a = x - n
      /\ x >= n + n /\ x < n + n + n => a = x - n - n
    BY <1>3, Wraps
<1>5. a \in 0..(n - 1)
    BY <1>2, <1>4
<1>6. b.n = n /\ b.start + v = x /\ Addr(b, v) = a
    BY <1>1, <1>3
<1> QED BY <1>2, <1>4, <1>5, <1>6 DEF Circular, Numbers

\* Less than a turn apart, two lines have two addresses.
LEMMA Apart ==
    ASSUME NEW b, Circular(b), NEW u \in Numbers(b), NEW v \in Numbers(b), u < v, v - u < b.n
    PROVE  Addr(b, u) # Addr(b, v)
<1>1. /\ b.start + u < b.n => Addr(b, u) = b.start + u
      /\ b.start + u >= b.n /\ b.start + u < b.n + b.n => Addr(b, u) = b.start + u - b.n
      /\ b.start + u >= b.n + b.n => Addr(b, u) = b.start + u - b.n - b.n
    BY AddressIs
<1>2. /\ b.start + v < b.n => Addr(b, v) = b.start + v
      /\ b.start + v >= b.n /\ b.start + v < b.n + b.n => Addr(b, v) = b.start + v - b.n
      /\ b.start + v >= b.n + b.n => Addr(b, v) = b.start + v - b.n - b.n
    BY AddressIs
<1> DEFINE n == b.n
           s == b.start
           p == Addr(b, u)
           q == Addr(b, v)
<1>3. n \in Nat \ {0} /\ s \in Nat /\ s < n /\ u \in Nat /\ v \in Nat /\ u < v /\ v - u < n
    BY DEF Circular, Numbers
<1> HIDE DEF n, s, p, q
<1>4. /\ s + u < n => p = s + u
      /\ s + u >= n /\ s + u < n + n => p = s + u - n
      /\ s + u >= n + n => p = s + u - n - n
    BY <1>1 DEF n, s, p
<1>5. /\ s + v < n => q = s + v
      /\ s + v >= n /\ s + v < n + n => q = s + v - n
      /\ s + v >= n + n => q = s + v - n - n
    BY <1>2 DEF n, s, q
<1>6. p # q
    BY <1>3, <1>4, <1>5
<1> QED BY <1>6 DEF p, q

LEMMA OneLine ==
    ASSUME NEW b, Circular(b), NEW u \in Numbers(b), NEW v \in Numbers(b),
           u - v < b.n, v - u < b.n, Addr(b, u) = Addr(b, v)
    PROVE  u = v
<1>1. u \in Int /\ v \in Int
    BY DEF Numbers
<1>2. ~(u < v) /\ ~(v < u)
    BY Apart
<1> QED BY <1>1, <1>2

-----------------------------------------------------------------------------
(* Induction over a set of numbers, which needs no operator.                *)

LEMMA HasLeast ==
    ASSUME NEW S \in SUBSET Nat, S # {}
    PROVE  \E x \in S : \A y \in S : x <= y
<1> DEFINE less == {p \in Nat \X Nat : p[1] < p[2]}
<1>1. IsWellFoundedOn(less, Nat)
    BY NatLessThanWellFounded DEF OpToRel
<1>2. PICK x \in S : \A y \in S : ~ (<<y, x>> \in less)
    BY <1>1, WFMin
<1>3. ASSUME NEW y \in S PROVE x <= y
    <2>1. x \in Nat /\ y \in Nat /\ ~ (<<y, x>> \in less)
        BY <1>2
    <2>2. y < x => <<y, x>> \in less
        BY <2>1
    <2> QED BY <2>1, <2>2
<1> QED BY <1>3

LEMMA Climbs ==
    ASSUME NEW S, NEW m \in Nat, 0 \in S, \A i \in 0..m : i \in S /\ i < m => i + 1 \in S
    PROVE  \A i \in 0..m : i \in S
<1> DEFINE F == {i \in 0..m : i \notin S}
<1>1. CASE F = {}
    BY <1>1
<1>2. CASE F # {}
    <2>1. F \in SUBSET Nat
        OBVIOUS
    <2> HIDE DEF F
    <2>2. PICK x \in F : \A y \in F : x <= y
        BY <1>2, <2>1, HasLeast
    <2>3. x \in 0..m /\ x \notin S
        BY DEF F
    <2>4. x # 0
        BY <2>3
    <2>5. x - 1 \in 0..m /\ x - 1 < x /\ x - 1 < m /\ (x - 1) + 1 = x
        BY <2>3, <2>4
    <2>6. x - 1 \notin F
        BY <2>2, <2>3, <2>5
    <2>7. x - 1 \in S
        BY <2>5, <2>6 DEF F
    <2> QED BY <2>3, <2>5, <2>7
<1> QED BY <1>1, <1>2

-----------------------------------------------------------------------------
(* The lines below a region, moved one after the other.                     *)

\* Where the i-th line from the page's end is, and the ring after each of m moves.
Place(b, i) == Addr(b, b.page + b.lines - i)
Moves(b, k, m, f) ==
    f = [i \in 0..m |-> IF i = 0 THEN b.rows ELSE Moved(f[i - 1], Place(b, i - k), Place(b, i))]

LEMMA CanMove ==
    ASSUME NEW b, NEW k \in Int, NEW m \in Nat
    PROVE  \E f : Moves(b, k, m, f)
<1> DEFINE S == {j \in 0..m : \E f : Moves(b, k, j, f)}
<1>1. 0 \in S
    <2> DEFINE f == [i \in 0..0 |-> b.rows]
    <2>1. Moves(b, k, 0, f)
        <3>1. ASSUME NEW i \in 0..0
              PROVE  b.rows = IF i = 0 THEN b.rows ELSE Moved(f[i - 1], Place(b, i - k), Place(b, i))
            OBVIOUS
        <3> QED BY <3>1 DEF Moves
    <2> QED BY <2>1
<1>2. ASSUME NEW j \in 0..m, j \in S, j < m
      PROVE  j + 1 \in S
    <2>1. PICK f : Moves(b, k, j, f)
        BY <1>2
    <2> DEFINE new == Moved(f[j], Place(b, (j + 1) - k), Place(b, j + 1))
    <2> HIDE DEF new
    <2> DEFINE g == [i \in 0..(j + 1) |-> IF i <= j THEN f[i] ELSE new]
    <2>2. ASSUME NEW i \in 0..(j + 1)
          PROVE  g[i] = IF i = 0 THEN b.rows ELSE Moved(g[i - 1], Place(b, i - k), Place(b, i))
        <3>1. \A h \in 0..j : f[h] = IF h = 0 THEN b.rows ELSE Moved(f[h - 1], Place(b, h - k), Place(b, h))
            BY <2>1 DEF Moves
        <3>2. CASE i <= j
            <4>1. g[i] = f[i] /\ (i # 0 => g[i - 1] = f[i - 1])
                BY <3>2
            <4> QED BY <3>1, <3>2, <4>1
        <3>3. CASE i = j + 1
            <4>1. g[i] = new /\ g[i - 1] = f[j] /\ i # 0
                BY <3>3
            <4> QED BY <3>3, <4>1 DEF new
        <3> QED BY <3>2, <3>3
    <2>3. Moves(b, k, j + 1, g)
        <3> DEFINE h == [i \in 0..(j + 1) |-> IF i = 0 THEN b.rows ELSE Moved(g[i - 1], Place(b, i - k), Place(b, i))]
        <3>1. g = h
            <4> HIDE DEF g
            <4>1. \A i \in 0..(j + 1) : g[i] = h[i]
                BY <2>2
            <4>2. DOMAIN g = 0..(j + 1) /\ DOMAIN h = 0..(j + 1) /\ g = [i \in 0..(j + 1) |-> g[i]]
                BY DEF g
            <4> QED BY <4>1, <4>2
        <3> HIDE DEF g
        <3> QED BY <3>1 DEF Moves
    <2> QED BY <1>2, <2>3
<1>3. m \in S
    <2> HIDE DEF S
    <2> QED BY <1>1, <1>2, Climbs
<1> QED BY <1>3

LEMMA MovesTo ==
    ASSUME NEW b, NEW k \in Int, NEW m \in Nat
    PROVE  \E f : Moves(b, k, m, f) /\ TakenAlong(b, k, m) = f[m]
<1> DEFINE rows == CHOOSE f : Moves(b, k, m, f)
<1>1. Moves(b, k, m, rows)
    BY CanMove
<1>2. TakenAlong(b, k, m) = rows[m]
    BY DEF TakenAlong, Moves, Place
<1> QED BY <1>1, <1>2

\* The v-th line of the ring.  A buffer's lines end where its page does.
At(b, v) == b.rows[Addr(b, v)]
Based(b) == /\ Circular(b) /\ DOMAIN b.rows = 0..(b.n - 1)
            /\ b.end \in Nat /\ b.end <= b.n
            /\ b.page \in Int /\ b.lines \in Int /\ b.page + b.lines = b.end

\* The lines there are room for after a scroll by k, and what they hold when i of
\* those below the region have been moved.
Window(b, k) == {v \in 0..(b.end + k - 1) : b.end + k <= v + b.n}
Carried(b, k, i, rows) ==
    /\ DOMAIN rows = 0..(b.n - 1)
    /\ \A v \in Window(b, k) :
         /\ v >= b.end + k - i => rows[Addr(b, v)] = At(b, v - k)
         /\ v >= b.end - i /\ v < b.end /\ v < b.end + k - i => rows[Addr(b, v)] = Empty
         /\ v < b.end - i => rows[Addr(b, v)] = At(b, v)

LEMMA WindowIs ==
    ASSUME NEW b, Based(b), NEW k \in Nat \ {0}, k <= b.n
    PROVE  /\ Window(b, k) \subseteq Numbers(b)
           /\ \A v \in Window(b, k) : Addr(b, v) \in 0..(b.n - 1)
           /\ \A u, v \in Window(b, k) : Addr(b, u) = Addr(b, v) => u = v
<1>1. Window(b, k) \subseteq Numbers(b)
    BY DEF Window, Numbers, Based, Circular
<1>2. \A v \in Window(b, k) : Addr(b, v) \in 0..(b.n - 1)
    BY <1>1, AddressIs DEF Based
<1>3. ASSUME NEW u \in Window(b, k), NEW v \in Window(b, k), Addr(b, u) = Addr(b, v)
      PROVE  u = v
    <2>1. u - v < b.n /\ v - u < b.n
        <3>1. PICK e, n : e = b.end /\ n = b.n
            OBVIOUS
        <3>2. e \in Nat /\ n \in Nat /\ e <= n
            BY <3>1 DEF Based, Circular
        <3>3. u \in 0..(e + k - 1) /\ e + k <= u + n /\ v \in 0..(e + k - 1) /\ e + k <= v + n
            BY <3>1 DEF Window
        <3>4. u - v < n /\ v - u < n
            BY <3>2, <3>3
        <3> QED BY <3>1, <3>4
    <2> QED BY <1>1, <1>3, <2>1, OneLine DEF Based
<1> QED BY <1>1, <1>2, <1>3

LEMMA OneMove ==
    ASSUME NEW b, Based(b), NEW k \in Nat \ {0}, NEW i \in Nat, i + 1 <= b.end, k + i + 1 <= b.n,
           NEW rows, Carried(b, k, i, rows)
    PROVE  Carried(b, k, i + 1, Moved(rows, Place(b, (i + 1) - k), Place(b, i + 1)))
<1> DEFINE src == b.end - (i + 1)
           dst == b.end - (i + 1) + k
           r == Moved(rows, Place(b, (i + 1) - k), Place(b, i + 1))
<1>1. k <= b.n /\ src \in Window(b, k) /\ dst \in Window(b, k)
    <2>1. b.n \in Nat /\ b.end \in Nat /\ b.end <= b.n
        BY DEF Based, Circular
    <2>2. k <= b.n
        BY <2>1
    <2>3. src \in 0..(b.end + k - 1) /\ b.end + k <= src + b.n
        BY <2>1
    <2>4. dst \in 0..(b.end + k - 1) /\ b.end + k <= dst + b.n
        BY <2>1
    <2> HIDE DEF src, dst
    <2> QED BY <2>2, <2>3, <2>4 DEF Window
<1>2. b.page + b.lines - (i + 1) = src /\ b.page + b.lines - ((i + 1) - k) = dst
    <2>1. PICK p, h, e : p = b.page /\ h = b.lines /\ e = b.end
        OBVIOUS
    <2>2. p \in Int /\ h \in Int /\ e \in Nat /\ p + h = e
        BY <2>1 DEF Based
    <2>3. p + h - (i + 1) = e - (i + 1) /\ p + h - ((i + 1) - k) = e - (i + 1) + k
        BY <2>2
    <2> QED BY <2>1, <2>3
<1>3. r = [rows EXCEPT ![Addr(b, dst)] = rows[Addr(b, src)], ![Addr(b, src)] = Empty]
    BY <1>2 DEF Moved, Place
<1>4. /\ \A v \in Window(b, k) : Addr(b, v) \in 0..(b.n - 1)
      /\ \A u, v \in Window(b, k) : Addr(b, u) = Addr(b, v) => u = v
    BY <1>1, WindowIs
<1>5. src # dst /\ src \in Int /\ dst \in Int
    <2>1. b.end \in Nat
        BY DEF Based
    <2> QED BY <2>1
<1>6. rows[Addr(b, src)] = At(b, src)
    <2>1. src < b.end - i
        BY DEF Based
    <2> QED BY <1>1, <2>1 DEF Carried
<1> HIDE DEF src, dst, r
<1>7. /\ DOMAIN r = 0..(b.n - 1)
      /\ \A v \in Window(b, k) :
           /\ v = dst => r[Addr(b, v)] = At(b, src)
           /\ v = src => r[Addr(b, v)] = Empty
           /\ v # src /\ v # dst => r[Addr(b, v)] = rows[Addr(b, v)]
    BY <1>1, <1>3, <1>4, <1>5, <1>6 DEF Carried
<1>8. ASSUME NEW v \in Window(b, k)
      PROVE  /\ v >= b.end + k - (i + 1) => r[Addr(b, v)] = At(b, v - k)
             /\ v >= b.end - (i + 1) /\ v < b.end /\ v < b.end + k - (i + 1) => r[Addr(b, v)] = Empty
             /\ v < b.end - (i + 1) => r[Addr(b, v)] = At(b, v)
    <2>1. v \in Nat /\ b.end \in Nat
        BY DEF Window, Based
    <2>2. CASE v = dst
        <3>1. v - k = src /\ ~(v < b.end - (i + 1)) /\ ~(v < b.end + k - (i + 1))
            BY <2>1, <2>2 DEF src, dst
        <3> QED BY <1>7, <2>2, <3>1
    <2>3. CASE v = src
        <3>1. ~(v < b.end - (i + 1)) /\ ~(v >= b.end + k - (i + 1))
            BY <2>1, <2>3 DEF src
        <3> QED BY <1>7, <2>3, <3>1
    <2>4. CASE v # src /\ v # dst
        <3>1. r[Addr(b, v)] = rows[Addr(b, v)]
            BY <1>7, <2>4
        <3>2. /\ v >= b.end + k - (i + 1) => v >= b.end + k - i
              /\ v >= b.end - (i + 1) => v >= b.end - i
              /\ v < b.end + k - (i + 1) => v < b.end + k - i
              /\ v < b.end - (i + 1) => v < b.end - i
            BY <2>1, <2>4 DEF src, dst
        <3>3. /\ v >= b.end + k - i => rows[Addr(b, v)] = At(b, v - k)
              /\ v >= b.end - i /\ v < b.end /\ v < b.end + k - i => rows[Addr(b, v)] = Empty
              /\ v < b.end - i => rows[Addr(b, v)] = At(b, v)
            BY DEF Carried
        <3> QED BY <3>1, <3>2, <3>3
    <2> QED BY <2>2, <2>3, <2>4
<1>9. Carried(b, k, i + 1, r)
    BY <1>7, <1>8 DEF Carried
<1> QED BY <1>9 DEF r

LEMMA AllMoved ==
    ASSUME NEW b, Based(b), NEW k \in Nat \ {0}, NEW m \in Nat, m <= b.end, k + m <= b.n
    PROVE  Carried(b, k, m, TakenAlong(b, k, m))
<1>1. PICK f : Moves(b, k, m, f) /\ TakenAlong(b, k, m) = f[m]
    BY MovesTo, k \in Int
<1> DEFINE S == {i \in 0..m : Carried(b, k, i, f[i])}
<1>2. \A i \in 0..m : f[i] = IF i = 0 THEN b.rows ELSE Moved(f[i - 1], Place(b, i - k), Place(b, i))
    BY <1>1 DEF Moves
<1>3. 0 \in S
    <2>1. f[0] = b.rows
        BY <1>2
    <2>2. \A v \in Window(b, k) : ~(v >= b.end + k - 0) /\ ~(v >= b.end - 0 /\ v < b.end)
        BY DEF Window, Based
    <2>3. Carried(b, k, 0, b.rows)
        BY <2>2 DEF Carried, At, Based
    <2> QED BY <2>1, <2>3
<1>4. ASSUME NEW i \in 0..m, i \in S, i < m
      PROVE  i + 1 \in S
    <2>1. i \in Nat /\ i + 1 \in 0..m /\ i + 1 # 0 /\ (i + 1) - 1 = i
        BY <1>4
    <2>2. f[i + 1] = Moved(f[i], Place(b, (i + 1) - k), Place(b, i + 1))
        BY <1>2, <2>1
    <2>3. i + 1 <= b.end /\ k + i + 1 <= b.n
        BY <1>4 DEF Based, Circular
    <2>4. Carried(b, k, i, f[i])
        BY <1>4
    <2>5. Carried(b, k, i + 1, f[i + 1])
        BY <2>1, <2>2, <2>3, <2>4, OneMove
    <2> QED BY <2>1, <2>5
<1>5. m \in S
    <2> HIDE DEF S
    <2> QED BY <1>3, <1>4, Climbs
<1> QED BY <1>1, <1>5

-----------------------------------------------------------------------------
(* A scroll: what each line is afterwards.                                  *)

\* All but the lines and where they are.
Framed(b, c) ==
    /\ DOMAIN c = Fields /\ c.n = b.n /\ c.size = b.size /\ c.lines = b.lines /\ c.y = b.y
    /\ c.top = b.top /\ c.bottom = b.bottom /\ c.lr = b.lr /\ c.saved = b.saved /\ c.alt = b.alt
    /\ c.savedY = b.savedY

\* Line v, with k blank lines before the last m and none dropped.
After(b, k, m, v) ==
    IF v < b.end - m THEN At(b, v) ELSE IF v < b.end - m + k THEN Empty ELSE At(b, v - k)
EndAfter(b, k) == IF b.end + k >= b.n THEN b.n ELSE b.end + k

Scrolled(b, c, k, m) ==
    /\ Framed(b, c) /\ Based(c) /\ c.end = EndAfter(b, k)
    /\ \A u \in 0..(c.end - 1) : At(c, u) = After(b, k, m, u + (b.end + k - c.end))

LEMMA EndIs ==
    ASSUME NEW b, Based(b), NEW k \in Nat \ {0}
    PROVE  /\ EndAfter(b, k) \in Nat /\ EndAfter(b, k) <= b.n /\ EndAfter(b, k) <= b.end + k
           /\ b.end + k >= b.n => EndAfter(b, k) = b.n
           /\ b.end + k < b.n => EndAfter(b, k) = b.end + k
BY DEF EndAfter, Based, Circular

\* The lines of a scrolled ring are those of the window.
LEMMA Slides ==
    ASSUME NEW b, Based(b), Meet(b.n, b.start, b.end, b.endAbs), NEW k \in Nat \ {0}, k <= b.n,
           NEW c, c.n = b.n, c.start \in Nat, c.start < c.n,
           c.start = IF b.end + k >= b.n THEN (IF b.endAbs + k >= b.n THEN b.endAbs + k - b.n ELSE b.endAbs + k)
                     ELSE b.start,
           NEW u \in 0..(EndAfter(b, k) - 1)
    PROVE  /\ u + (b.end + k - EndAfter(b, k)) \in Window(b, k)
           /\ Addr(c, u) = Addr(b, u + (b.end + k - EndAfter(b, k)))
<1> DEFINE v == u + (b.end + k - EndAfter(b, k))
<1>1. v \in Window(b, k)
    <2>2. PICK e, n, x : e = b.end /\ n = b.n /\ x = EndAfter(b, k)
        OBVIOUS
    <2>3. /\ e \in Nat /\ n \in Nat /\ x \in Nat /\ x <= n /\ x <= e + k
          /\ (x = n \/ x = e + k) /\ u \in 0..(x - 1)
        <3>1. /\ x \in Nat /\ x <= n /\ x <= e + k
              /\ e + k >= n => x = n
              /\ e + k < n => x = e + k
            BY <2>2, EndIs
        <3>2. e \in Nat /\ n \in Nat
            BY <2>2 DEF Based, Circular
        <3>3. u \in 0..(x - 1)
            BY <2>2
        <3> QED BY <3>1, <3>2, <3>3
    <2>4. v = u + (e + k - x)
        BY <2>2
    <2> HIDE DEF v
    <2>1. v \in 0..(b.end + k - 1) /\ b.end + k <= v + b.n
        BY <2>2, <2>3, <2>4
    <2> QED BY <2>1 DEF Window
<1>2. v \in Numbers(b)
    BY <1>1, WindowIs
<1>3. Circular(c) /\ u \in Numbers(c)
    <2>1. EndAfter(b, k) \in Nat /\ EndAfter(b, k) <= b.n
        BY EndIs
    <2> QED BY <2>1 DEF Circular, Numbers, Based
<1>4. /\ Addr(c, u) \in 0..(c.n - 1)
      /\ c.start + u < c.n => Addr(c, u) = c.start + u
      /\ c.start + u >= c.n /\ c.start + u < c.n + c.n => Addr(c, u) = c.start + u - c.n
      /\ c.start + u >= c.n + c.n => Addr(c, u) = c.start + u - c.n - c.n
    BY <1>3, AddressIs
<1>5. /\ Addr(b, v) \in 0..(b.n - 1)
      /\ b.start + v < b.n => Addr(b, v) = b.start + v
      /\ b.start + v >= b.n /\ b.start + v < b.n + b.n => Addr(b, v) = b.start + v - b.n
      /\ b.start + v >= b.n + b.n => Addr(b, v) = b.start + v - b.n - b.n
    BY <1>2, AddressIs DEF Based
<1>6. PICK n, s, e, ea, cs, q, p : /\ n = b.n /\ s = b.start /\ e = b.end /\ ea = b.endAbs /\ cs = c.start
                                   /\ q = Addr(c, u) /\ p = Addr(b, v)
    OBVIOUS
<1>7. /\ n \in Nat \ {0} /\ s \in Nat /\ e \in Nat /\ ea \in Nat /\ cs \in Nat /\ e <= n /\ s < n /\ k <= n /\ cs < n
      /\ \/ e < n /\ s = 0 /\ ea = e
         \/ e = n /\ ea = s
    BY <1>6 DEF Based, Circular, Meet
<1>8. CASE e + k >= n
    <2>1. v = u + (e + k - n) /\ u \in 0..(n - 1) /\ cs = IF ea + k >= n THEN ea + k - n ELSE ea + k
        BY <1>6, <1>8, EndIs
    <2>2. /\ q \in 0..(n - 1)
          /\ cs + u < n => q = cs + u
          /\ cs + u >= n /\ cs + u < n + n => q = cs + u - n
          /\ cs + u >= n + n => q = cs + u - n - n
        BY <1>4, <1>6
    <2>3. PICK w : w = v
        OBVIOUS
    <2>4. /\ p \in 0..(n - 1)
          /\ s + w < n => p = s + w
          /\ s + w >= n /\ s + w < n + n => p = s + w - n
          /\ s + w >= n + n => p = s + w - n - n
        BY <1>5, <1>6, <2>3
    <2>5. w = u + (e + k - n)
        BY <2>1, <2>3
    <2>6. q = p
        BY <1>7, <1>8, <2>1, <2>2, <2>4, <2>5
    <2> QED BY <1>1, <1>6, <2>6
<1>9. CASE e + k < n
    <2>2. EndAfter(b, k) = e + k
        BY <1>6, <1>9, EndIs
    <2>1. v = u /\ cs = s
        BY <1>6, <1>7, <1>9, <2>2
    <2> QED BY <1>1, <1>6, <2>1 DEF Addr
<1> QED BY <1>7, <1>8, <1>9

LEMMA ScrollIs ==
    ASSUME NEW b, DOMAIN b = Fields, Based(b), Meet(b.n, b.start, b.end, b.endAbs),
           NEW k \in Nat \ {0}, NEW bottom \in Int, NEW m \in Nat, m = b.lines - 1 - bottom,
           m <= b.end, k + m <= b.n
    PROVE  Scrolled(b, BuffScroll(b, k, bottom), k, m)
<1> DEFINE c == BuffScroll(b, k, bottom)
           moved == TakenAlong(b, k, m)
           blank == {Addr(b, b.page + b.lines - 1 + k - i) : i \in m..(k - 1)}
           rows == [a \in DOMAIN moved |-> IF a \in blank THEN Empty ELSE moved[a]]
           u == [b EXCEPT !.rows = rows]
           t == Advanced(u, k)
<1>1. k <= b.n /\ Least(k, b.n) = k
    BY DEF Least, Based, Circular
<1>2. c = NewLine(t, t.page + t.y)
    BY <1>1 DEF BuffScroll
<1>3. Carried(b, k, m, moved)
    BY AllMoved
<1>4. DOMAIN rows = 0..(b.n - 1)
    BY <1>3 DEF Carried
<1> HIDE DEF rows
<1>5. /\ DOMAIN u = Fields /\ u.rows = rows /\ u.n = b.n /\ u.end = b.end /\ u.start = b.start /\ u.endAbs = b.endAbs
      /\ Framed(b, u)
    BY DEF Fields, Framed
<1> HIDE DEF u
<1>6. /\ c.rows = rows /\ c.end = EndAfter(b, k) /\ c.page = EndAfter(b, k) - b.lines
      /\ c.start = IF b.end + k >= b.n THEN (IF b.endAbs + k >= b.n THEN b.endAbs + k - b.n ELSE b.endAbs + k)
                   ELSE b.start
      /\ Framed(b, c)
    <2>1. c = [t EXCEPT !.ptr = Addr(t, t.page + t.y)]
        BY <1>2 DEF NewLine
    <2>2. /\ DOMAIN t = Fields /\ t.rows = rows /\ t.end = EndAfter(b, k) /\ t.page = EndAfter(b, k) - b.lines
          /\ t.start = IF b.end + k >= b.n THEN (IF b.endAbs + k >= b.n THEN b.endAbs + k - b.n ELSE b.endAbs + k)
                       ELSE b.start
          /\ Framed(b, t)
        BY <1>5 DEF Advanced, EndAfter, Framed, Fields
    <2> HIDE DEF c, t
    <2> QED BY <2>1, <2>2 DEF Framed, Fields
<1> HIDE DEF c
<1>7. c.n = b.n /\ c.lines = b.lines /\ c.start \in Nat /\ c.start < c.n
    <2>1. PICK n, e, ea, s : n = b.n /\ e = b.end /\ ea = b.endAbs /\ s = b.start
        OBVIOUS
    <2>2. /\ n \in Nat \ {0} /\ e \in Nat /\ ea \in Nat /\ s \in Nat /\ s < n /\ k <= n
          /\ \/ e < n /\ ea = e
             \/ e = n /\ ea = s
        BY <1>1, <2>1 DEF Based, Circular, Meet
    <2>3. c.start = IF e + k >= n THEN (IF ea + k >= n THEN ea + k - n ELSE ea + k) ELSE s
        BY <1>6, <2>1
    <2>4. c.start \in Nat /\ c.start < n
        BY <2>2, <2>3
    <2> QED BY <1>6, <2>1, <2>4 DEF Framed
<1>8. Based(c)
    <2>1. EndAfter(b, k) \in Nat /\ EndAfter(b, k) <= b.n
        BY EndIs
    <2>2. PICK x, h : x = EndAfter(b, k) /\ h = b.lines
        OBVIOUS
    <2>3. x \in Int /\ h \in Int
        BY <2>1, <2>2 DEF Based
    <2>4. x - h \in Int /\ x - h + h = x
        BY <2>3
    <2>5. c.page \in Int /\ c.lines \in Int /\ c.page + c.lines = c.end
        BY <1>6, <1>7, <2>2, <2>3, <2>4
    <2>6. c.end \in Nat /\ c.end <= c.n /\ DOMAIN c.rows = 0..(c.n - 1)
        BY <1>4, <1>6, <1>7, <2>1
    <2>7. Circular(c)
        BY <1>7 DEF Circular, Based
    <2> QED BY <2>5, <2>6, <2>7 DEF Based
<1>9. /\ \A v \in Window(b, k) : Addr(b, v) \in 0..(b.n - 1)
      /\ \A v, w \in Window(b, k) : Addr(b, v) = Addr(b, w) => v = w
    BY <1>1, WindowIs
<1>10. ASSUME NEW v \in Window(b, k)
       PROVE  rows[Addr(b, v)] = After(b, k, m, v)
    <2>1. v \in Nat /\ v < b.end + k /\ b.end + k <= v + b.n /\ b.end \in Nat
        BY DEF Window, Based
    <2>2. Addr(b, v) \in blank <=> v >= b.end /\ v < b.end + k - m
        <3>1. ASSUME NEW i \in m..(k - 1)
              PROVE  /\ b.page + b.lines - 1 + k - i = b.end - 1 + k - i
                     /\ b.end - 1 + k - i \in Window(b, k)
            <4>1. b.end \in Nat /\ b.n \in Nat /\ i \in Nat /\ i <= k - 1 /\ i >= m
                BY DEF Based, Circular
            <4>2. b.end - 1 + k - i \in 0..(b.end + k - 1) /\ b.end + k <= (b.end - 1 + k - i) + b.n
                BY <1>1, <4>1
            <4>3. b.page + b.lines - 1 + k - i = b.end - 1 + k - i
                <5>1. PICK p, h : p = b.page /\ h = b.lines
                    OBVIOUS
                <5>2. p \in Int /\ h \in Int /\ p + h = b.end
                    BY <5>1 DEF Based
                <5> QED BY <4>1, <5>1, <5>2
            <4> QED BY <4>2, <4>3 DEF Window
        <3>2. ASSUME Addr(b, v) \in blank
              PROVE  v >= b.end /\ v < b.end + k - m
            <4>1. PICK i \in m..(k - 1) : Addr(b, v) = Addr(b, b.page + b.lines - 1 + k - i)
                BY <3>2
            <4>2. v = b.end - 1 + k - i
                BY <1>9, <3>1, <4>1
            <4> QED BY <2>1, <4>2
        <3>3. ASSUME v >= b.end, v < b.end + k - m
              PROVE  Addr(b, v) \in blank
            <4>1. b.end - 1 + k - v \in m..(k - 1) /\ b.end - 1 + k - (b.end - 1 + k - v) = v
                BY <2>1, <3>3
            <4>2. b.page + b.lines - 1 + k - (b.end - 1 + k - v) = v
                BY <3>1, <4>1
            <4> QED BY <4>1, <4>2
        <3> QED BY <3>2, <3>3
    <2>3. rows[Addr(b, v)] = IF v >= b.end /\ v < b.end + k - m THEN Empty ELSE moved[Addr(b, v)]
        BY <1>3, <1>9, <2>2 DEF rows, Carried
    <2>4. /\ v >= b.end + k - m => moved[Addr(b, v)] = At(b, v - k)
          /\ v >= b.end - m /\ v < b.end /\ v < b.end + k - m => moved[Addr(b, v)] = Empty
          /\ v < b.end - m => moved[Addr(b, v)] = At(b, v)
        BY <1>3 DEF Carried
    <2> HIDE DEF moved, blank
    <2>5. b.end - m + k = b.end + k - m
        BY <2>1
    <2> QED BY <2>1, <2>3, <2>4, <2>5 DEF After
<1>11. ASSUME NEW w \in 0..(c.end - 1)
       PROVE  At(c, w) = After(b, k, m, w + (b.end + k - c.end))
    BY <1>1, <1>6, <1>7, <1>10, <1>11, Slides DEF At
<1> QED BY <1>6, <1>8, <1>11 DEF Scrolled, c

-----------------------------------------------------------------------------
(* Sequences, position by position.                                         *)

Row(s, m) == s = [i \in 1..m |-> s[i]]

\* A sequence is one of its own elements.
LEMMA InSeq ==
    ASSUME NEW m \in Nat, NEW s, Row(s, m), NEW S, {s[i] : i \in 1..m} \subseteq S
    PROVE  s \in Seq(S) /\ Len(s) = m
<1>1. \A i \in 1..m : s[i] \in S
    OBVIOUS
<1>2. DOMAIN s = 1..m /\ s \in [1..m -> S]
    <2>1. DOMAIN [i \in 1..m |-> s[i]] = 1..m
        OBVIOUS
    <2>2. [i \in 1..m |-> s[i]] \in [1..m -> S]
        BY <1>1
    <2> QED BY <2>1, <2>2 DEF Row
<1> QED BY <1>2, SeqDef, LenProperties

LEMMA ConcatIs ==
    ASSUME NEW m \in Nat, NEW n \in Nat, NEW s, NEW t, Row(s, m), Row(t, n)
    PROVE  s \o t = [i \in 1..(m + n) |-> IF i <= m THEN s[i] ELSE t[i - m]]
<1> DEFINE S == {s[i] : i \in 1..m} \cup {t[i] : i \in 1..n}
<1>0. {s[i] : i \in 1..m} \subseteq S /\ {t[i] : i \in 1..n} \subseteq S
    OBVIOUS
<1> HIDE DEF S
<1>1. s \in Seq(S) /\ Len(s) = m
    BY <1>0, InSeq
<1>2. t \in Seq(S) /\ Len(t) = n
    BY <1>0, InSeq
<1>3. /\ s \o t \in Seq(S) /\ Len(s \o t) = m + n
      /\ \A i \in 1..(m + n) : (s \o t)[i] = IF i <= m THEN s[i] ELSE t[i - m]
    BY <1>1, <1>2, ConcatProperties
<1> DEFINE r == s \o t
<1> HIDE DEF r
<1>4. r \in Seq(S) /\ Len(r) = m + n
    BY <1>3 DEF r
<1>5. r = [i \in 1..(m + n) |-> r[i]]
    BY <1>4, LenProperties
<1>6. \A i \in 1..(m + n) : r[i] = IF i <= m THEN s[i] ELSE t[i - m]
    BY <1>3 DEF r
<1> QED BY <1>5, <1>6 DEF r

\* r is s, of m elements, followed by t, of n.
Follow(s, m, t, n, r) ==
    Row(r, m + n) /\ \A i \in 1..(m + n) : r[i] = IF i <= m THEN s[i] ELSE t[i - m]

LEMMA Joins ==
    ASSUME NEW m \in Nat, NEW n \in Nat, NEW s, NEW t, Row(s, m), Row(t, n)
    PROVE  Follow(s, m, t, n, s \o t)
<1>1. s \o t = [i \in 1..(m + n) |-> IF i <= m THEN s[i] ELSE t[i - m]]
    BY ConcatIs
<1> DEFINE r == s \o t
<1> HIDE DEF r
<1>2. r = [i \in 1..(m + n) |-> IF i <= m THEN s[i] ELSE t[i - m]]
    BY <1>1 DEF r
<1>3. Follow(s, m, t, n, r)
    BY <1>2 DEF Row, Follow
<1> QED BY <1>3 DEF r

LEMMA SubSeqIs ==
    ASSUME NEW m \in Nat, NEW s, Row(s, m), NEW a \in Nat \ {0}, NEW e \in 0..m, a <= e + 1
    PROVE  SubSeq(s, a, e) = [i \in 1..(e - a + 1) |-> s[a + i - 1]]
<1> DEFINE S == {s[i] : i \in 1..m}
<1>1. s \in Seq(S) /\ Len(s) = m
    BY InSeq
<1> HIDE DEF S
<1>2. \A i \in a..e : s[i] \in S
    BY <1>1, LenProperties
<1>3. /\ SubSeq(s, a, e) \in Seq(S) /\ Len(SubSeq(s, a, e)) = e - a + 1
      /\ \A i \in 1..(e - a + 1) : SubSeq(s, a, e)[i] = s[a + i - 1]
    BY <1>1, <1>2, SubSeqProperties
<1>4. SubSeq(s, a, e) = [i \in 1..(e - a + 1) |-> SubSeq(s, a, e)[i]]
    BY <1>3, LenProperties
<1> QED BY <1>3, <1>4

LEMMA BlankIs ==
    ASSUME NEW k \in Nat
    PROVE  /\ Text!Blank(k) = [i \in 1..k |-> Empty] /\ Row(Text!Blank(k), k)
           /\ \A i \in 1..k : Text!Blank(k)[i] = Empty
BY DEF Text!Blank, Text!Empty, Empty, Row

LEMMA LeastIs ==
    ASSUME NEW m \in Nat, NEW k \in Nat
    PROVE  /\ Least(m, k) \in Nat /\ Least(m, k) <= m /\ Least(m, k) <= k
           /\ m <= k => Least(m, k) = m
           /\ k <= m => Least(m, k) = k
BY DEF Least

\* r is the last l elements of s, of m elements.
LastOf(s, m, l, r) == Row(r, l) /\ \A i \in 1..l : r[i] = s[m - l + i]

LEMMA NewestIs ==
    ASSUME NEW m \in Nat, NEW s, Row(s, m), NEW k \in Nat
    PROVE  LastOf(s, m, Least(m, k), Text!Newest(s, k))
<1> DEFINE S == {s[i] : i \in 1..m}
           a == (IF m > k THEN m - k ELSE 0) + 1
<1>1. Len(s) = m
    BY InSeq
<1>2. Text!Newest(s, k) = SubSeq(s, a, m)
    BY <1>1 DEF Text!Newest
<1>3. a \in Nat \ {0} /\ a <= m + 1 /\ m - a + 1 = Least(m, k)
    BY DEF Least
<1>4. m \in 0..m
    OBVIOUS
<1> HIDE DEF a
<1>5. SubSeq(s, a, m) = [i \in 1..(m - a + 1) |-> s[a + i - 1]]
    BY <1>3, <1>4, SubSeqIs
<1>6. ASSUME NEW i \in 1..Least(m, k)
      PROVE  a + i - 1 = m - Least(m, k) + i
    BY <1>3, LeastIs
<1>7. PICK r : r = Text!Newest(s, k)
    OBVIOUS
<1>8. r = [i \in 1..Least(m, k) |-> s[m - Least(m, k) + i]]
    BY <1>2, <1>3, <1>5, <1>6, <1>7
<1> QED BY <1>7, <1>8 DEF LastOf, Row

-----------------------------------------------------------------------------
(* The lines down to `last` leave the page.                                 *)

Views(b) == /\ b.page \in Nat /\ b.lines \in Nat \ {0} /\ b.end = b.page + b.lines

LEMMA ViewIs ==
    ASSUME NEW b, Views(b)
    PROVE  /\ Row(History(b), b.page) /\ Row(Page(b), b.lines) /\ Len(Page(b)) = b.lines
           /\ \A i \in 1..b.page : History(b)[i] = At(b, i - 1)
           /\ \A i \in 1..b.lines : Page(b)[i] = At(b, b.page + i - 1)
<1>1. Row(History(b), b.page) /\ \A i \in 1..b.page : History(b)[i] = At(b, i - 1)
    BY DEF Row, History, At
<1>2. Row(Page(b), b.lines) /\ \A i \in 1..b.lines : Page(b)[i] = At(b, b.page + i - 1)
    BY DEF Row, Page, At
<1>3. Len(Page(b)) = b.lines
    <2> DEFINE S == {Page(b)[i] : i \in 1..b.lines}
    <2>1. b.lines \in Nat /\ {Page(b)[i] : i \in 1..b.lines} \subseteq S
        BY DEF Views
    <2> HIDE DEF S
    <2> QED BY <1>2, <2>1, InSeq
<1> QED BY <1>1, <1>2, <1>3

Passing(b, last, k) ==
    History(b) \o SubSeq(Page(b), 1, last + 1) \o Text!Blank(k) \o SubSeq(Page(b), last + 2, Len(Page(b)))

LEMMA PassingIs ==
    ASSUME NEW b, Views(b), NEW k \in Nat \ {0}, NEW last \in 0..(b.lines - 1)
    PROVE  Passing(b, last, k) = [i \in 1..(b.end + k) |-> After(b, k, b.lines - 1 - last, i - 1)]
<1> DEFINE upper == SubSeq(Page(b), 1, last + 1)
           lower == SubSeq(Page(b), last + 2, b.lines)
           blank == Text!Blank(k)
           s == History(b) \o upper
           t == s \o blank
           u == t \o lower
<1>1. PICK p, h : p = b.page /\ h = b.lines /\ p \in Nat /\ h \in Nat \ {0} /\ last \in 0..(h - 1) /\ b.end = p + h
    BY DEF Views
<1>2. Passing(b, last, k) = u
    BY <1>1, ViewIs DEF Passing
<1>3. Row(Page(b), h)
    BY <1>1, ViewIs
<1>4. Row(upper, last + 1) /\ \A i \in 1..(last + 1) : upper[i] = At(b, p + i - 1)
    <2>1. last + 1 \in 0..h /\ 1 <= (last + 1) + 1 /\ 1 \in Nat \ {0} /\ h \in Nat
        BY <1>1
    <2>2. upper = [i \in 1..((last + 1) - 1 + 1) |-> Page(b)[1 + i - 1]]
        BY <1>3, <2>1, SubSeqIs
    <2>3. (last + 1) - 1 + 1 = last + 1 /\ \A i \in 1..(last + 1) : 1 + i - 1 = i /\ i \in 1..h
        BY <1>1
    <2>4. upper = [i \in 1..(last + 1) |-> Page(b)[i]]
        BY <2>2, <2>3
    <2>5. \A i \in 1..h : Page(b)[i] = At(b, p + i - 1)
        BY <1>1, ViewIs
    <2> HIDE DEF upper
    <2> QED BY <2>3, <2>4, <2>5 DEF Row
<1>5. Row(lower, h - last - 1) /\ \A i \in 1..(h - last - 1) : lower[i] = At(b, p + last + i)
    <2>1. h \in 0..h /\ last + 2 <= h + 1 /\ last + 2 \in Nat \ {0} /\ h \in Nat
        BY <1>1
    <2>2. lower = [i \in 1..(h - (last + 2) + 1) |-> Page(b)[(last + 2) + i - 1]]
        BY <1>1, <1>3, <2>1, SubSeqIs
    <2>3. h - (last + 2) + 1 = h - last - 1
          /\ \A i \in 1..(h - last - 1) : /\ (last + 2) + i - 1 = last + 1 + i /\ last + 1 + i \in 1..h
                                          /\ p + (last + 1 + i) - 1 = p + last + i
        BY <1>1
    <2>4. lower = [i \in 1..(h - last - 1) |-> Page(b)[last + 1 + i]]
        BY <2>2, <2>3
    <2>5. \A i \in 1..h : Page(b)[i] = At(b, p + i - 1)
        BY <1>1, ViewIs
    <2> HIDE DEF lower
    <2> QED BY <2>3, <2>4, <2>5 DEF Row
<1>6. Row(blank, k) /\ \A i \in 1..k : blank[i] = Empty
    BY BlankIs
<1>7. Row(History(b), p) /\ \A i \in 1..p : History(b)[i] = At(b, i - 1)
    BY <1>1, ViewIs
<1> HIDE DEF upper, lower, blank
<1>0. PICK l, r, q, w : /\ l = last + 1 /\ r = h - last - 1 /\ q = p + l /\ w = q + k
                         /\ l \in Nat /\ r \in Nat /\ q \in Nat /\ w \in Nat /\ p \in Nat /\ k \in Nat
    BY <1>1
<1>14. Row(upper, l) /\ Row(lower, r)
    BY <1>0, <1>4, <1>5
<1>8. Row(s, q) /\ \A i \in 1..q : s[i] = At(b, i - 1)
    <2>1. Row(s, q) /\ \A i \in 1..q : s[i] = IF i <= p THEN History(b)[i] ELSE upper[i - p]
        <3>1. Follow(History(b), p, upper, l, s)
            BY <1>0, <1>7, <1>14, Joins
        <3> HIDE DEF s
        <3> QED BY <1>0, <3>1 DEF Follow
    <2>2. ASSUME NEW i \in 1..q
          PROVE  (IF i <= p THEN History(b)[i] ELSE upper[i - p]) = At(b, i - 1)
        <3>1. CASE i <= p
            BY <1>0, <1>7, <3>1
        <3>2. CASE ~(i <= p)
            <4>1. i - p \in 1..(last + 1) /\ p + (i - p) - 1 = i - 1
                BY <1>0, <3>2
            <4> QED BY <1>4, <3>2, <4>1
        <3> QED BY <3>1, <3>2
    <2> QED BY <2>1, <2>2
<1> HIDE DEF s
<1>9. Row(t, w) /\ \A i \in 1..w : t[i] = IF i <= q THEN At(b, i - 1) ELSE Empty
    <2>1. Row(t, w) /\ \A i \in 1..w : t[i] = IF i <= q THEN s[i] ELSE blank[i - q]
        <3>1. Follow(s, q, blank, k, t)
            BY <1>0, <1>6, <1>8, Joins
        <3> HIDE DEF t
        <3> QED BY <1>0, <3>1 DEF Follow
    <2>2. ASSUME NEW i \in 1..w
          PROVE  (IF i <= q THEN s[i] ELSE blank[i - q]) = IF i <= q THEN At(b, i - 1) ELSE Empty
        <3>1. CASE i <= q
            BY <1>0, <1>8, <3>1
        <3>2. CASE ~(i <= q)
            <4>1. i - q \in 1..k
                BY <1>0, <3>2
            <4> QED BY <1>6, <3>2, <4>1
        <3> QED BY <3>1, <3>2
    <2> QED BY <2>1, <2>2
<1> HIDE DEF t
<1>11. b.end + k = w + r
    BY <1>0, <1>1
<1>10. Row(u, b.end + k) /\ \A i \in 1..(b.end + k) : u[i] = IF i <= w THEN t[i] ELSE lower[i - w]
    <2>1. Follow(t, w, lower, r, u)
        BY <1>0, <1>9, <1>14, Joins
    <2> HIDE DEF u
    <2> QED BY <1>0, <1>11, <2>1 DEF Follow
<1>12. ASSUME NEW i \in 1..(b.end + k)
       PROVE  u[i] = After(b, k, b.lines - 1 - last, i - 1)
    <2>1. /\ b.end - (b.lines - 1 - last) = q /\ b.end - (b.lines - 1 - last) + k = w
          /\ i \in Nat /\ i <= w + r /\ w = q + k
        BY <1>0, <1>1
    <2>2. After(b, k, b.lines - 1 - last, i - 1) =
            IF i - 1 < q THEN At(b, i - 1) ELSE IF i - 1 < w THEN Empty ELSE At(b, i - 1 - k)
        BY <2>1 DEF After
    <2>3. CASE i <= w
        <3>1. i \in 1..w /\ (i <= q <=> i - 1 < q) /\ i - 1 < w
            BY <1>0, <2>1, <2>3
        <3> QED BY <1>9, <1>10, <2>2, <2>3, <3>1
    <2>4. CASE ~(i <= w)
        <3>1. /\ i - w \in 1..(h - last - 1) /\ p + last + (i - w) = i - 1 - k
              /\ ~(i - 1 < q) /\ ~(i - 1 < w)
            BY <1>0, <1>1, <2>1, <2>4
        <3> QED BY <1>5, <1>10, <2>2, <2>4, <3>1
    <2> QED BY <2>3, <2>4
<1> HIDE DEF u
<1>13. u = [i \in 1..(b.end + k) |-> After(b, k, b.lines - 1 - last, i - 1)]
    BY <1>10, <1>12 DEF Row
<1> QED BY <1>2, <1>13

LeftTop(b, c, last, k) ==
    /\ Page(c) = Text!Newest(Passing(b, last, k), Len(Page(b)))
    /\ History(c) = Text!Newest(SubSeq(Passing(b, last, k), 1, Len(Passing(b, last, k)) - Len(Page(b))), b.n - b.lines)

\* s is what is seen on the page, or above it.
Shows(c, h, s) == c.lines = h /\ Row(s, h) /\ \A i \in 1..h : At(c, c.page + i - 1) = s[i]
Recalls(c, p, s) == c.page = p /\ Row(s, p) /\ \A i \in 1..p : At(c, i - 1) = s[i]

LEMMA Seen ==
    ASSUME NEW c, NEW h, NEW s
    PROVE  /\ Shows(c, h, s) => Page(c) = s
           /\ Recalls(c, h, s) => History(c) = s
<1>1. ASSUME Shows(c, h, s) PROVE Page(c) = s
    <2>1. Page(c) = [i \in 1..h |-> At(c, c.page + i - 1)]
        BY <1>1 DEF Shows, Page, At
    <2>2. Page(c) = [i \in 1..h |-> s[i]]
        BY <1>1, <2>1 DEF Shows
    <2> QED BY <1>1, <2>2 DEF Shows, Row
<1>2. ASSUME Recalls(c, h, s) PROVE History(c) = s
    <2>1. History(c) = [i \in 1..h |-> At(c, i - 1)]
        BY <1>2 DEF Recalls, History, At
    <2>2. History(c) = [i \in 1..h |-> s[i]]
        BY <1>2, <2>1 DEF Recalls
    <2> QED BY <1>2, <2>2 DEF Recalls, Row
<1> QED BY <1>1, <1>2

LEMMA Leaves ==
    ASSUME NEW b, NEW c, Views(b), Based(b), NEW k \in Nat \ {0}, NEW last \in 0..(b.lines - 1),
           Scrolled(b, c, k, b.lines - 1 - last)
    PROVE  LeftTop(b, c, last, k)
<1> DEFINE all == Passing(b, last, k)
           m == b.lines - 1 - last
<1>1. PICK e, h, n, x : /\ e = b.end /\ h = b.lines /\ n = b.n /\ x = EndAfter(b, k)
    OBVIOUS
<1>2. /\ e \in Nat /\ h \in Nat \ {0} /\ n \in Nat /\ h <= e /\ e <= n
      /\ x \in Nat /\ (e + k >= n => x = n) /\ (e + k < n => x = e + k)
    <2>1. /\ x \in Nat /\ (e + k >= n => x = n) /\ (e + k < n => x = e + k)
        BY <1>1, EndIs
    <2>2. e \in Nat /\ h \in Nat \ {0} /\ n \in Nat /\ h <= e /\ e <= n
        BY <1>1 DEF Views, Based, Circular
    <2> QED BY <2>1, <2>2
<1>3. all = [i \in 1..(e + k) |-> After(b, k, m, i - 1)]
    BY <1>1, PassingIs
<1> HIDE DEF all
<1>4. Row(all, e + k) /\ \A i \in 1..(e + k) : all[i] = After(b, k, m, i - 1)
    BY <1>3 DEF Row
<1>5. Len(all) = e + k /\ Len(Page(b)) = h /\ e + k \in Nat
    <2>1. e + k \in Nat
        BY <1>2
    <2> DEFINE S == {all[i] : i \in 1..(e + k)}
    <2>2. {all[i] : i \in 1..(e + k)} \subseteq S
        OBVIOUS
    <2> HIDE DEF S
    <2>3. Len(all) = e + k
        BY <1>4, <2>1, <2>2, InSeq
    <2> QED BY <1>1, <2>1, <2>3, ViewIs
<1>6. c.n = n /\ c.lines = h /\ c.end = x /\ c.page = x - h
    <2>1. c.page \in Int /\ c.lines \in Int /\ c.page + c.lines = c.end /\ c.n = n /\ c.lines = h /\ c.end = x
        BY <1>1 DEF Scrolled, Framed, Based
    <2>2. c.page = x - h
        BY <1>2, <2>1
    <2> QED BY <2>1, <2>2
<1>7. PICK w : w = e + k /\ w \in Nat
    BY <1>5
<1>10. \A u \in 0..(x - 1) : At(c, u) = After(b, k, m, u + (w - x))
    <2>1. \A u \in 0..(c.end - 1) : At(c, u) = After(b, k, m, u + (b.end + k - c.end))
        BY DEF Scrolled
    <2>2. c.end - 1 = x - 1 /\ b.end + k - c.end = w - x
        <3>1. c.end = x /\ b.end = e
            BY <1>1, <1>6
        <3> QED BY <1>2, <1>7, <3>1
    <2> HIDE DEF m
    <2> QED BY <2>1, <2>2
<1>11. \A i \in 1..w : all[i] = After(b, k, m, i - 1)
    BY <1>4, <1>7
<1> HIDE DEF m
<1>8. Page(c) = Text!Newest(all, h)
    <2>1. PICK s : s = Text!Newest(all, h)
        OBVIOUS
    <2>2. LastOf(all, w, Least(w, h), s)
        BY <1>2, <1>4, <1>7, <2>1, NewestIs
    <2>3. Least(w, h) = h
        BY <1>2, <1>7 DEF Least
    <2>4. Row(s, h) /\ \A i \in 1..h : s[i] = all[w - h + i]
        BY <2>2, <2>3 DEF LastOf
    <2>5. ASSUME NEW i \in 1..h
          PROVE  At(c, c.page + i - 1) = s[i]
        <3>1. PICK v : v = c.page + i - 1
            OBVIOUS
        <3>2. v \in 0..(x - 1) /\ v + (w - x) = (w - h + i) - 1 /\ w - h + i \in 1..w
            BY <1>2, <1>6, <1>7, <3>1
        <3>3. At(c, v) = After(b, k, m, v + (w - x))
            BY <1>10, <3>2
        <3>4. all[w - h + i] = After(b, k, m, (w - h + i) - 1)
            BY <1>11, <3>2
        <3>5. At(c, v) = all[w - h + i]
            BY <3>2, <3>3, <3>4
        <3> QED BY <2>4, <3>1, <3>5
    <2>6. Shows(c, h, s)
        BY <1>6, <2>4, <2>5 DEF Shows
    <2> QED BY <2>1, <2>6, Seen
<1>9. History(c) = Text!Newest(SubSeq(all, 1, w - h), n - h)
    <2>1. PICK l, r, p : /\ l = w - h /\ r = n - h /\ p = x - h /\ l \in Nat /\ r \in Nat /\ p \in Nat
                         /\ l \in 0..w /\ 1 <= l + 1 /\ l - 1 + 1 = l /\ Least(l, r) = p
        BY <1>2, <1>7 DEF Least
    <2>2. PICK g : g = SubSeq(all, 1, l)
        OBVIOUS
    <2>3. Row(g, l) /\ \A i \in 1..l : g[i] = all[i]
        <3>1. 1 \in Nat \ {0} /\ Row(all, w)
            BY <1>4, <1>7
        <3>2. SubSeq(all, 1, l) = [i \in 1..(l - 1 + 1) |-> all[1 + i - 1]]
            BY <1>7, <2>1, <3>1, SubSeqIs
        <3>3. \A i \in 1..l : 1 + i - 1 = i
            BY <2>1
        <3>4. g = [i \in 1..l |-> all[i]]
            BY <2>1, <2>2, <3>2, <3>3
        <3> QED BY <3>4 DEF Row
    <2>4. PICK s : s = Text!Newest(g, r)
        OBVIOUS
    <2>5. LastOf(g, l, Least(l, r), s)
        BY <2>1, <2>3, <2>4, NewestIs
    <2>6. Row(s, p) /\ \A i \in 1..p : s[i] = g[l - p + i]
        BY <2>1, <2>5 DEF LastOf
    <2>7. ASSUME NEW i \in 1..p
          PROVE  At(c, i - 1) = s[i]
        <3>1. /\ i - 1 \in 0..(x - 1) /\ (i - 1) + (w - x) = (l - p + i) - 1
              /\ l - p + i \in 1..l /\ l - p + i \in 1..w
            BY <1>2, <1>7, <2>1
        <3>2. At(c, i - 1) = After(b, k, m, (i - 1) + (w - x))
            BY <1>10, <3>1
        <3>3. all[l - p + i] = After(b, k, m, (l - p + i) - 1)
            BY <1>11, <3>1
        <3>4. s[i] = all[l - p + i]
            BY <2>3, <2>6, <3>1
        <3>5. At(c, i - 1) = all[l - p + i]
            BY <3>1, <3>2, <3>3
        <3> QED BY <3>4, <3>5
    <2>8. Recalls(c, p, s)
        BY <1>6, <2>1, <2>6, <2>7 DEF Recalls
    <2>9. History(c) = s
        BY <2>8, Seen
    <2>10. Text!Newest(SubSeq(all, 1, l), r) = History(c)
        BY <2>2, <2>4, <2>9
    <2> QED BY <2>1, <2>10
<1> QED BY <1>1, <1>5, <1>7, <1>8, <1>9 DEF LeftTop, all

\* A page of h lines is cleared: c's page is blank, and what it has above are the last
\* lines of b that there is room for.
Cleared(b, c, h) ==
    LET p == Least(b.end, b.n - h) IN
    /\ Shows(c, h, Text!Blank(h)) /\ c.page = p
    /\ \A i \in 1..p : At(c, i - 1) = At(b, b.end - p + i - 1)

LEMMA Clears ==
    ASSUME NEW b, NEW c, Based(b), NEW h \in Nat \ {0}, b.lines = h, h <= b.n, Scrolled(b, c, h, 0)
    PROVE  Cleared(b, c, h)
<1>1. PICK e, n, x, p : /\ e = b.end /\ n = b.n /\ x = EndAfter(b, h) /\ p = Least(e, n - h)
    OBVIOUS
<1>2. /\ e \in Nat /\ n \in Nat /\ h <= n /\ e <= n
      /\ x \in Nat /\ (e + h >= n => x = n) /\ (e + h < n => x = e + h)
    <2>1. /\ x \in Nat /\ (e + h >= n => x = n) /\ (e + h < n => x = e + h)
        BY <1>1, EndIs
    <2>2. e \in Nat /\ n \in Nat /\ e <= n
        BY <1>1 DEF Based, Circular
    <2> QED BY <1>1, <2>1, <2>2
<1>3. p \in Nat /\ p = x - h /\ p <= e
    BY <1>1, <1>2 DEF Least
<1>4. c.lines = h /\ c.end = x /\ c.page = p
    <2>1. c.page \in Int /\ c.lines \in Int /\ c.page + c.lines = c.end /\ c.lines = h /\ c.end = x
        BY <1>1 DEF Scrolled, Framed, Based
    <2> QED BY <1>2, <1>3, <2>1
<1>5. \A u \in 0..(x - 1) : At(c, u) = After(b, h, 0, u + (e + h - x))
    <2>1. \A u \in 0..(c.end - 1) : At(c, u) = After(b, h, 0, u + (b.end + h - c.end))
        BY DEF Scrolled
    <2>2. c.end - 1 = x - 1 /\ b.end + h - c.end = e + h - x
        <3>1. c.end = x /\ b.end = e
            BY <1>1, <1>4
        <3> QED BY <1>2, <3>1
    <2> QED BY <2>1, <2>2
<1>6. ASSUME NEW v \in Nat
      PROVE  /\ v < e => After(b, h, 0, v) = At(b, v)
             /\ v >= e /\ v < e + h => After(b, h, 0, v) = Empty
    BY <1>1, <1>2 DEF After
<1>7. ASSUME NEW i \in 1..h
      PROVE  At(c, c.page + i - 1) = Text!Blank(h)[i]
    <2>1. PICK v : v = c.page + i - 1
        OBVIOUS
    <2>2. PICK w : w = v + (e + h - x)
        OBVIOUS
    <2>3. v \in 0..(x - 1) /\ w \in Nat /\ w >= e /\ w < e + h
        BY <1>2, <1>3, <1>4, <2>1, <2>2
    <2>4. At(c, v) = Empty
        BY <1>5, <1>6, <2>2, <2>3
    <2>5. Text!Blank(h)[i] = Empty
        BY BlankIs
    <2> QED BY <2>1, <2>4, <2>5
<1>8. Shows(c, h, Text!Blank(h))
    <2>1. Row(Text!Blank(h), h)
        BY BlankIs
    <2> QED BY <1>4, <1>7, <2>1 DEF Shows
<1>9. ASSUME NEW i \in 1..p
      PROVE  At(c, i - 1) = At(b, e - p + i - 1)
    <2>1. PICK w : w = (i - 1) + (e + h - x)
        OBVIOUS
    <2>2. i - 1 \in 0..(x - 1) /\ w \in Nat /\ w < e /\ w = e - p + i - 1
        BY <1>2, <1>3, <2>1
    <2>3. At(c, i - 1) = At(b, w)
        BY <1>5, <1>6, <2>1, <2>2
    <2> QED BY <2>2, <2>3
<1> QED BY <1>1, <1>4, <1>8, <1>9 DEF Cleared

\* All lines of b as a sequence, and the last ones of them.
LEMMA AllLines ==
    ASSUME NEW b, Views(b), NEW r \in Nat
    PROVE  LET s == Text!Newest(History(b) \o Page(b), r)
               p == Least(b.end, r)
           IN Row(s, p) /\ \A i \in 1..p : s[i] = At(b, b.end - p + i - 1)
<1> DEFINE all == History(b) \o Page(b)
<1>1. PICK q, h, e, p : /\ q = b.page /\ h = b.lines /\ e = b.end /\ p = Least(e, r)
                        /\ q \in Nat /\ h \in Nat /\ e \in Nat /\ e = q + h
    BY DEF Views
<1>2. Row(History(b), q) /\ \A i \in 1..q : History(b)[i] = At(b, i - 1)
    BY <1>1, ViewIs
<1>3. Row(Page(b), h) /\ \A i \in 1..h : Page(b)[i] = At(b, q + i - 1)
    BY <1>1, ViewIs
<1>4. Follow(History(b), q, Page(b), h, all)
    BY <1>1, <1>2, <1>3, Joins
<1> HIDE DEF all
<1>5. Row(all, e) /\ \A i \in 1..e : all[i] = At(b, i - 1)
    <2>1. Row(all, e) /\ \A i \in 1..e : all[i] = IF i <= q THEN History(b)[i] ELSE Page(b)[i - q]
        BY <1>1, <1>4 DEF Follow
    <2>2. ASSUME NEW i \in 1..e
          PROVE  all[i] = At(b, i - 1)
        <3>1. CASE i <= q
            BY <1>1, <1>2, <2>1, <3>1
        <3>2. CASE ~(i <= q)
            <4>1. i - q \in 1..h /\ q + (i - q) - 1 = i - 1
                BY <1>1, <3>2
            <4> QED BY <1>3, <2>1, <3>2, <4>1
        <3> QED BY <3>1, <3>2
    <2> QED BY <2>1, <2>2
<1>6. PICK s : s = Text!Newest(all, r)
    OBVIOUS
<1>7. Row(s, p) /\ \A i \in 1..p : s[i] = all[e - p + i]
    <2>1. LastOf(all, e, Least(e, r), s)
        BY <1>1, <1>5, <1>6, NewestIs
    <2> QED BY <1>1, <2>1 DEF LastOf
<1>8. ASSUME NEW i \in 1..p
      PROVE  s[i] = At(b, e - p + i - 1)
    <2>1. p \in Nat /\ p <= e
        BY <1>1 DEF Least
    <2>2. e - p + i \in 1..e
        BY <1>1, <2>1
    <2>3. PICK j \in Int : j = e - p + i
        BY <2>2
    <2>4. all[j] = At(b, j - 1)
        BY <1>5, <2>2, <2>3
    <2>5. s[i] = all[j]
        BY <1>7, <2>3
    <2>6. e - p + i - 1 = j - 1
        <3>1. e \in Int /\ p \in Int /\ i \in Int
            BY <1>1, <2>1
        <3> QED BY <2>3, <3>1
    <2> QED BY <2>4, <2>5, <2>6
<1> QED BY <1>1, <1>6, <1>7, <1>8 DEF all

\* A cleared page of a ring with a page before and after.
LEMMA Erased ==
    ASSUME NEW b, NEW c, Views(b), Based(b), Scrolled(b, c, b.lines, 0), b.lines <= b.n
    PROVE  /\ Page(c) = Text!Blank(b.lines)
           /\ History(c) = Text!Newest(History(b) \o Page(b), b.n - b.lines)
<1>1. b.lines \in Nat \ {0} /\ b.n - b.lines \in Nat
    BY DEF Views, Based, Circular
<1>2. Cleared(b, c, b.lines)
    BY <1>1, Clears
<1>3. PICK s, p : s = Text!Newest(History(b) \o Page(b), b.n - b.lines) /\ p = Least(b.end, b.n - b.lines)
    OBVIOUS
<1>4. Row(s, p) /\ \A i \in 1..p : s[i] = At(b, b.end - p + i - 1)
    BY <1>1, <1>3, AllLines
<1>5. Recalls(c, p, s)
    BY <1>2, <1>3, <1>4 DEF Cleared, Recalls
<1>6. Page(c) = Text!Blank(b.lines)
    BY <1>2, Seen DEF Cleared
<1> QED BY <1>3, <1>5, <1>6, Seen

-----------------------------------------------------------------------------
(* Lines that move within the page.                                         *)

LEMMA OneAddress ==
    ASSUME NEW b, Based(b)
    PROVE  /\ \A u \in 0..(b.n - 1) : Addr(b, u) \in 0..(b.n - 1)
           /\ \A u, v \in 0..(b.n - 1) : Addr(b, u) = Addr(b, v) => u = v
<1>1. \A u \in 0..(b.n - 1) : u \in Numbers(b)
    BY DEF Numbers, Based, Circular
<1>2. \A u \in 0..(b.n - 1) : Addr(b, u) \in 0..(b.n - 1)
    BY <1>1, AddressIs DEF Based
<1>3. ASSUME NEW u \in 0..(b.n - 1), NEW v \in 0..(b.n - 1), Addr(b, u) = Addr(b, v)
      PROVE  u = v
    <2>1. u - v < b.n /\ v - u < b.n
        BY DEF Based, Circular
    <2> QED BY <1>1, <1>3, <2>1, OneLine DEF Based
<1> QED BY <1>2, <1>3

\* The j-th line of the page, as seen by the lines first..last.
In(b, first, last, j) == IF j \in first..last THEN At(b, b.page + j) ELSE Empty

ShiftedPage(first, last, k, c) ==
    /\ Framed(buf, c) /\ Based(c) /\ c.page = buf.page
    /\ \A v \in 0..(buf.page - 1) : At(c, v) = At(buf, v)
    /\ \A j \in 0..(buf.lines - 1) :
          At(c, buf.page + j) = IF j \in first..last
                                  THEN Text!Over(At(buf, buf.page + j), In(buf, first, last, j + k))
                                  ELSE At(buf, buf.page + j)

LEMMA ShiftIs ==
    ASSUME Views(buf), Based(buf), DOMAIN buf = Fields, NEW first \in 0..(buf.lines - 1), NEW last \in 0..(buf.lines - 1),
           NEW k \in Int
    PROVE  ShiftedPage(first, last, k, Shifted(buf, first, last, k))
<1> DEFINE New(i) == IF i + k \in first..last THEN buf.rows[Addr(buf, buf.page + i + k)] ELSE Empty
           Of(a) == CHOOSE i \in first..last : Addr(buf, buf.page + i) = a
           rows == [a \in DOMAIN buf.rows |->
                      IF \E i \in first..last : Addr(buf, buf.page + i) = a
                        THEN IF buf.lr THEN [buf.rows[a] EXCEPT !["inside"] = New(Of(a))["inside"]] ELSE New(Of(a))
                        ELSE buf.rows[a]]
           c == Shifted(buf, first, last, k)
<1>1. c = [buf EXCEPT !.rows = rows]
    BY DEF Shifted
<1>2. /\ \A u \in 0..(buf.n - 1) : Addr(buf, u) \in 0..(buf.n - 1)
      /\ \A u, v \in 0..(buf.n - 1) : Addr(buf, u) = Addr(buf, v) => u = v
    BY OneAddress
<1>3. DOMAIN rows = 0..(buf.n - 1)
    BY DEF Based
<1> HIDE DEF rows
<1>4. /\ c.rows = rows /\ c.page = buf.page /\ c.end = buf.end /\ c.start = buf.start /\ Framed(buf, c)
    BY <1>1 DEF Fields, Framed
<1> HIDE DEF c
<1>5. Based(c)
    BY <1>3, <1>4 DEF Based, Circular, Framed
<1>6. \A v : At(c, v) = rows[Addr(buf, v)]
    BY <1>4 DEF At, Addr, Framed
<1>7. /\ buf.page \in Nat /\ buf.lines \in Nat /\ buf.n \in Nat /\ buf.page + buf.lines <= buf.n
      /\ \A v \in 0..(buf.page - 1) : v \in 0..(buf.n - 1)
      /\ \A j \in 0..(buf.lines - 1) : buf.page + j \in 0..(buf.n - 1)
    <2>1. PICK p, h, n : p = buf.page /\ h = buf.lines /\ n = buf.n
        OBVIOUS
    <2>2. p \in Nat /\ h \in Nat /\ n \in Nat /\ p + h <= n
        BY <2>1 DEF Views, Based, Circular
    <2> QED BY <2>1, <2>2
<1>8. ASSUME NEW v \in 0..(buf.page - 1)
      PROVE  At(c, v) = At(buf, v)
    <2>1. ~ \E i \in first..last : Addr(buf, buf.page + i) = Addr(buf, v)
        <3>1. ASSUME NEW i \in first..last, Addr(buf, buf.page + i) = Addr(buf, v)
              PROVE  FALSE
            <4>1. i \in 0..(buf.lines - 1) /\ i \in Nat
                BY <1>7
            <4>2. buf.page + i = v
                BY <1>2, <1>7, <3>1, <4>1
            <4> QED BY <1>7, <4>1, <4>2
        <3> QED BY <3>1
    <2>2. Addr(buf, v) \in DOMAIN buf.rows
        BY <1>2, <1>7 DEF Based
    <2>3. rows[Addr(buf, v)] = buf.rows[Addr(buf, v)]
        BY <2>1, <2>2 DEF rows
    <2> QED BY <1>6, <2>3 DEF At
<1>9. ASSUME NEW j \in 0..(buf.lines - 1)
      PROVE  At(c, buf.page + j) = IF j \in first..last
                                     THEN Text!Over(At(buf, buf.page + j), In(buf, first, last, j + k))
                                     ELSE At(buf, buf.page + j)
    <2> DEFINE a == Addr(buf, buf.page + j)
    <2>1. a \in DOMAIN buf.rows
        BY <1>2, <1>7 DEF Based
    <2>2. ASSUME NEW i \in first..last, Addr(buf, buf.page + i) = a
          PROVE  i = j
        <3>1. i \in 0..(buf.lines - 1) /\ i \in Nat /\ j \in Nat
            BY <1>7
        <3>2. buf.page + i = buf.page + j
            BY <1>2, <1>7, <2>2, <3>1
        <3> QED BY <1>7, <3>1, <3>2
    <2>3. CASE j \in first..last
        <3>1. Of(a) = j
            BY <2>2, <2>3
        <3>2. \E i \in first..last : Addr(buf, buf.page + i) = a
            BY <2>3
        <3> HIDE DEF Of, New
        <3>3. rows[a] = IF buf.lr THEN [buf.rows[a] EXCEPT !["inside"] = New(j)["inside"]] ELSE New(j)
            BY <2>1, <3>1, <3>2 DEF rows
        <3>4. New(j) = In(buf, first, last, j + k)
            <4>1. buf.page + j + k = buf.page + (j + k)
                BY <1>7
            <4> QED BY <4>1 DEF New, In, At
        <3>5. rows[a] = Text!Over(At(buf, buf.page + j), In(buf, first, last, j + k))
            BY <3>3, <3>4 DEF Text!Over, At
        <3> QED BY <1>6, <2>3, <3>5
    <2>4. CASE j \notin first..last
        <3>1. ~ \E i \in first..last : Addr(buf, buf.page + i) = a
            BY <2>2, <2>4
        <3>2. rows[a] = buf.rows[a]
            BY <2>1, <3>1 DEF rows
        <3> QED BY <1>6, <2>4, <3>2 DEF At
    <2> QED BY <2>3, <2>4
<1> QED BY <1>4, <1>5, <1>8, <1>9 DEF ShiftedPage, c

\* What the lines first..last become, one after the other.
Into(first, last, k, s) ==
    Row(s, last - first + 1)
    /\ \A j \in first..last : s[j - first + 1] = In(buf, first, last, j + k)

LEMMA ReplacedIs ==
    ASSUME Views(buf), Based(buf), NEW first \in 0..(buf.lines - 1), NEW last \in 0..(buf.lines - 1), NEW k \in Int,
           NEW c, ShiftedPage(first, last, k, c), NEW s, Into(first, last, k, s)
    PROVE  Page(c) = Text!Replaced(first, last, s) /\ History(c) = History(buf)
<1>1. PICK p, h : p = buf.page /\ h = buf.lines /\ p \in Nat /\ h \in Nat /\ first \in Nat /\ last \in Nat
    BY DEF Views
<1>2. Len(Page(buf)) = h /\ \A i \in 1..h : Page(buf)[i] = At(buf, p + i - 1)
    BY <1>1, ViewIs
<1>3. PICK r : r = Text!Replaced(first, last, s)
    OBVIOUS
<1>4. r = [i \in 1..h |-> IF i - 1 \in first..last THEN Text!Over(Page(buf)[i], s[i - first]) ELSE Page(buf)[i]]
    BY <1>2, <1>3 DEF Text!Replaced
<1>5. ASSUME NEW i \in 1..h
      PROVE  At(c, p + i - 1) = r[i]
    <2>1. PICK j : j = i - 1 /\ j \in 0..(h - 1) /\ p + j = p + i - 1 /\ j - first + 1 = i - first
        BY <1>1
    <2>2. At(c, p + j) = IF j \in first..last THEN Text!Over(At(buf, p + j), In(buf, first, last, j + k))
                         ELSE At(buf, p + j)
        BY <1>1, <2>1 DEF ShiftedPage
    <2>3. Page(buf)[i] = At(buf, p + j)
        BY <1>2, <2>1
    <2>4. CASE j \in first..last
        <3>1. s[i - first] = In(buf, first, last, j + k)
            BY <2>1, <2>4 DEF Into
        <3>2. r[i] = Text!Over(Page(buf)[i], s[i - first])
            BY <1>4, <2>1, <2>4
        <3> QED BY <2>1, <2>2, <2>3, <2>4, <3>1, <3>2
    <2>5. CASE j \notin first..last
        <3>1. r[i] = Page(buf)[i]
            BY <1>4, <2>1, <2>5
        <3> QED BY <2>1, <2>2, <2>3, <2>5, <3>1
    <2> QED BY <2>4, <2>5
<1>6. Shows(c, h, r)
    <2>1. Row(r, h)
        BY <1>4 DEF Row
    <2>2. c.page = p /\ c.lines = h
        BY <1>1 DEF ShiftedPage, Framed
    <2> QED BY <1>5, <2>1, <2>2 DEF Shows
<1>7. Recalls(c, p, History(buf))
    <2>1. Row(History(buf), p) /\ \A i \in 1..p : History(buf)[i] = At(buf, i - 1)
        BY <1>1, ViewIs
    <2>2. ASSUME NEW i \in 1..p
          PROVE  At(c, i - 1) = History(buf)[i]
        <3>1. i - 1 \in 0..(p - 1)
            BY <1>1
        <3> QED BY <1>1, <2>1, <3>1 DEF ShiftedPage
    <2>3. c.page = p
        BY <1>1 DEF ShiftedPage
    <2> QED BY <2>1, <2>2, <2>3 DEF Recalls
<1> QED BY <1>3, <1>6, <1>7, Seen

\* How far the lines really go.
Far(first, last, k) == IF k > last - first THEN last - first + 1 ELSE k

LEMMA UpInto ==
    ASSUME Views(buf), NEW first \in 0..(buf.lines - 1), NEW last \in 0..(buf.lines - 1), first <= last,
           NEW k \in Nat \ {0}
    PROVE  Into(first, last, k,
                SubSeq(Page(buf), first + 1 + Far(first, last, k), last + 1) \o Text!Blank(Far(first, last, k)))
<1>1. PICK p, h, f, a, l : /\ p = buf.page /\ h = buf.lines /\ f = Far(first, last, k) /\ a = first + 1 + f /\ l = last - first + 1 - f
                           /\ p \in Nat /\ h \in Nat /\ first \in Nat /\ last \in Nat /\ last < h
                           /\ f \in Nat \ {0} /\ l \in Nat /\ a \in Nat \ {0} /\ (k <= last - first => f = k)
                           /\ (k > last - first => l = 0)
    BY DEF Views, Far
<1>2. Row(Page(buf), h) /\ \A i \in 1..h : Page(buf)[i] = At(buf, p + i - 1)
    BY <1>1, ViewIs
<1>3. PICK part : part = SubSeq(Page(buf), a, last + 1)
    OBVIOUS
<1>4. Row(part, l) /\ \A i \in 1..l : part[i] = At(buf, p + first + f + i - 1)
    <2>1. PICK e : e = last + 1 /\ e \in 0..h /\ a <= e + 1 /\ e - a + 1 = l
        BY <1>1
    <2>5. part = SubSeq(Page(buf), a, e)
        BY <1>3, <2>1
    <2>2. part = [i \in 1..(e - a + 1) |-> Page(buf)[a + i - 1]]
        <3>1. h \in Nat /\ Row(Page(buf), h) /\ a \in Nat \ {0} /\ e \in 0..h /\ a <= e + 1
            BY <1>1, <1>2, <2>1
        <3>2. SubSeq(Page(buf), a, e) = [i \in 1..(e - a + 1) |-> Page(buf)[a + i - 1]]
            BY <3>1, SubSeqIs
        <3> QED BY <2>5, <3>2
    <2>3. part = [i \in 1..l |-> Page(buf)[a + i - 1]]
        BY <2>1, <2>2
    <2>4. ASSUME NEW i \in 1..l
          PROVE  part[i] = At(buf, p + first + f + i - 1)
        <3>1. a + i - 1 \in 1..h /\ p + (a + i - 1) - 1 = p + first + f + i - 1
            BY <1>1
        <3>2. part[i] = Page(buf)[a + i - 1]
            BY <2>3
        <3>3. PICK v : v = a + i - 1
            OBVIOUS
        <3>4. Page(buf)[v] = At(buf, p + v - 1)
            BY <1>2, <3>1, <3>3
        <3> QED BY <3>1, <3>2, <3>3, <3>4
    <2> QED BY <2>3, <2>4 DEF Row
<1>5. PICK blank : blank = Text!Blank(f) /\ Row(blank, f) /\ \A i \in 1..f : blank[i] = Empty
    BY <1>1, BlankIs
<1>6. PICK s : s = part \o blank
    OBVIOUS
<1>7. Follow(part, l, blank, f, s)
    BY <1>1, <1>4, <1>5, <1>6, Joins
<1>8. l + f = last - first + 1
    BY <1>1
<1>9. ASSUME NEW j \in first..last
      PROVE  s[j - first + 1] = In(buf, first, last, j + k)
    <2>1. PICK i : i = j - first + 1 /\ i \in 1..(l + f) /\ i \in Nat /\ j \in Nat /\ j = first + i - 1
        BY <1>1
    <2>2. s[i] = IF i <= l THEN part[i] ELSE blank[i - l]
        BY <1>7, <2>1 DEF Follow
    <2>3. CASE i <= l
        <3>1. k <= last - first /\ f = k /\ i \in 1..l
            BY <1>1, <2>1, <2>3
        <3>2. j + k \in first..last /\ p + (j + k) = p + first + f + i - 1
            BY <1>1, <2>1, <2>3, <3>1
        <3>3. In(buf, first, last, j + k) = At(buf, p + first + f + i - 1)
            BY <1>1, <3>2 DEF In
        <3> QED BY <1>4, <2>1, <2>2, <2>3, <3>1, <3>3
    <2>4. CASE ~(i <= l)
        <3>1. i - l \in 1..f /\ ~(j + k \in first..last)
            BY <1>1, <2>1, <2>4
        <3>2. In(buf, first, last, j + k) = Empty
            BY <3>1 DEF In
        <3> QED BY <1>5, <2>1, <2>2, <2>4, <3>1, <3>2
    <2> QED BY <2>3, <2>4
<1>10. Row(s, last - first + 1)
    BY <1>7, <1>8 DEF Follow
<1>11. Into(first, last, k, s)
    BY <1>9, <1>10 DEF Into
<1> QED BY <1>1, <1>3, <1>5, <1>6, <1>11

LEMMA DownInto ==
    ASSUME Views(buf), NEW first \in 0..(buf.lines - 1), NEW last \in 0..(buf.lines - 1), first <= last,
           NEW k \in Nat \ {0}
    PROVE  Into(first, last, -k,
                Text!Blank(Far(first, last, k)) \o SubSeq(Page(buf), first + 1, last + 1 - Far(first, last, k)))
<1>1. PICK p, h, f, e, l : /\ p = buf.page /\ h = buf.lines /\ f = Far(first, last, k) /\ e = last + 1 - f /\ l = last - first + 1 - f
                           /\ p \in Nat /\ h \in Nat /\ first \in Nat /\ last \in Nat /\ last < h
                           /\ f \in Nat \ {0} /\ l \in Nat /\ e \in Nat /\ (k <= last - first => f = k)
                           /\ (k > last - first => l = 0)
    BY DEF Views, Far
<1>2. Row(Page(buf), h) /\ \A i \in 1..h : Page(buf)[i] = At(buf, p + i - 1)
    BY <1>1, ViewIs
<1>3. PICK part : part = SubSeq(Page(buf), first + 1, e)
    OBVIOUS
<1>4. Row(part, l) /\ \A i \in 1..l : part[i] = At(buf, p + first + i - 1)
    <2>1. PICK a : a = first + 1 /\ a \in Nat \ {0} /\ e \in 0..h /\ a <= e + 1 /\ e - a + 1 = l
        BY <1>1
    <2>2. part = [i \in 1..(e - a + 1) |-> Page(buf)[a + i - 1]]
        <3>1. h \in Nat /\ Row(Page(buf), h) /\ a \in Nat \ {0} /\ e \in 0..h /\ a <= e + 1
            BY <1>1, <1>2, <2>1
        <3>2. SubSeq(Page(buf), a, e) = [i \in 1..(e - a + 1) |-> Page(buf)[a + i - 1]]
            BY <3>1, SubSeqIs
        <3> QED BY <1>3, <2>1, <3>2
    <2>3. part = [i \in 1..l |-> Page(buf)[a + i - 1]]
        BY <2>1, <2>2
    <2>4. ASSUME NEW i \in 1..l
          PROVE  part[i] = At(buf, p + first + i - 1)
        <3>1. a + i - 1 \in 1..h /\ p + (a + i - 1) - 1 = p + first + i - 1
            BY <1>1, <2>1
        <3>2. part[i] = Page(buf)[a + i - 1]
            BY <2>3
        <3>3. PICK v : v = a + i - 1
            OBVIOUS
        <3>4. Page(buf)[v] = At(buf, p + v - 1)
            BY <1>2, <3>1, <3>3
        <3> QED BY <3>1, <3>2, <3>3, <3>4
    <2> QED BY <2>3, <2>4 DEF Row
<1>5. PICK blank : blank = Text!Blank(f) /\ Row(blank, f) /\ \A i \in 1..f : blank[i] = Empty
    BY <1>1, BlankIs
<1>6. PICK s : s = blank \o part
    OBVIOUS
<1>7. Follow(blank, f, part, l, s)
    BY <1>1, <1>4, <1>5, <1>6, Joins
<1>8. f + l = last - first + 1
    BY <1>1
<1>9. ASSUME NEW j \in first..last
      PROVE  s[j - first + 1] = In(buf, first, last, j + (-k))
    <2>1. PICK i : i = j - first + 1 /\ i \in 1..(f + l) /\ i \in Nat /\ j \in Nat /\ j = first + i - 1
        BY <1>1
    <2>2. s[i] = IF i <= f THEN blank[i] ELSE part[i - f]
        BY <1>7, <2>1 DEF Follow
    <2>3. CASE i <= f
        <3>1. i \in 1..f /\ ~(j + (-k) \in first..last)
            BY <1>1, <2>1, <2>3
        <3>2. In(buf, first, last, j + (-k)) = Empty
            BY <3>1 DEF In
        <3> QED BY <1>5, <2>1, <2>2, <2>3, <3>1, <3>2
    <2>4. CASE ~(i <= f)
        <3>1. k <= last - first /\ f = k /\ i - f \in 1..l
            BY <1>1, <2>1, <2>4
        <3>2. j + (-k) \in first..last /\ p + (j + (-k)) = p + first + (i - f) - 1
            BY <1>1, <2>1, <2>4, <3>1
        <3>3. In(buf, first, last, j + (-k)) = At(buf, p + first + (i - f) - 1)
            BY <1>1, <3>2 DEF In
        <3> QED BY <1>4, <2>1, <2>2, <2>4, <3>1, <3>3
    <2> QED BY <2>3, <2>4
<1>10. Row(s, last - first + 1)
    BY <1>7, <1>8 DEF Follow
<1>11. Into(first, last, -k, s)
    BY <1>9, <1>10 DEF Into
<1> QED BY <1>1, <1>3, <1>5, <1>6, <1>11

\* A shift of lines is what the text's operators say, and moves nothing else.
LEMMA Shifts ==
    ASSUME Views(buf), Based(buf), DOMAIN buf = Fields, NEW first \in 0..(buf.lines - 1), NEW last \in 0..(buf.lines - 1),
           first <= last, NEW k \in Nat \ {0}
    PROVE  LET up == ShiftUp(buf, first, last, k)
               down == ShiftDown(buf, first, last, k)
               f == Far(first, last, k)
           IN /\ Page(up) = Text!Up(first, last, f) /\ History(up) = History(buf) /\ Framed(buf, up)
              /\ Page(down) = Text!Down(first, last, f) /\ History(down) = History(buf) /\ Framed(buf, down)
<1> DEFINE up == ShiftUp(buf, first, last, k)
           down == ShiftDown(buf, first, last, k)
           s == SubSeq(Page(buf), first + 1 + Far(first, last, k), last + 1) \o Text!Blank(Far(first, last, k))
           t == Text!Blank(Far(first, last, k)) \o SubSeq(Page(buf), first + 1, last + 1 - Far(first, last, k))
<1>1. Into(first, last, k, s)
    BY UpInto
<1>2. Into(first, last, -k, t)
    BY DownInto
<1>3. k \in Int /\ -k \in Int
    OBVIOUS
<1>4. ShiftedPage(first, last, k, up)
    BY <1>3, ShiftIs DEF ShiftUp
<1>5. ShiftedPage(first, last, -k, down)
    BY <1>3, ShiftIs DEF ShiftDown
<1>6. Text!Up(first, last, Far(first, last, k)) = Text!Replaced(first, last, s)
    BY DEF Text!Up
<1>7. Text!Down(first, last, Far(first, last, k)) = Text!Replaced(first, last, t)
    BY DEF Text!Down
<1> HIDE DEF s, t, up, down
<1>8. Page(up) = Text!Replaced(first, last, s) /\ History(up) = History(buf)
    BY <1>1, <1>3, <1>4, ReplacedIs
<1>9. Page(down) = Text!Replaced(first, last, t) /\ History(down) = History(buf)
    <2>1. PICK i \in Int : i = -k
        BY <1>3
    <2>2. ShiftedPage(first, last, i, down) /\ Into(first, last, i, t)
        BY <1>2, <1>5, <2>1
    <2> QED BY <2>2, ReplacedIs
<1>10. Framed(buf, up) /\ Framed(buf, down)
    BY <1>4, <1>5 DEF ShiftedPage
<1> QED BY <1>6, <1>7, <1>8, <1>9, <1>10 DEF up, down

-----------------------------------------------------------------------------
(* Other buffers, and what is kept of the page.                             *)

\* Nothing moves: the same lines are at the same places.
SameLines(b, c) ==
    /\ c.rows = b.rows /\ c.n = b.n /\ c.start = b.start /\ c.end = b.end /\ c.page = b.page /\ c.lines = b.lines

LEMMA SameText ==
    ASSUME NEW b, NEW c, SameLines(b, c)
    PROVE  /\ Page(c) = Page(b) /\ History(c) = History(b)
           /\ \A v : At(c, v) = At(b, v)
           /\ Based(b) => Based(c)
BY DEF SameLines, Page, History, At, Addr, Based, Circular

LEMMA ChangedIs ==
    ASSUME NEW b, DOMAIN b = Fields, Based(b), NEW n \in Nat \ {0}
    PROVE  LET c == ChangeBuffer(b, n)
               copied == Least(b.end, n)
           IN /\ DOMAIN c = Fields /\ Based(c) /\ c.n = n /\ c.start = 0 /\ c.end = copied
              /\ c.lines = b.lines /\ c.page = copied - b.lines
              /\ c.size = b.size /\ c.y = b.y /\ c.top = b.top /\ c.bottom = b.bottom /\ c.lr = b.lr
              /\ c.saved = b.saved /\ c.alt = b.alt /\ c.savedY = b.savedY
              /\ \A v \in 0..(copied - 1) : At(c, v) = At(b, b.end - copied + v)
<1> DEFINE c == ChangeBuffer(b, n)
<1>0. PICK copied : copied = Least(b.end, n)
    OBVIOUS
<1> DEFINE rows == [a \in 0..(n - 1) |-> IF a < copied THEN b.rows[Addr(b, b.end - copied + a)] ELSE Empty]
<1>1. copied \in Nat /\ copied <= n
    BY <1>0 DEF Based, Least
<1>2. /\ DOMAIN c = Fields /\ c.rows = rows /\ c.n = n /\ c.start = 0 /\ c.end = copied
      /\ c.lines = b.lines /\ c.page = copied - b.lines
      /\ c.size = b.size /\ c.y = b.y /\ c.top = b.top /\ c.bottom = b.bottom /\ c.lr = b.lr
      /\ c.saved = b.saved /\ c.alt = b.alt /\ c.savedY = b.savedY
    BY <1>0 DEF ChangeBuffer, Fields
<1> HIDE DEF c
<1>3. Based(c)
    <2>1. DOMAIN c.rows = 0..(n - 1)
        BY <1>2
    <2>2. c.page \in Int /\ c.page + c.lines = c.end /\ c.lines \in Int
        BY <1>1, <1>2 DEF Based
    <2> HIDE DEF rows
    <2> QED BY <1>1, <1>2, <2>1, <2>2 DEF Based, Circular
<1>4. ASSUME NEW v \in 0..(copied - 1)
      PROVE  At(c, v) = At(b, b.end - copied + v)
    <2>1. v \in Nat /\ v < n /\ v < copied /\ v \in 0..(n - 1)
        BY <1>1
    <2>2. Addr(c, v) = v
        <3>1. 0 + v = v /\ v % n = v
            BY <2>1, Remainder
        <3> QED BY <1>2, <3>1 DEF Addr
    <2> QED BY <1>2, <2>1, <2>2 DEF At
<1> QED BY <1>0, <1>2, <1>3, <1>4 DEF c

\* The page that was kept comes back, as much of it as there is room for.
LEMMA RestoredIs ==
    ASSUME NEW b, DOMAIN b = Fields, Views(b), Based(b), NEW m \in Nat, Row(b.saved, m)
    PROVE  LET c == BuffRestoreScreen(b) IN
           /\ DOMAIN c = Fields /\ Based(c) /\ c.saved = <<>>
           /\ c.n = b.n /\ c.size = b.size /\ c.lines = b.lines /\ c.page = b.page /\ c.y = b.y /\ c.top = b.top
           /\ c.bottom = b.bottom /\ c.lr = b.lr /\ c.savedY = b.savedY
           /\ \A i \in 1..b.page : At(c, i - 1) = At(b, i - 1)
           /\ \A i \in 1..b.lines : At(c, b.page + i - 1) = IF i <= m THEN b.saved[i] ELSE At(b, b.page + i - 1)
<1> DEFINE c == BuffRestoreScreen(b)
<1>0. PICK copied : copied = Least(Len(b.saved), b.lines)
    OBVIOUS
<1> DEFINE Of(a) == CHOOSE i \in 1..copied : Addr(b, b.page + i - 1) = a
           rows == [a \in DOMAIN b.rows |->
                       IF \E i \in 1..copied : Addr(b, b.page + i - 1) = a THEN b.saved[Of(a)] ELSE b.rows[a]]
<1>1. PICK p, h : p = b.page /\ h = b.lines /\ p \in Nat /\ h \in Nat /\ p + h <= b.n /\ b.n \in Nat
    BY DEF Views, Based, Circular
<1>2. copied = Least(m, h) /\ copied \in Nat /\ copied <= h /\ copied <= m
    <2> DEFINE S == {b.saved[i] : i \in 1..m}
    <2>1. {b.saved[i] : i \in 1..m} \subseteq S
        OBVIOUS
    <2> HIDE DEF S
    <2>2. Len(b.saved) = m
        BY <2>1, InSeq
    <2> QED BY <1>0, <1>1, <2>2, LeastIs
<1>3. c = [b EXCEPT !.rows = rows, !.saved = <<>>]
    BY <1>0 DEF BuffRestoreScreen
<1>4. DOMAIN rows = 0..(b.n - 1)
    BY DEF Based
<1> HIDE DEF rows
<1>5. /\ DOMAIN c = Fields /\ c.rows = rows /\ c.saved = <<>> /\ c.start = b.start /\ c.end = b.end
      /\ c.n = b.n /\ c.size = b.size /\ c.lines = b.lines /\ c.page = b.page /\ c.y = b.y /\ c.top = b.top
      /\ c.bottom = b.bottom /\ c.lr = b.lr /\ c.savedY = b.savedY
    BY <1>3 DEF Fields
<1> HIDE DEF c
<1>6. Based(c)
    BY <1>4, <1>5 DEF Based, Circular
<1>7. \A v : At(c, v) = rows[Addr(b, v)]
    BY <1>5 DEF At, Addr
<1>8. /\ \A u \in 0..(b.n - 1) : Addr(b, u) \in 0..(b.n - 1)
      /\ \A u, v \in 0..(b.n - 1) : Addr(b, u) = Addr(b, v) => u = v
    BY OneAddress
<1>9. \A i \in 1..h : p + i - 1 \in 0..(b.n - 1)
    BY <1>1
<1>10. ASSUME NEW v \in 0..(b.n - 1), NEW i \in 1..copied, Addr(b, p + i - 1) = Addr(b, v)
       PROVE  v = p + i - 1
    <2>1. i \in 1..h
        BY <1>1, <1>2
    <2> QED BY <1>8, <1>9, <1>10, <2>1
<1>11. ASSUME NEW v \in 0..(b.n - 1), \A i \in 1..copied : v # p + i - 1
       PROVE  At(c, v) = At(b, v)
    <2>1. ~ \E i \in 1..copied : Addr(b, b.page + i - 1) = Addr(b, v)
        BY <1>1, <1>10, <1>11
    <2>2. Addr(b, v) \in DOMAIN b.rows
        BY <1>8 DEF Based
    <2>3. rows[Addr(b, v)] = b.rows[Addr(b, v)]
        BY <2>1, <2>2 DEF rows
    <2> QED BY <1>7, <2>3 DEF At
<1>12. ASSUME NEW i \in 1..p
       PROVE  At(c, i - 1) = At(b, i - 1)
    <2>1. i - 1 \in 0..(b.n - 1) /\ \A j \in 1..copied : i - 1 # p + j - 1
        BY <1>1, <1>2
    <2> QED BY <1>11, <2>1
<1>13. ASSUME NEW i \in 1..h
       PROVE  At(c, p + i - 1) = IF i <= m THEN b.saved[i] ELSE At(b, p + i - 1)
    <2>1. p + i - 1 \in 0..(b.n - 1)
        BY <1>9
    <2>2. CASE i <= copied
        <3>1. i \in 1..copied /\ i <= m
            BY <1>1, <1>2, <2>2
        <3>2. \A j \in 1..copied : Addr(b, p + j - 1) = Addr(b, p + i - 1) => j = i
            <4>1. ASSUME NEW j \in 1..copied, Addr(b, p + j - 1) = Addr(b, p + i - 1)
                  PROVE  j = i
                <5>1. p + i - 1 = p + j - 1
                    BY <1>10, <2>1, <4>1
                <5> QED BY <1>1, <1>2, <5>1
            <4> QED BY <4>1
        <3>3. Of(Addr(b, p + i - 1)) = i
            BY <1>1, <3>1, <3>2
        <3> HIDE DEF Of
        <3>4. Addr(b, p + i - 1) \in DOMAIN b.rows
            BY <1>8, <2>1 DEF Based
        <3>5. rows[Addr(b, p + i - 1)] = b.saved[i]
            BY <1>1, <3>1, <3>3, <3>4 DEF rows
        <3> QED BY <1>7, <3>1, <3>5
    <2>3. CASE ~(i <= copied)
        <3>1. ~(i <= m) /\ \A j \in 1..copied : p + i - 1 # p + j - 1
            BY <1>1, <1>2, <2>3 DEF Least
        <3>2. At(c, p + i - 1) = At(b, p + i - 1)
            BY <1>11, <2>1, <3>1
        <3> QED BY <3>1, <3>2
    <2> QED BY <2>2, <2>3
<1> QED BY <1>1, <1>5, <1>6, <1>12, <1>13 DEF c

\* The page after a change of its height, when it is cleared.
LEMMA ResizedIs ==
    ASSUME NEW b, RingInv(b), Based(b), Views(b), NEW h \in Nat \ {0}, ClearOnResize
    PROVE  LET c == BuffChangeTerminalSize(b, h) IN
           /\ Based(c) /\ c.lines = h /\ Page(c) = Text!Blank(h)
           /\ History(c) = Text!Newest(History(b) \o Page(b), c.n - h)
           /\ c.y = 0 /\ c.top = 0 /\ c.bottom = h - 1
           /\ c.saved = b.saved /\ c.alt = b.alt /\ c.savedY = b.savedY
           /\ b.size <= c.size /\ (c.n = b.n \/ b.size <= c.n)
<1> DEFINE t == Resized(b, h)
<1>1. /\ DOMAIN b = Fields /\ b.n \in Nat \ {0} /\ b.size \in Nat /\ b.end \in Nat /\ b.end <= b.n /\ b.lines <= b.end
      /\ b.lines \in Nat /\ Meet(b.n, b.start, b.end, b.endAbs)
    BY DEF RingInv, Sized
<1>2. /\ DOMAIN t = Fields /\ Based(t) /\ Meet(t.n, t.start, t.end, t.endAbs) /\ t.lines = h /\ h <= t.n
      /\ t.end = Least(b.end, t.n) /\ t.y = b.y
      /\ t.saved = b.saved /\ t.alt = b.alt /\ t.savedY = b.savedY
      /\ b.size <= t.size /\ (t.n = b.n \/ b.size <= t.n)
      /\ \A v \in 0..(t.end - 1) : At(t, v) = At(b, b.end - t.end + v)
    <2>0. PICK size : size = Most(h, b.size) /\ size \in Nat \ {0} /\ h <= size /\ b.size <= size
        BY <1>1 DEF Most
    <2>1. CASE h = b.lines
        <3>1. t = [b EXCEPT !.lines = h, !.page = b.end - h, !.size = size]
            BY <2>0, <2>1 DEF Resized
        <3> HIDE DEF t
        <3>2. /\ DOMAIN t = Fields /\ t.n = b.n /\ t.start = b.start /\ t.end = b.end /\ t.endAbs = b.endAbs
              /\ t.lines = h /\ t.page = b.end - h /\ t.size = size /\ t.rows = b.rows /\ t.y = b.y
              /\ t.saved = b.saved /\ t.alt = b.alt /\ t.savedY = b.savedY
            BY <1>1, <3>1 DEF Fields
        <3>3. b.end - h + h = b.end /\ b.end - h \in Int
            BY <1>1
        <3>4. Based(t)
            BY <1>1, <3>2, <3>3 DEF Based, Circular
        <3>5. t.end = Least(b.end, t.n)
            BY <1>1, <3>2 DEF Least
        <3>6. ASSUME NEW v \in 0..(t.end - 1)
              PROVE  At(t, v) = At(b, b.end - t.end + v)
            <4>1. b.end - t.end + v = v
                BY <1>1, <3>2
            <4> QED BY <3>2, <4>1 DEF At, Addr
        <3> QED BY <1>1, <2>0, <2>1, <3>2, <3>4, <3>5, <3>6
    <2>2. CASE h # b.lines
        <3> DEFINE d == ChangeBuffer(b, size)
        <3>1. /\ DOMAIN d = Fields /\ Based(d) /\ d.n = size /\ d.start = 0 /\ d.end = Least(b.end, size)
              /\ d.size = b.size /\ d.y = b.y /\ d.saved = b.saved /\ d.alt = b.alt /\ d.savedY = b.savedY
              /\ \A v \in 0..(Least(b.end, size) - 1) : At(d, v) = At(b, b.end - Least(b.end, size) + v)
            BY <1>1, <2>0, ChangedIs
        <3>2. Meet(d.n, d.start, d.end, d.endAbs)
            BY <2>0, Changing
        <3>3. t = [d EXCEPT !.lines = h, !.page = d.end - h, !.size = Most(h, @)]
            BY <2>0, <2>2 DEF Resized
        <3> HIDE DEF d, t
        <3>4. /\ DOMAIN t = Fields /\ t.n = d.n /\ t.start = d.start /\ t.end = d.end /\ t.endAbs = d.endAbs
              /\ t.lines = h /\ t.page = d.end - h /\ t.size = Most(h, d.size) /\ t.rows = d.rows /\ t.y = d.y
              /\ t.saved = d.saved /\ t.alt = d.alt /\ t.savedY = d.savedY
            BY <3>1, <3>3 DEF Fields
        <3>5. d.end \in Nat /\ d.end - h + h = d.end /\ d.end - h \in Int
            BY <3>1 DEF Based
        <3>6. Based(t)
            BY <3>1, <3>4, <3>5 DEF Based, Circular
        <3>7. \A v : At(t, v) = At(d, v)
            BY <3>4 DEF At, Addr
        <3> QED BY <2>0, <3>1, <3>2, <3>4, <3>6, <3>7
    <2> QED BY <2>1, <2>2
<1> HIDE DEF t
<1> DEFINE s == BuffScroll(t, h, h - 1)
<1>3. Scrolled(t, s, h, 0)
    <2>1. h - 1 \in Int /\ 0 \in Nat /\ 0 = h - 1 - (h - 1) /\ h + 0 = h
        OBVIOUS
    <2>2. 0 = t.lines - 1 - (h - 1) /\ 0 <= t.end /\ h + 0 <= t.n
        BY <1>2, <2>1 DEF Based
    <2> QED BY <1>2, <2>1, <2>2, ScrollIs
<1> HIDE DEF s
<1>4. Cleared(t, s, h)
    BY <1>2, <1>3, Clears
<1>5. /\ DOMAIN s = Fields /\ s.n = t.n /\ s.size = t.size /\ s.lines = h /\ s.y = t.y
      /\ s.saved = t.saved /\ s.alt = t.alt /\ s.savedY = t.savedY /\ Based(s)
    BY <1>2, <1>3 DEF Scrolled, Framed
<1>6. Page(s) = Text!Blank(h)
    BY <1>4, Seen DEF Cleared
<1>7. History(s) = Text!Newest(History(b) \o Page(b), t.n - h)
    <2>1. PICK r, p, e, f : r = t.n - h /\ p = Least(t.end, r) /\ e = b.end /\ f = t.end
        OBVIOUS
    <2>2. r \in Nat /\ e \in Nat /\ f \in Nat /\ p = Least(e, r) /\ p \in Nat /\ p <= f
        <3>1. t.n \in Nat /\ f \in Nat /\ f = Least(e, t.n) /\ h <= t.n /\ e \in Nat /\ f <= t.n
            BY <1>1, <1>2, <2>1 DEF Based, Circular
        <3> QED BY <2>1, <3>1 DEF Least
    <2>3. PICK all : all = Text!Newest(History(b) \o Page(b), r)
        OBVIOUS
    <2>4. Row(all, p) /\ \A i \in 1..p : all[i] = At(b, e - p + i - 1)
        BY <2>1, <2>2, <2>3, AllLines
    <2>5. s.page = p /\ \A i \in 1..p : At(s, i - 1) = At(t, f - p + i - 1)
        BY <1>4, <2>1 DEF Cleared
    <2>6. ASSUME NEW i \in 1..p
          PROVE  At(s, i - 1) = all[i]
        <3>1. PICK v \in Int : v = f - p + i - 1
            BY <2>2
        <3>2. v \in 0..(f - 1) /\ e - f + v = e - p + i - 1
            BY <2>2, <3>1
        <3>3. At(t, v) = At(b, e - f + v)
            BY <1>2, <2>1, <3>2
        <3> QED BY <2>4, <2>5, <3>1, <3>2, <3>3
    <2>7. Recalls(s, p, all)
        BY <2>4, <2>5, <2>6 DEF Recalls
    <2> QED BY <2>1, <2>3, <2>7, Seen
<1> DEFINE u == [s EXCEPT !.y = 0]
           w == [u EXCEPT !.y = Least(@, h - 1), !.top = 0, !.bottom = h - 1, !.lr = FALSE]
           c == NewLine(w, w.page + w.y)
<1>8. c = BuffChangeTerminalSize(b, h)
    BY DEF BuffChangeTerminalSize, s, t
<1>9. /\ c.rows = s.rows /\ c.n = s.n /\ c.start = s.start /\ c.end = s.end /\ c.page = s.page /\ c.lines = s.lines
      /\ c.y = 0 /\ c.top = 0 /\ c.bottom = h - 1 /\ c.saved = s.saved /\ c.alt = s.alt /\ c.savedY = s.savedY
      /\ c.size = s.size
    <2>1. Least(0, h - 1) = 0
        BY DEF Least
    <2>2. u.y = 0 /\ DOMAIN u = Fields
        BY <1>5 DEF Fields
    <2>3. /\ w.rows = s.rows /\ w.n = s.n /\ w.start = s.start /\ w.end = s.end /\ w.page = s.page /\ w.lines = s.lines
          /\ w.y = 0 /\ w.top = 0 /\ w.bottom = h - 1 /\ w.saved = s.saved /\ w.alt = s.alt /\ w.savedY = s.savedY
          /\ w.size = s.size /\ DOMAIN w = Fields
        BY <1>5, <2>1, <2>2 DEF Fields
    <2> HIDE DEF w
    <2> QED BY <2>3 DEF NewLine, Fields
<1> HIDE DEF c
<1>10. SameLines(s, c)
    BY <1>9 DEF SameLines
<1>11. Page(c) = Page(s) /\ History(c) = History(s) /\ Based(c)
    BY <1>5, <1>10, SameText
<1> QED BY <1>2, <1>5, <1>6, <1>7, <1>8, <1>9, <1>11

-----------------------------------------------------------------------------
(* The invariant.                                                           *)

\* The cursor and the region are on the page, and a page is kept while the other
\* screen is shown.  The ring has at least the lines the setup allows.
Steady(b) ==
    /\ b.lines \in Heights /\ b.y \in 0..(b.lines - 1) /\ b.savedY \in Nat
    /\ b.top \in Nat /\ b.bottom \in 0..(b.lines - 1) /\ b.top < b.bottom
    /\ b.alt \in BOOLEAN
    /\ b.alt => b.saved # <<>> /\ \E m \in Nat : Row(b.saved, m) /\ Len(b.saved) = m
    /\ ~b.alt => b.saved = <<>>
    /\ \E s \in ScrollSizes : s <= b.size /\ s <= b.n

Whole(b) == RingInv(b) /\ Based(b) /\ Steady(b)

LEMMA WholeViews ==
    ASSUME NEW b, RingInv(b), Based(b)
    PROVE  Views(b) /\ DOMAIN b = Fields /\ Meet(b.n, b.start, b.end, b.endAbs) /\ b.lines <= b.n
BY DEF RingInv, Sized, Based, Circular, Views

LEMMA FrameSteady ==
    ASSUME NEW b, NEW c, Steady(b), Framed(b, c)
    PROVE  Steady(c)
BY DEF Steady, Framed

-----------------------------------------------------------------------------
(* Every step is one of the text's.                                         *)

\* BuffScroll by k takes along the lines below the region, at most two less than the
\* page has: no scroll overwrites those it has yet to move.
InReach == \A k \in Counts, h \in Heights, s \in ScrollSizes : k + h <= Most(s, h) + 2

\* What an action is shown to do.
Fits == /\ Based(buf') /\ Steady(buf')
        /\ (Put /\ ~PtrRight) \/ Text!Next \/ UNCHANGED Text!vars

LEMMA WithinReach ==
    ASSUME NEW b, Whole(b), InReach, NEW k \in Counts \cup {1}
    PROVE  k \in Nat \ {0} /\ k + (b.lines - 1 - b.bottom) <= b.n
<1>0. PICK s \in ScrollSizes : s <= b.n
    BY DEF Whole, Steady
<1>4. PICK h, m, n, bottom : h = b.lines /\ m = b.lines - 1 - b.bottom /\ n = b.n /\ bottom = b.bottom
    OBVIOUS
<1>1. /\ h \in Heights /\ h \in Nat /\ n \in Nat /\ m \in Nat /\ m + 2 <= h /\ h <= n /\ s \in Nat /\ s <= n
    <2>1. h \in Nat /\ n \in Nat /\ h <= n
        BY <1>4 DEF Whole, RingInv, Sized
    <2>2. h \in Heights /\ bottom \in 0..(h - 1) /\ bottom # 0
        BY <1>4 DEF Whole, Steady
    <2>3. m = h - 1 - bottom
        BY <1>4
    <2>4. s \in Nat
        BY BufferAssumption
    <2> QED BY <1>0, <1>4, <2>1, <2>2, <2>3, <2>4
<1>2. CASE k = 1
    BY <1>1, <1>2, <1>4
<1>3. CASE k \in Counts
    <2>1. k \in Nat \ {0}
        BY <1>3, BufferAssumption
    <2>2. k + h <= Most(s, h) + 2
        BY <1>1, <1>3, <1>4 DEF InReach
    <2>3. Most(s, h) <= n /\ Most(s, h) \in Nat
        BY <1>1 DEF Most
    <2>4. k + m <= n
        BY <1>1, <2>1, <2>2, <2>3
    <2> QED BY <1>4, <2>1, <2>4
<1> QED BY <1>2, <1>3

\* Nothing is seen of it.
LEMMA Unseen ==
    ASSUME Whole(buf), SameLines(buf, buf'), buf'.saved = buf.saved, Steady(buf')
    PROVE  Fits
<1>1. Based(buf') /\ Page(buf') = Page(buf) /\ History(buf') = History(buf)
    BY SameText DEF Whole
<1>2. Text!Move
    BY <1>1 DEF Text!Move, Text!Same, SameLines
<1> QED BY <1>1, <1>2 DEF Fits, Text!Next

\* The page moves on.
LEMMA ScrollFits ==
    ASSUME Whole(buf), InReach, NEW k \in Counts \cup {1}, buf.top = 0, ~buf.lr,
           buf' = BuffScroll(buf, k, buf.bottom)
    PROVE  Fits
<1> DEFINE m == buf.lines - 1 - buf.bottom
<1>1. /\ k \in Nat \ {0} /\ k + m <= buf.n
    BY WithinReach
<1>2. Views(buf) /\ DOMAIN buf = Fields /\ Meet(buf.n, buf.start, buf.end, buf.endAbs) /\ Based(buf)
    BY WholeViews DEF Whole
<1>3. buf.bottom \in Int /\ m \in Nat /\ m <= buf.end /\ buf.bottom \in 0..(buf.lines - 1)
    <2>1. buf.bottom \in 0..(buf.lines - 1) /\ buf.lines \in Nat /\ buf.end \in Nat /\ buf.lines <= buf.end
        BY DEF Whole, Steady, RingInv, Sized
    <2> QED BY <2>1
<1> HIDE DEF m
<1>4. Scrolled(buf, buf', k, m)
    BY <1>1, <1>2, <1>3, ScrollIs DEF m
<1>5. LeftTop(buf, buf', buf.bottom, k)
    BY <1>1, <1>2, <1>3, <1>4, Leaves DEF m
<1>6. Framed(buf, buf') /\ Based(buf')
    BY <1>4 DEF Scrolled
<1>7. Steady(buf')
    BY <1>6, FrameSteady DEF Whole
<1>8. Text!LeaveTop(buf.bottom, k)
    BY <1>5 DEF LeftTop, Passing, Text!LeaveTop
<1>9. Text!ScrollUp(k)
    BY <1>6, <1>8 DEF Text!ScrollUp, Framed
<1> QED BY <1>6, <1>7, <1>9 DEF Fits, Text!Next

\* Lines move within the page.
LEMMA ShiftFits ==
    ASSUME Whole(buf), NEW k \in Counts \cup {1}, NEW i \in Nat \ {0},
           NEW first \in {buf.top, buf.y}, first <= buf.bottom,
           Far(first, buf.bottom, i) = Far(first, buf.bottom, k),
           \/ /\ buf' = ShiftUp(buf, first, buf.bottom, i)
              /\ (first = buf.top /\ ~(buf.top = 0 /\ ~buf.lr)) \/ (first = buf.y /\ buf.top <= buf.y)
           \/ /\ buf' = ShiftDown(buf, first, buf.bottom, i)
              /\ first = buf.top \/ (first = buf.y /\ buf.top <= buf.y)
    PROVE  Fits
<1>1. Views(buf) /\ DOMAIN buf = Fields /\ Based(buf)
    BY WholeViews DEF Whole
<1>2. /\ first \in 0..(buf.lines - 1) /\ buf.bottom \in 0..(buf.lines - 1)
      /\ buf.y \in Nat /\ buf.top \in Nat /\ buf.bottom \in Nat
    <2>1. /\ buf.y \in 0..(buf.lines - 1) /\ buf.bottom \in 0..(buf.lines - 1) /\ buf.top \in Nat /\ buf.top < buf.bottom
          /\ buf.lines \in Nat
        BY DEF Whole, Steady, RingInv, Sized
    <2> QED BY <2>1
<1> DEFINE up == ShiftUp(buf, first, buf.bottom, i)
           down == ShiftDown(buf, first, buf.bottom, i)
           f == Far(first, buf.bottom, k)
<1>3. /\ Page(up) = Text!Up(first, buf.bottom, f) /\ History(up) = History(buf) /\ Framed(buf, up)
      /\ Page(down) = Text!Down(first, buf.bottom, f) /\ History(down) = History(buf) /\ Framed(buf, down)
    BY <1>1, <1>2, Shifts
<1>4. Based(up) /\ Based(down)
    <2>1. i \in Int /\ -i \in Int
        OBVIOUS
    <2> QED BY <1>1, <1>2, <2>1, ShiftIs DEF ShiftedPage, ShiftUp, ShiftDown
<1>5. f = IF k > buf.bottom - first THEN buf.bottom - first + 1 ELSE k
    BY DEF Far
<1> HIDE DEF f, up, down
<1>6. Framed(buf, buf') /\ Based(buf') /\ History(buf') = History(buf)
    BY <1>3, <1>4 DEF up, down
<1>7. Steady(buf')
    BY <1>6, FrameSteady DEF Whole
<1>8. UNCHANGED <<History(buf), buf.y, buf.top, buf.bottom, buf.lr, buf.saved, buf.n - buf.lines>>
    BY <1>6 DEF Framed
<1>9. CASE buf' = up /\ first = buf.top /\ ~(buf.top = 0 /\ ~buf.lr)
    <2>1. Text!ScrollUp(k)
        BY <1>3, <1>5, <1>8, <1>9 DEF Text!ScrollUp
    <2> QED BY <1>6, <1>7, <2>1 DEF Fits, Text!Next
<1>10. CASE buf' = up /\ first = buf.y /\ buf.top <= buf.y
    <2>0. buf.y \in buf.top..buf.bottom
        BY <1>2, <1>10
    <2>1. Text!DeleteLines(k)
        BY <1>3, <1>5, <1>8, <1>10, <2>0 DEF Text!DeleteLines
    <2> QED BY <1>6, <1>7, <2>1 DEF Fits, Text!Next
<1>11. CASE buf' = down /\ first = buf.top
    <2>1. Text!ScrollDown(k)
        BY <1>3, <1>5, <1>8, <1>11 DEF Text!ScrollDown
    <2> QED BY <1>6, <1>7, <2>1 DEF Fits, Text!Next
<1>12. CASE buf' = down /\ first = buf.y /\ buf.top <= buf.y
    <2>0. buf.y \in buf.top..buf.bottom
        BY <1>2, <1>12
    <2>1. Text!InsertLines(k)
        BY <1>3, <1>5, <1>8, <1>12, <2>0 DEF Text!InsertLines
    <2> QED BY <1>6, <1>7, <2>1 DEF Fits, Text!Next
<1> QED BY <1>9, <1>10, <1>11, <1>12 DEF up, down

LEMMA Rewritten ==
    ASSUME NEW old, NEW p, NEW t
    PROVE  [old EXCEPT ![p] = [old EXCEPT ![p] = t][p]] = [old EXCEPT ![p] = t]
<1>1. CASE p \in DOMAIN old
    <2>1. [old EXCEPT ![p] = t][p] = t
        BY <1>1
    <2> QED BY <2>1
<1>2. CASE p \notin DOMAIN old
    <2>1. ASSUME NEW v PROVE [old EXCEPT ![p] = v] = [q \in DOMAIN old |-> old[q]]
        <3>1. \A q \in DOMAIN old : q # p
            BY <1>2
        <3>2. [old EXCEPT ![p] = v] = [q \in DOMAIN old |-> IF q = p THEN v ELSE old[q]]
            OBVIOUS
        <3> QED BY <3>1, <3>2
    <2> QED BY <2>1
<1> QED BY <1>1, <1>2

LEMMA PutFits ==
    ASSUME Whole(buf), Put
    PROVE  Fits
<1>1. PICK p, t : p \in Parts /\ buf' = [buf EXCEPT !.rows[buf.ptr][p] = t]
    BY DEF Put
<1> DEFINE new == [buf.rows[buf.ptr] EXCEPT ![p] = t]
           rows == [buf.rows EXCEPT ![buf.ptr] = new]
<1>2. buf' = [buf EXCEPT !.rows = rows]
    BY <1>1
<1>3. Views(buf) /\ DOMAIN buf = Fields /\ Based(buf)
    BY WholeViews DEF Whole
<1>4. DOMAIN rows = DOMAIN buf.rows
    OBVIOUS
<1> HIDE DEF rows
<1>5. Framed(buf, buf') /\ buf'.rows = rows /\ buf'.page = buf.page /\ buf'.start = buf.start /\ buf'.end = buf.end
    BY <1>2, <1>3 DEF Fields, Framed
<1>6. Based(buf')
    BY <1>3, <1>4, <1>5 DEF Based, Circular, Framed
<1>7. Steady(buf')
    BY <1>5, FrameSteady DEF Whole
<1>8. ASSUME PtrRight
      PROVE  Text!Text
    <2>1. PICK q, h, y, n : /\ q = buf.page /\ h = buf.lines /\ y = buf.y /\ n = buf.n
        OBVIOUS
    <2>2. q \in Nat /\ h \in Nat /\ y \in 0..(h - 1) /\ n \in Nat /\ q + h <= n
        BY <1>3, <2>1 DEF Views, Based, Circular, Whole, Steady
    <2>3. buf.ptr = Addr(buf, q + y)
        BY <1>8, <2>1 DEF PtrRight
    <2>4. /\ \A u \in 0..(n - 1) : Addr(buf, u) \in DOMAIN buf.rows
          /\ \A u, v \in 0..(n - 1) : Addr(buf, u) = Addr(buf, v) => u = v
        BY <1>3, <2>1, OneAddress DEF Based
    <2>5. ASSUME NEW u \in 0..(n - 1)
          PROVE  At(buf', u) = IF u = q + y THEN new ELSE At(buf, u)
        <3>1. At(buf', u) = rows[Addr(buf, u)]
            BY <1>5 DEF At, Addr, Framed
        <3>2. q + y \in 0..(n - 1)
            BY <2>2
        <3>3. Addr(buf, u) = buf.ptr <=> u = q + y
            BY <2>3, <2>4, <3>2
        <3> HIDE DEF new
        <3> QED BY <2>4, <3>1, <3>3 DEF rows, At
    <2>6. /\ \A i \in 1..q : At(buf', i - 1) = At(buf, i - 1)
          /\ \A i \in 1..h : At(buf', q + i - 1) = IF i = y + 1 THEN new ELSE At(buf, q + i - 1)
        <3>1. \A i \in 1..q : i - 1 \in 0..(n - 1) /\ i - 1 # q + y
            BY <2>2
        <3>2. \A i \in 1..h : q + i - 1 \in 0..(n - 1) /\ (q + i - 1 = q + y <=> i = y + 1)
            BY <2>2
        <3> HIDE DEF new
        <3> QED BY <2>5, <3>1, <3>2
    <2>7. /\ Row(Page(buf), h) /\ Len(Page(buf)) = h /\ \A i \in 1..h : Page(buf)[i] = At(buf, q + i - 1)
          /\ Row(History(buf), q) /\ \A i \in 1..q : History(buf)[i] = At(buf, i - 1)
        BY <1>3, <2>1, ViewIs
    <2>8. Views(buf')
        BY <1>3, <1>5 DEF Views, Framed
    <2>9. /\ Row(Page(buf'), h) /\ Len(Page(buf')) = h /\ \A i \in 1..h : Page(buf')[i] = At(buf', q + i - 1)
        BY <1>5, <2>1, <2>8, ViewIs DEF Framed
    <2>10. History(buf') = History(buf)
        <3>1. Recalls(buf', q, History(buf))
            BY <1>5, <2>1, <2>6, <2>7 DEF Recalls
        <3> QED BY <3>1, Seen
    <2>11. Page(buf)[y + 1] = buf.rows[buf.ptr] /\ Page(buf')[y + 1] = new /\ y + 1 \in 1..h
        <3>1. y + 1 \in 1..h /\ q + (y + 1) - 1 = q + y
            BY <2>2
        <3>2. Page(buf')[y + 1] = new
            <4> HIDE DEF new
            <4> QED BY <2>6, <2>9, <3>1
        <3>3. Page(buf)[y + 1] = At(buf, q + y)
            BY <2>7, <3>1
        <3> QED BY <2>3, <3>1, <3>2, <3>3 DEF At
    <2>12. Page(buf') = [Page(buf) EXCEPT ![y + 1] = new]
        <3> HIDE DEF new
        <3>1. \A i \in 1..h : Page(buf')[i] = IF i = y + 1 THEN new ELSE Page(buf)[i]
            BY <2>6, <2>7, <2>9
        <3>2. PICK P, Q : P = Page(buf) /\ Q = Page(buf')
            OBVIOUS
        <3>3. P = [i \in 1..h |-> P[i]] /\ Q = [i \in 1..h |-> Q[i]]
            BY <2>7, <2>9, <3>2 DEF Row
        <3>4. DOMAIN P = 1..h
            BY <3>3
        <3>5. [P EXCEPT ![y + 1] = new] = [i \in 1..h |-> IF i = y + 1 THEN new ELSE P[i]]
            BY <3>4
        <3>6. Q = [i \in 1..h |-> IF i = y + 1 THEN new ELSE P[i]]
            BY <3>1, <3>2, <3>3
        <3> QED BY <3>2, <3>5, <3>6
    <2>13. new = [Page(buf)[y + 1] EXCEPT ![p] = new[p]]
        BY <2>11, Rewritten
    <2>14. Page(buf') = [Page(buf) EXCEPT ![y + 1][p] = Page(buf')[y + 1][p]]
        <3> HIDE DEF new
        <3>1. [Page(buf) EXCEPT ![y + 1][p] = new[p]] = [Page(buf) EXCEPT ![y + 1] = [Page(buf)[y + 1] EXCEPT ![p] = new[p]]]
            OBVIOUS
        <3> QED BY <2>11, <2>12, <2>13, <3>1
    <2> QED BY <1>1, <1>5, <2>1, <2>7, <2>9, <2>10, <2>14 DEF Text!Text, Framed
<1> QED BY <1>6, <1>7, <1>8 DEF Fits, Text!Next

LEMMA Types ==
    ASSUME NEW b, Whole(b)
    PROVE  /\ b.lines \in Nat \ {0} /\ b.n \in Nat \ {0} /\ b.end \in Nat /\ b.lines <= b.n /\ b.lines <= b.end
           /\ b.y \in Nat /\ b.y < b.lines /\ b.top \in Nat /\ b.bottom \in Nat /\ b.top < b.bottom /\ b.bottom < b.lines
           /\ b.savedY \in Nat
BY DEF Whole, RingInv, Sized, Steady

LEMMA Blind ==
    ASSUME Whole(buf), SameLines(buf, buf'), buf'.y \in 0..(buf.lines - 1),
           buf'.top \in Nat, buf'.bottom \in 0..(buf.lines - 1), buf'.top < buf'.bottom,
           buf'.saved = buf.saved, buf'.alt = buf.alt, buf'.savedY = buf.savedY, buf'.size = buf.size
    PROVE  Fits
<1>1. Steady(buf')
    BY DEF Whole, Steady, SameLines
<1> QED BY <1>1, Unseen

\* Nothing differs but the region.
SameBut(c) == /\ DOMAIN c = Fields /\ SameLines(buf, c) /\ c.y = buf.y /\ c.saved = buf.saved
              /\ c.alt = buf.alt /\ c.savedY = buf.savedY /\ c.size = buf.size

LEMMA CursorFits ==
    ASSUME Whole(buf), NEW y \in 0..(buf.lines - 1), NEW c, SameBut(c), c.top \in Nat,
           c.bottom \in 0..(buf.lines - 1), c.top < c.bottom,
           buf' = MoveCursor(c, y)
    PROVE  Fits
<1>1. CASE y = buf.y
    <2>1. buf' = c
        BY <1>1 DEF MoveCursor, SameBut
    <2> QED BY <1>1, <2>1, Blind DEF SameBut
<1>2. CASE y # buf.y
    <2>1. PICK ptr : buf' = [[c EXCEPT !.ptr = ptr] EXCEPT !.y = y]
        BY <1>2 DEF MoveCursor, NewLine, SameBut
    <2>2. /\ SameLines(buf, buf') /\ buf'.y = y /\ buf'.top = c.top /\ buf'.bottom = c.bottom
          /\ buf'.saved = buf.saved /\ buf'.alt = buf.alt /\ buf'.savedY = buf.savedY /\ buf'.size = buf.size
        BY <2>1 DEF SameBut, SameLines, Fields
    <2> QED BY <2>2, Blind
<1> QED BY <1>1, <1>2

LEMMA CursorMovesFit ==
    ASSUME Whole(buf), NEW y \in 0..(buf.lines - 1), buf' = MoveCursor(buf, y)
    PROVE  Fits
<1>1. /\ SameBut(buf) /\ buf.top \in Nat /\ buf.bottom \in 0..(buf.lines - 1)
      /\ buf.top < buf.bottom
    BY WholeViews DEF Whole, Steady, SameLines, SameBut
<1> QED BY <1>1, CursorFits

LEMMA MovesFit ==
    ASSUME Whole(buf), CSMoveToXY \/ CSSetScrollRegion \/ CSSetLRScrollRegion
    PROVE  Fits
<1>1. /\ DOMAIN buf = Fields /\ buf.top \in Nat /\ buf.bottom \in 0..(buf.lines - 1) /\ buf.top < buf.bottom
      /\ buf.lines \in Nat \ {0} /\ buf.y \in 0..(buf.lines - 1)
    BY WholeViews, Types DEF Whole, Steady
<1>2. 0 \in 0..(buf.lines - 1)
    BY <1>1
<1>3. CASE CSMoveToXY
    BY <1>3, CursorMovesFit DEF CSMoveToXY, Becomes
<1>4. CASE CSSetScrollRegion
    <2>1. PICK top, bottom, c :
             top \in 0..(buf.lines - 1) /\ bottom \in 0..(buf.lines - 1) /\ top < bottom /\ c = [buf EXCEPT !.top = top, !.bottom = bottom] /\ buf' = MoveCursor(c, 0)
        BY <1>4 DEF CSSetScrollRegion, Becomes
    <2>2. SameBut(c) /\ c.top = top /\ c.bottom = bottom
        BY <1>1, <2>1 DEF SameBut, SameLines, Fields
    <2>3. c.top \in Nat /\ c.bottom \in 0..(buf.lines - 1) /\ c.top < c.bottom
        BY <2>1, <2>2
    <2> QED BY <1>2, <2>1, <2>2, <2>3, CursorFits
<1>5. CASE CSSetLRScrollRegion
    <2>1. PICK lr, c : c = [buf EXCEPT !.lr = lr] /\ (buf' = MoveCursor(c, 0) \/ buf' = c)
        BY <1>5 DEF CSSetLRScrollRegion, Becomes
    <2>2. SameBut(c) /\ c.top = buf.top /\ c.bottom = buf.bottom
        BY <1>1, <2>1 DEF SameBut, SameLines, Fields
    <2>3. CASE buf' = MoveCursor(c, 0)
        BY <1>1, <1>2, <2>2, <2>3, CursorFits
    <2>4. CASE buf' = c
        BY <1>1, <2>2, <2>4, Blind DEF SameBut
    <2> QED BY <2>1, <2>3, <2>4
<1> QED BY <1>3, <1>4, <1>5

LEMMA LinesFit ==
    ASSUME Whole(buf), InReach,
           LineFeed \/ CursorUpWithScroll \/ CSInsertLine \/ CSDeleteNLines \/ CSScrollUp \/ CSScrollDown
    PROVE  Fits
<1>1. /\ buf.lines \in Nat \ {0} /\ buf.y \in Nat /\ buf.y < buf.lines /\ buf.top \in Nat /\ buf.bottom \in Nat
      /\ buf.top < buf.bottom /\ buf.bottom < buf.lines
    BY Types
<1>2. \A k \in Counts \cup {1} : k \in Nat \ {0}
    BY BufferAssumption
<1>3. ASSUME NEW y \in 0..(buf.lines - 1), buf' = MoveCursor(buf, y)
      PROVE  Fits
    BY <1>3, CursorMovesFit
<1>4. CASE buf' = buf
    <2>1. SameLines(buf, buf') /\ buf'.saved = buf.saved /\ Steady(buf')
        BY <1>4 DEF SameLines, Whole
    <2> QED BY <2>1, Unseen
<1>5. ASSUME NEW k \in Counts \cup {1}, LeavesTop(buf), buf' = BuffScroll(buf, k, buf.bottom)
      PROVE  Fits
    <2>1. buf.top = 0 /\ ~buf.lr
        BY <1>5 DEF LeavesTop
    <2> QED BY <1>5, <2>1, ScrollFits
<1>6. ASSUME NEW k \in Counts \cup {1}, ~LeavesTop(buf), buf' = ShiftUp(buf, buf.top, buf.bottom, k)
      PROVE  Fits
    <2>1. ~(buf.top = 0 /\ ~buf.lr)
        BY <1>6 DEF LeavesTop
    <2>2. buf.top <= buf.bottom /\ k \in Nat \ {0}
        BY <1>1, <1>2
    <2> QED BY <1>6, <2>1, <2>2, ShiftFits
<1>7. ASSUME NEW k \in Counts \cup {1}, NEW i \in Nat \ {0}, Far(buf.top, buf.bottom, i) = Far(buf.top, buf.bottom, k),
             buf' = ShiftDown(buf, buf.top, buf.bottom, i)
      PROVE  Fits
    <2>1. buf.top <= buf.bottom
        BY <1>1
    <2> QED BY <1>7, <2>1, ShiftFits
<1>8. CASE LineFeed
    <2>1. CASE buf.y = buf.bottom
        <3>1. buf' = BuffScrollNLines(buf, 1)
            BY <1>8, <2>1 DEF LineFeed, Becomes
        <3>2. buf.y \in buf.top..buf.bottom /\ buf.y <= buf.bottom
            BY <1>1, <2>1
        <3>3. CASE LeavesTop(buf)
            BY <1>5, <3>1, <3>2, <3>3 DEF BuffScrollNLines
        <3>4. CASE ~LeavesTop(buf)
            BY <1>6, <3>1, <3>2, <3>4 DEF BuffScrollNLines
        <3> QED BY <3>3, <3>4
    <2>2. CASE buf.y # buf.bottom /\ buf.y < buf.lines - 1
        <3>1. buf' = MoveCursor(buf, buf.y + 1)
            BY <1>8, <2>2 DEF LineFeed, Becomes
        <3>2. buf.y + 1 \in 0..(buf.lines - 1)
            BY <1>1, <2>2
        <3> QED BY <1>3, <3>1, <3>2
    <2>3. CASE buf.y # buf.bottom /\ ~(buf.y < buf.lines - 1)
        BY <1>4, <1>8, <2>3 DEF LineFeed, Becomes
    <2> QED BY <2>1, <2>2, <2>3
<1>9. CASE CursorUpWithScroll
    <2>1. CASE buf.y = buf.top
        <3>1. buf' = ShiftDown(buf, buf.top, buf.bottom, 1) /\ 1 \in Nat \ {0}
            BY <1>9, <2>1 DEF CursorUpWithScroll, Becomes
        <3> QED BY <1>7, <3>1
    <2>2. CASE buf.y # buf.top /\ buf.y > 0
        <3>1. buf' = MoveCursor(buf, buf.y - 1)
            BY <1>9, <2>2 DEF CursorUpWithScroll, Becomes
        <3>2. buf.y - 1 \in 0..(buf.lines - 1)
            BY <1>1, <2>2
        <3> QED BY <1>3, <3>1, <3>2
    <2>3. CASE buf.y # buf.top /\ ~(buf.y > 0)
        BY <1>4, <1>9, <2>3 DEF CursorUpWithScroll, Becomes
    <2> QED BY <2>1, <2>2, <2>3
<1>10. CASE CSInsertLine \/ CSDeleteNLines
    <2>1. PICK k, i : /\ k \in Counts /\ i = Least(k, buf.bottom + 1 - buf.y) /\ buf.y \in buf.top..buf.bottom
                         /\ (buf' = ShiftUp(buf, buf.y, buf.bottom, i) \/ buf' = ShiftDown(buf, buf.y, buf.bottom, i))
        BY <1>10 DEF CSInsertLine, CSDeleteNLines, Becomes
    <2>2. k \in Nat \ {0} /\ i \in Nat \ {0} /\ buf.y <= buf.bottom /\ buf.top <= buf.y
        BY <1>1, <1>2, <2>1 DEF Least
    <2>3. Far(buf.y, buf.bottom, i) = Far(buf.y, buf.bottom, k)
        BY <1>1, <2>1, <2>2 DEF Far, Least
    <2> QED BY <2>1, <2>2, <2>3, ShiftFits
<1>11. CASE CSScrollUp
    <2>1. PICK k \in Counts : buf' = BuffRegionScrollUpNLines(buf, k)
        BY <1>11 DEF CSScrollUp, Becomes
    <2> QED BY <1>5, <1>6, <2>1 DEF BuffRegionScrollUpNLines
<1>12. CASE CSScrollDown
    <2>1. PICK k, i : k \in Counts /\ i = Least(k, buf.lines) /\ buf' = ShiftDown(buf, buf.top, buf.bottom, i)
        BY <1>12 DEF CSScrollDown, Becomes
    <2>2. k \in Nat \ {0} /\ i \in Nat \ {0}
        BY <1>1, <1>2, <2>1 DEF Least
    <2>3. Far(buf.top, buf.bottom, i) = Far(buf.top, buf.bottom, k)
        BY <1>1, <2>1, <2>2 DEF Far, Least
    <2> QED BY <1>7, <2>1, <2>2, <2>3
<1> QED BY <1>8, <1>9, <1>10, <1>11, <1>12

-----------------------------------------------------------------------------
(* Screens and sizes.                                                       *)

LEMMA ClearIs ==
    ASSUME NEW b, RingInv(b), Based(b)
    PROVE  Scrolled(b, BuffClearScreen(b), b.lines, 0)
<1>1. /\ b.lines \in Nat \ {0} /\ b.lines - 1 \in Int /\ 0 \in Nat /\ 0 = b.lines - 1 - (b.lines - 1)
      /\ 0 <= b.end /\ b.lines + 0 <= b.n
    BY DEF RingInv, Sized
<1>2. DOMAIN b = Fields /\ Meet(b.n, b.start, b.end, b.endAbs)
    BY WholeViews
<1> QED BY <1>1, <1>2, ScrollIs DEF BuffClearScreen

\* What the functions that clear or reset leave.
LEMMA CleanIs ==
    ASSUME NEW b, RingInv(b), Based(b)
    PROVE  LET c == ClearBuffer(b) IN
           /\ Based(c) /\ Page(c) = Text!Blank(b.lines) /\ History(c) = <<>>
           /\ c.n = b.n /\ c.size = b.size /\ c.lines = b.lines /\ c.y = 0 /\ c.top = 0 /\ c.bottom = b.lines - 1
           /\ c.saved = b.saved /\ c.alt = b.alt /\ c.savedY = b.savedY
<1> DEFINE c == ClearBuffer(b)
           rows == [a \in DOMAIN b.rows |-> Empty]
<1>1. DOMAIN b = Fields /\ b.lines \in Nat \ {0} /\ b.lines <= b.n /\ b.n \in Nat \ {0}
    BY DEF RingInv, Sized
<1>2. /\ c.rows = rows /\ c.start = 0 /\ c.end = b.lines /\ c.page = 0
      /\ c.n = b.n /\ c.size = b.size /\ c.lines = b.lines /\ c.y = 0 /\ c.top = 0 /\ c.bottom = b.lines - 1
      /\ c.saved = b.saved /\ c.alt = b.alt /\ c.savedY = b.savedY
    BY <1>1 DEF ClearBuffer, Fields
<1> HIDE DEF c
<1>3. DOMAIN rows = 0..(b.n - 1)
    BY DEF Based
<1>4. Based(c)
    BY <1>1, <1>2, <1>3 DEF Based, Circular
<1>5. ASSUME NEW i \in 1..b.lines
      PROVE  At(c, c.page + i - 1) = Text!Blank(b.lines)[i]
    <2>1. PICK v : v = c.page + i - 1
        OBVIOUS
    <2>2. v \in 0..(c.n - 1)
        BY <1>1, <1>2, <2>1
    <2>3. Addr(c, v) \in 0..(b.n - 1)
        BY <1>2, <1>4, <2>2, OneAddress
    <2>4. At(c, v) = Empty
        BY <1>2, <1>3, <2>3 DEF At
    <2>5. Text!Blank(b.lines)[i] = Empty
        BY <1>1, BlankIs
    <2> QED BY <2>1, <2>4, <2>5
<1>6. Shows(c, b.lines, Text!Blank(b.lines))
    <2>1. Row(Text!Blank(b.lines), b.lines)
        BY <1>1, BlankIs
    <2> QED BY <1>2, <1>5, <2>1 DEF Shows
<1>7. Page(c) = Text!Blank(b.lines)
    BY <1>6, Seen
<1>8. History(c) = <<>>
    <2>1. Row(History(c), 0)
        BY <1>2 DEF History, Row
    <2>2. PICK S : S = {History(c)[i] : i \in 1..0}
        OBVIOUS
    <2>3. History(c) \in Seq(S) /\ Len(History(c)) = 0
        <3>1. 0 \in Nat /\ {History(c)[i] : i \in 1..0} \subseteq S
            BY <2>2
        <3> QED BY <2>1, <3>1, InSeq
    <2>4. \A seq \in Seq(S) : (seq # << >>) => (Len(seq) \in Nat \ {0})
        BY EmptySeq
    <2>5. History(c) # << >> => Len(History(c)) \in Nat \ {0}
        BY <2>3, <2>4
    <2>6. ~(Len(History(c)) \in Nat \ {0})
        BY <2>3
    <2> QED BY <2>5, <2>6, Zenon
<1> QED BY <1>2, <1>4, <1>7, <1>8 DEF c

LEMMA ResetIs ==
    ASSUME NEW b, RingInv(b)
    PROVE  LET c == BuffReset(b) IN
           /\ DOMAIN c = Fields /\ SameLines(b, c) /\ c.size = b.size /\ c.y = 0 /\ c.top = 0 /\ c.bottom = b.lines - 1
           /\ c.saved = <<>> /\ c.alt = FALSE /\ c.savedY = b.savedY
BY DEF RingInv, BuffReset, NewLine, SameLines, Fields

\* There is a region on every page.
LEMMA PageHeight ==
    ASSUME NEW h \in Heights
    PROVE  h \in Nat \ {0} /\ 0 \in 0..(h - 1) /\ h - 1 \in 0..(h - 1) /\ 0 < h - 1
BY BufferAssumption

LEMMA PageLength ==
    ASSUME NEW b, RingInv(b), Based(b)
    PROVE  Len(Page(b)) = b.lines
BY WholeViews, ViewIs

\* The main screen again, with the cursor at the top.
LEMMA SteadyMain ==
    ASSUME NEW b, NEW c, Steady(b), c.lines = b.lines, c.size = b.size, c.n = b.n, c.y = 0, c.top = 0,
           c.bottom = b.lines - 1, c.saved = <<>>, c.alt = FALSE, c.savedY = b.savedY
    PROVE  Steady(c)
<1>1. c.lines \in Heights /\ c.savedY \in Nat /\ \E s \in ScrollSizes : s <= c.size /\ s <= c.n
    BY DEF Steady
<1>2. c.y \in 0..(c.lines - 1) /\ c.top \in Nat /\ c.bottom \in 0..(c.lines - 1) /\ c.top < c.bottom
    BY <1>1, PageHeight
<1>3. c.alt \in BOOLEAN /\ ~c.alt /\ c.saved = <<>>
    OBVIOUS
<1> QED BY <1>1, <1>2, <1>3 DEF Steady

LEMMA ErasesFit ==
    ASSUME Whole(buf), CSScreenErase
    PROVE  Fits
<1>1. RingInv(buf) /\ Based(buf) /\ Steady(buf) /\ Views(buf) /\ buf.lines \in Heights /\ Len(Page(buf)) = buf.lines
    BY WholeViews, PageLength DEF Whole, Steady
<1>2. buf.lines \in Nat \ {0} /\ buf.lines - 1 \in 0..(buf.lines - 1) /\ buf.lines - 1 - (buf.lines - 1) = 0
    BY <1>1, PageHeight
<1>3. CASE buf' = BuffClearScreen(buf)
    <2>1. Scrolled(buf, buf', buf.lines, 0)
        BY <1>1, <1>3, ClearIs
    <2>2. LeftTop(buf, buf', buf.lines - 1, buf.lines)
        BY <1>1, <1>2, <2>1, Leaves
    <2>3. Framed(buf, buf') /\ Based(buf')
        BY <2>1 DEF Scrolled
    <2>4. Steady(buf')
        BY <1>1, <2>3, FrameSteady
    <2>5. Text!LeaveTop(Len(Page(buf)) - 1, Len(Page(buf)))
        BY <1>1, <2>2 DEF LeftTop, Passing, Text!LeaveTop
    <2>6. Text!ClearScreen
        BY <2>3, <2>5 DEF Text!ClearScreen, Framed
    <2> QED BY <2>3, <2>4, <2>6 DEF Fits, Text!Next
<1>4. CASE buf' = ClearBuffer(buf)
    <2>1. /\ Based(buf') /\ Page(buf') = Text!Blank(buf.lines) /\ History(buf') = <<>>
          /\ buf'.n = buf.n /\ buf'.size = buf.size /\ buf'.lines = buf.lines
          /\ buf'.y = 0 /\ buf'.top = 0 /\ buf'.bottom = buf.lines - 1
          /\ buf'.saved = buf.saved /\ buf'.alt = buf.alt /\ buf'.savedY = buf.savedY
        BY <1>1, <1>4, CleanIs
    <2>2. Steady(buf')
        BY <1>1, <2>1, PageHeight DEF Steady
    <2>3. Text!Clear
        BY <1>1, <2>1 DEF Text!Clear
    <2> QED BY <2>1, <2>2, <2>3 DEF Fits, Text!Next
<1> QED BY <1>3, <1>4 DEF CSScreenErase, Becomes

LEMMA ResetsFit ==
    ASSUME Whole(buf), HardwareReset \/ OnControlResetTerminal
    PROVE  Fits
<1> DEFINE c == BuffReset(buf)
<1>1. RingInv(buf) /\ Based(buf) /\ Steady(buf) /\ buf.lines \in Heights /\ Len(Page(buf)) = buf.lines
    BY PageLength DEF Whole, Steady
<1>2. /\ DOMAIN c = Fields /\ SameLines(buf, c) /\ c.size = buf.size /\ c.y = 0 /\ c.top = 0 /\ c.bottom = buf.lines - 1
      /\ c.saved = <<>> /\ c.alt = FALSE /\ c.savedY = buf.savedY
    BY <1>1, ResetIs
<1>3. RingInv(c)
    BY <1>1, Resetting, SameKeeps
<1> HIDE DEF c
<1>4. Based(c) /\ Page(c) = Page(buf) /\ History(c) = History(buf)
    BY <1>1, <1>2, SameText
<1>5. CASE buf' = c
    <2>1. Steady(buf')
        BY <1>1, <1>2, <1>5, SteadyMain DEF SameLines
    <2>2. Text!Reset
        BY <1>2, <1>4, <1>5 DEF Text!Reset, Text!Same, SameLines
    <2> QED BY <1>4, <1>5, <2>1, <2>2 DEF Fits, Text!Next
<1>6. CASE buf' = ClearBuffer(c)
    <2>1. /\ Based(buf') /\ Page(buf') = Text!Blank(c.lines) /\ History(buf') = <<>>
          /\ buf'.n = c.n /\ buf'.size = c.size /\ buf'.lines = c.lines
          /\ buf'.y = 0 /\ buf'.top = 0 /\ buf'.bottom = c.lines - 1
          /\ buf'.saved = c.saved /\ buf'.alt = c.alt /\ buf'.savedY = c.savedY
        BY <1>3, <1>4, <1>6, CleanIs
    <2>2. c.lines = buf.lines /\ c.n = buf.n
        BY <1>2 DEF SameLines
    <2>3. Steady(buf')
        BY <1>1, <1>2, <2>1, <2>2, SteadyMain
    <2>4. Text!Clear
        BY <1>1, <1>2, <2>1, <2>2 DEF Text!Clear
    <2> QED BY <2>1, <2>3, <2>4 DEF Fits, Text!Next
<1> QED BY <1>5, <1>6 DEF HardwareReset, OnControlResetTerminal, Becomes, c

\* The page is kept.
LEMMA SavedIs ==
    ASSUME Whole(buf), ~buf.alt
    PROVE  LET t == [BuffSaveScreen(buf) EXCEPT !.alt = TRUE] IN
           /\ DOMAIN t = Fields /\ SameLines(buf, t) /\ t.saved = Page(buf) /\ t.alt = TRUE
           /\ t.size = buf.size /\ t.y = buf.y /\ t.top = buf.top /\ t.bottom = buf.bottom /\ t.lr = buf.lr
           /\ t.savedY = buf.savedY /\ t.endAbs = buf.endAbs
<1>1. DOMAIN buf = Fields /\ buf.saved = <<>>
    BY WholeViews DEF Whole, Steady
<1>2. BuffSaveScreen(buf) = [buf EXCEPT !.saved = Page(buf)]
    BY <1>1 DEF BuffSaveScreen, Page
<1>3. PICK s : s = [buf EXCEPT !.saved = Page(buf)]
    OBVIOUS
<1>4. /\ DOMAIN s = Fields /\ SameLines(buf, s) /\ s.saved = Page(buf)
      /\ s.size = buf.size /\ s.y = buf.y /\ s.top = buf.top /\ s.bottom = buf.bottom /\ s.lr = buf.lr
      /\ s.savedY = buf.savedY /\ s.endAbs = buf.endAbs
    BY <1>1, <1>3 DEF SameLines, Fields
<1> QED BY <1>2, <1>3, <1>4 DEF SameLines, Fields

LEMMA AlternateFits ==
    ASSUME Whole(buf), AlternateScreen
    PROVE  Fits
<1> DEFINE t == [BuffSaveScreen(buf) EXCEPT !.alt = TRUE]
           d == BuffClearScreen(t)
<1>1. /\ RingInv(buf) /\ Based(buf) /\ Steady(buf) /\ Views(buf) /\ buf.lines \in Heights
      /\ Len(Page(buf)) = buf.lines /\ Row(Page(buf), buf.lines) /\ ~buf.alt
    BY WholeViews, PageLength, ViewIs DEF Whole, Steady, AlternateScreen
<1>2. /\ DOMAIN t = Fields /\ SameLines(buf, t) /\ t.saved = Page(buf) /\ t.alt = TRUE
      /\ t.size = buf.size /\ t.y = buf.y /\ t.top = buf.top /\ t.bottom = buf.bottom /\ t.lr = buf.lr
      /\ t.savedY = buf.savedY /\ t.endAbs = buf.endAbs
    BY <1>1, SavedIs
<1>3. buf' = t \/ buf' = [d EXCEPT !.savedY = buf.y]
    BY DEF AlternateScreen, Becomes
<1> HIDE DEF t
<1>4. RingInv(t) /\ Based(t) /\ Views(t) /\ Page(t) = Page(buf) /\ History(t) = History(buf)
    <2>1. SameRing(buf, t)
        BY <1>2 DEF SameRing, SameLines
    <2>2. RingInv(t) /\ Based(t) /\ Page(t) = Page(buf) /\ History(t) = History(buf)
        BY <1>1, <1>2, <2>1, SameKeeps, SameText
    <2> QED BY <2>2, WholeViews
<1>5. buf.lines \in Nat \ {0} /\ buf.lines - 1 \in 0..(buf.lines - 1) /\ buf.lines - 1 - (buf.lines - 1) = 0
    BY <1>1, PageHeight
<1>6. Page(buf) # <<>>
    BY <1>1, <1>5
<1>7. ASSUME NEW c, SameLines(c, buf'), Framed(t, c), buf'.saved = c.saved, buf'.alt = c.alt, buf'.size = c.size, buf'.y = c.y,
             buf'.top = c.top, buf'.bottom = c.bottom, buf'.savedY \in Nat
      PROVE  Steady(buf')
    <2>1. /\ buf'.lines \in Heights /\ buf'.lines = buf.lines /\ buf'.y = buf.y /\ buf'.top = buf.top
          /\ buf'.bottom = buf.bottom /\ buf'.size = buf.size /\ buf'.n = buf.n /\ buf'.saved = Page(buf) /\ buf'.alt = TRUE
        BY <1>1, <1>2, <1>7 DEF SameLines, Framed
    <2>2. /\ buf'.y \in 0..(buf'.lines - 1) /\ buf'.top \in Nat /\ buf'.bottom \in 0..(buf'.lines - 1)
          /\ buf'.top < buf'.bottom /\ \E s \in ScrollSizes : s <= buf'.size /\ s <= buf'.n
        BY <1>1, <2>1 DEF Steady
    <2>3. \E m \in Nat : Row(buf'.saved, m) /\ Len(buf'.saved) = m
        BY <1>1, <1>5, <2>1
    <2>4. /\ buf'.alt \in BOOLEAN /\ (buf'.alt => buf'.saved # <<>> /\ \E m \in Nat : Row(buf'.saved, m) /\ Len(buf'.saved) = m)
          /\ (~buf'.alt => buf'.saved = <<>>)
        BY <1>6, <2>1, <2>3
    <2> QED BY <1>7, <2>1, <2>2, <2>4 DEF Steady
<1>8. CASE buf' = t
    <2>1. SameLines(t, buf') /\ Framed(t, t)
        BY <1>2, <1>8 DEF SameLines, Framed
    <2>2. buf'.savedY \in Nat
        BY <1>1, <1>2, <1>8 DEF Steady
    <2>3. Steady(buf')
        BY <1>7, <1>8, <2>1, <2>2
    <2>4. Text!Keep
        BY <1>2, <1>4, <1>8 DEF Text!Keep, Text!Same, SameLines
    <2> QED BY <1>4, <1>8, <2>3, <2>4 DEF Fits, Text!Next
<1>9. CASE buf' = [d EXCEPT !.savedY = buf.y]
    <2>1. t.lines = buf.lines /\ t.n = buf.n
        BY <1>2 DEF SameLines
    <2>2. Scrolled(t, d, t.lines, 0)
        BY <1>4, ClearIs
    <2> HIDE DEF d
    <2>3. LeftTop(t, d, t.lines - 1, t.lines)
        BY <1>4, <1>5, <2>1, <2>2, Leaves
    <2>4. Framed(t, d) /\ Based(d) /\ DOMAIN d = Fields
        BY <2>2 DEF Scrolled, Framed
    <2>5. /\ SameLines(d, buf') /\ buf'.saved = d.saved /\ buf'.alt = d.alt /\ buf'.size = d.size /\ buf'.y = d.y
          /\ buf'.top = d.top /\ buf'.bottom = d.bottom /\ buf'.lr = d.lr /\ buf'.savedY = buf.y
        BY <1>9, <2>4 DEF SameLines, Fields
    <2>6. buf.y \in Nat
        BY Types
    <2>7. Steady(buf')
        BY <1>7, <2>4, <2>5, <2>6
    <2>8. Based(buf') /\ Page(buf') = Page(d) /\ History(buf') = History(d)
        BY <2>4, <2>5, SameText
    <2>9. Passing(t, t.lines - 1, t.lines) = Passing(buf, buf.lines - 1, buf.lines)
        BY <1>4, <2>1 DEF Passing
    <2>10. LeftTop(buf, buf', buf.lines - 1, buf.lines)
        BY <1>4, <2>1, <2>3, <2>8, <2>9 DEF LeftTop
    <2>11. Text!LeaveTop(Len(Page(buf)) - 1, Len(Page(buf)))
        BY <1>1, <2>10 DEF LeftTop, Passing, Text!LeaveTop
    <2>12. /\ buf'.saved = Page(buf) /\ buf'.y = buf.y /\ buf'.top = buf.top /\ buf'.bottom = buf.bottom
           /\ buf'.lr = buf.lr /\ buf'.n = buf.n /\ buf'.lines = buf.lines
        BY <1>2, <2>1, <2>4, <2>5 DEF SameLines, Framed
    <2>13. Text!Keep
        BY <2>11, <2>12 DEF Text!Keep
    <2> QED BY <2>7, <2>8, <2>13 DEF Fits, Text!Next
<1> QED BY <1>3, <1>8, <1>9

\* The page that was kept, over what is on the screen.
LEMMA RestoreSeen ==
    ASSUME NEW b, DOMAIN b = Fields, Views(b), Based(b), NEW m \in Nat, Row(b.saved, m), Len(b.saved) = m
    PROVE  LET c == BuffRestoreScreen(b) IN
           /\ Page(c) = [i \in 1..b.lines |-> IF i <= Len(b.saved) THEN b.saved[i] ELSE Page(b)[i]]
           /\ History(c) = History(b)
<1> DEFINE c == BuffRestoreScreen(b)
           s == [i \in 1..b.lines |-> IF i <= m THEN b.saved[i] ELSE Page(b)[i]]
<1>1. /\ c.lines = b.lines /\ c.page = b.page
      /\ \A i \in 1..b.page : At(c, i - 1) = At(b, i - 1)
      /\ \A i \in 1..b.lines : At(c, b.page + i - 1) = IF i <= m THEN b.saved[i] ELSE At(b, b.page + i - 1)
    BY RestoredIs
<1> HIDE DEF c
<1>2. /\ Row(History(b), b.page) /\ \A i \in 1..b.page : History(b)[i] = At(b, i - 1)
      /\ \A i \in 1..b.lines : Page(b)[i] = At(b, b.page + i - 1)
    BY ViewIs
<1>3. Row(s, b.lines)
    BY DEF Row
<1>4. \A i \in 1..b.lines : At(c, c.page + i - 1) = s[i]
    BY <1>1, <1>2
<1> HIDE DEF s
<1>5. Shows(c, b.lines, s)
    BY <1>1, <1>3, <1>4 DEF Shows
<1>6. Recalls(c, b.page, History(b))
    BY <1>1, <1>2 DEF Recalls
<1> QED BY <1>5, <1>6, Seen DEF s, c

LEMMA MainFits ==
    ASSUME Whole(buf), MainScreen
    PROVE  Fits
<1> DEFINE Restored(b) == [BuffRestoreScreen(b) EXCEPT !.alt = FALSE]
           over == [i \in 1..buf.lines |-> IF i <= Len(buf.saved) THEN buf.saved[i] ELSE Page(buf)[i]]
           blank == [i \in 1..buf.lines |-> IF i <= Len(buf.saved) THEN buf.saved[i] ELSE Text!Blank(buf.lines)[i]]
<1>1. /\ RingInv(buf) /\ Based(buf) /\ Steady(buf) /\ Views(buf) /\ DOMAIN buf = Fields
      /\ buf.lines \in Heights /\ buf.lines <= buf.n /\ buf.saved # <<>> /\ Len(Page(buf)) = buf.lines
    BY WholeViews, PageLength DEF Whole, Steady, MainScreen
<1>2. PICK m \in Nat : Row(buf.saved, m) /\ Len(buf.saved) = m
    BY <1>1 DEF Steady, MainScreen
<1>3. ASSUME NEW c, SameLines(c, buf'), c.lines = buf.lines, c.n = buf.n, c.size = buf.size,
             c.top = buf.top, c.bottom = buf.bottom, buf'.size = c.size, buf'.top = c.top, buf'.bottom = c.bottom,
             buf'.saved = <<>>, buf'.alt = FALSE, buf'.y \in 0..(buf.lines - 1), buf'.savedY \in Nat
      PROVE  Steady(buf')
    <2>1. /\ buf'.lines = buf.lines /\ buf'.top = buf.top /\ buf'.bottom = buf.bottom /\ buf'.size = buf.size
          /\ buf'.n = buf.n
        BY <1>3 DEF SameLines
    <2>2. /\ buf'.lines \in Heights /\ buf'.y \in 0..(buf'.lines - 1) /\ buf'.top \in Nat
          /\ buf'.bottom \in 0..(buf'.lines - 1)
          /\ buf'.top < buf'.bottom /\ \E s \in ScrollSizes : s <= buf'.size /\ s <= buf'.n
        BY <1>1, <1>3, <2>1 DEF Steady
    <2>3. buf'.alt \in BOOLEAN /\ ~buf'.alt /\ buf'.saved = <<>>
        BY <1>3
    <2> QED BY <1>3, <2>2, <2>3 DEF Steady
<1>4. CASE buf' = Restored(buf)
    <2> DEFINE c == BuffRestoreScreen(buf)
    <2>1. /\ DOMAIN c = Fields /\ Based(c) /\ c.saved = <<>>
          /\ c.n = buf.n /\ c.size = buf.size /\ c.lines = buf.lines /\ c.page = buf.page /\ c.y = buf.y
          /\ c.top = buf.top /\ c.bottom = buf.bottom /\ c.lr = buf.lr /\ c.savedY = buf.savedY
        BY <1>1, <1>2, RestoredIs
    <2>2. Page(c) = over /\ History(c) = History(buf)
        BY <1>1, <1>2, RestoreSeen
    <2> HIDE DEF c, over
    <2>3. buf' = [c EXCEPT !.alt = FALSE]
        BY <1>4 DEF c
    <2>4. /\ SameLines(c, buf') /\ buf'.size = c.size /\ buf'.top = c.top /\ buf'.bottom = c.bottom /\ buf'.saved = c.saved
          /\ buf'.alt = FALSE /\ buf'.y = c.y /\ buf'.lr = c.lr /\ buf'.savedY = c.savedY
        BY <2>1, <2>3 DEF SameLines, Fields
    <2>5. Based(buf') /\ Page(buf') = over /\ History(buf') = History(buf)
        BY <2>1, <2>2, <2>4, SameText
    <2>6. buf'.y \in 0..(buf.lines - 1) /\ buf'.savedY \in Nat
        BY <1>1, <2>1, <2>4 DEF Steady
    <2>7. Steady(buf')
        BY <1>3, <2>1, <2>4, <2>6
    <2>8. buf'.n = buf.n /\ buf'.lines = buf.lines
        BY <2>1, <2>4 DEF SameLines
    <2>9. /\ Page(buf') = [i \in 1..Len(Page(buf)) |-> IF i <= Len(buf.saved) THEN buf.saved[i] ELSE Page(buf)[i]]
          /\ Page(buf) \in {Page(buf), Text!Blank(Len(Page(buf)))}
        BY <1>1, <2>5 DEF over
    <2>10. \E v \in {Page(buf), Text!Blank(Len(Page(buf)))} :
              Page(buf') = [i \in 1..Len(Page(buf)) |-> IF i <= Len(buf.saved) THEN buf.saved[i] ELSE v[i]]
        BY <2>9
    <2>11. Text!Back
        BY <1>1, <2>1, <2>4, <2>5, <2>8, <2>10 DEF Text!Back
    <2> QED BY <2>5, <2>7, <2>11 DEF Fits, Text!Next
<1>5. ASSUME NEW y, y = Least(Restored(BuffClearScreen(buf)).savedY, Restored(BuffClearScreen(buf)).lines - 1),
             buf' = [MoveCursor(Restored(BuffClearScreen(buf)), y) EXCEPT !.savedY = y]
      PROVE  Fits
    <2> DEFINE d == BuffClearScreen(buf)
               c == BuffRestoreScreen(d)
    <2>1. Scrolled(buf, d, buf.lines, 0)
        BY <1>1, ClearIs
    <2>2. Page(d) = Text!Blank(buf.lines) /\ History(d) = Text!Newest(History(buf) \o Page(buf), buf.n - buf.lines)
        BY <1>1, <2>1, Erased
    <2>3. RingInv(d)
        BY <1>1, Scrolls, 1 \in Nat \ {0}
    <2> HIDE DEF d
    <2>4. Framed(buf, d) /\ Based(d) /\ Views(d) /\ DOMAIN d = Fields
        BY <2>1, <2>3, WholeViews DEF Scrolled
    <2>5. Row(d.saved, m) /\ Len(d.saved) = m
        BY <1>2, <2>4 DEF Framed
    <2>6. /\ DOMAIN c = Fields /\ Based(c) /\ c.saved = <<>>
          /\ c.n = d.n /\ c.size = d.size /\ c.lines = d.lines
          /\ c.top = d.top /\ c.bottom = d.bottom /\ c.lr = d.lr /\ c.savedY = d.savedY
        BY <1>2, <2>4, <2>5, RestoredIs
    <2>7. /\ Page(c) = [i \in 1..d.lines |-> IF i <= Len(d.saved) THEN d.saved[i] ELSE Page(d)[i]]
          /\ History(c) = History(d)
        BY <1>2, <2>4, <2>5, RestoreSeen
    <2> HIDE DEF c
    <2>8. /\ d.n = buf.n /\ d.size = buf.size /\ d.lines = buf.lines /\ d.saved = buf.saved
          /\ d.top = buf.top /\ d.bottom = buf.bottom /\ d.lr = buf.lr /\ d.savedY = buf.savedY
        BY <2>4 DEF Framed
    <2>9. PICK t : t = [c EXCEPT !.alt = FALSE]
        OBVIOUS
    <2>10. /\ DOMAIN t = Fields /\ SameLines(c, t) /\ t.size = c.size /\ t.top = c.top /\ t.bottom = c.bottom
           /\ t.saved = <<>> /\ t.alt = FALSE /\ t.lr = c.lr /\ t.savedY = c.savedY
        BY <2>6, <2>9 DEF SameLines, Fields
    <2>11. Restored(BuffClearScreen(buf)) = t
        BY <2>9 DEF c, d
    <2>12. buf' = [MoveCursor(t, y) EXCEPT !.savedY = y] /\ y = Least(t.savedY, t.lines - 1)
        BY <1>5, <2>11
    <2>13. y \in 0..(buf.lines - 1) /\ y \in Nat
        <3>1. t.savedY = buf.savedY /\ t.lines = buf.lines
            BY <2>6, <2>8, <2>10 DEF SameLines
        <3>2. buf.savedY \in Nat /\ buf.lines \in Nat \ {0}
            BY Types
        <3>3. y = Least(buf.savedY, buf.lines - 1)
            BY <2>12, <3>1
        <3> QED BY <3>2, <3>3 DEF Least
    <2>14. PICK w : w = MoveCursor(t, y)
        OBVIOUS
    <2>15. /\ DOMAIN w = Fields /\ SameLines(t, w) /\ w.size = t.size /\ w.top = t.top /\ w.bottom = t.bottom
           /\ w.saved = t.saved /\ w.alt = t.alt /\ w.lr = t.lr /\ w.y = y
        BY <2>10, <2>14 DEF MoveCursor, NewLine, SameLines, Fields
    <2>16. buf' = [w EXCEPT !.savedY = y]
        BY <2>12, <2>14
    <2>17. /\ SameLines(w, buf') /\ buf'.size = w.size /\ buf'.top = w.top /\ buf'.bottom = w.bottom
           /\ buf'.saved = w.saved /\ buf'.alt = w.alt /\ buf'.lr = w.lr /\ buf'.y = y /\ buf'.savedY = y
        BY <2>15, <2>16 DEF SameLines, Fields
    <2>18. SameLines(c, buf')
        BY <2>10, <2>15, <2>17 DEF SameLines
    <2>19. Based(buf') /\ Page(buf') = Page(c) /\ History(buf') = History(c)
        BY <2>6, <2>18, SameText
    <2>20. /\ buf'.top = buf.top /\ buf'.bottom = buf.bottom /\ buf'.lr = buf.lr /\ buf'.size = buf.size
           /\ buf'.n = buf.n /\ buf'.lines = buf.lines /\ buf'.saved = <<>> /\ buf'.alt = FALSE
        BY <2>6, <2>8, <2>10, <2>15, <2>17, <2>18 DEF SameLines
    <2>21. Steady(buf')
        <3>1. SameLines(buf', buf')
            BY DEF SameLines
        <3>2. buf'.y \in 0..(buf.lines - 1) /\ buf'.savedY \in Nat
            BY <2>13, <2>17
        <3>3. c.lines = buf.lines /\ c.n = buf.n /\ c.size = buf.size /\ c.top = buf.top /\ c.bottom = buf.bottom
            BY <2>6, <2>8
        <3>4. buf'.size = c.size /\ buf'.top = c.top /\ buf'.bottom = c.bottom
            BY <2>20, <3>3
        <3> QED BY <1>3, <2>18, <2>20, <3>2, <3>3, <3>4
    <2>22. Page(buf') = [i \in 1..Len(Page(buf)) |-> IF i <= Len(buf.saved) THEN buf.saved[i]
                                                      ELSE Text!Blank(Len(Page(buf)))[i]]
        BY <1>1, <2>2, <2>7, <2>8, <2>19
    <2>23. \E v \in {Page(buf), Text!Blank(Len(Page(buf)))} :
              Page(buf') = [i \in 1..Len(Page(buf)) |-> IF i <= Len(buf.saved) THEN buf.saved[i] ELSE v[i]]
        BY <2>22
    <2>24. History(buf') = Text!Newest(History(buf) \o Page(buf), buf.n - buf.lines)
        BY <2>2, <2>7, <2>19
    <2>25. Text!Back
        BY <1>1, <2>20, <2>23, <2>24 DEF Text!Back
    <2> QED BY <2>19, <2>21, <2>25 DEF Fits, Text!Next
<1>6. buf' = Restored(buf) \/ \E y : /\ y = Least(Restored(BuffClearScreen(buf)).savedY, Restored(BuffClearScreen(buf)).lines - 1)
                                     /\ buf' = [MoveCursor(Restored(BuffClearScreen(buf)), y) EXCEPT !.savedY = y]
    BY DEF MainScreen, Becomes
<1> QED BY <1>4, <1>5, <1>6

LEMMA ResizeFits ==
    ASSUME Whole(buf), ChangeTerminalSize, ClearOnResize
    PROVE  Fits
<1>1. RingInv(buf) /\ Based(buf) /\ Steady(buf) /\ Views(buf)
    BY WholeViews DEF Whole
<1>2. PICK h \in Heights : buf' = BuffChangeTerminalSize(buf, h)
    BY DEF ChangeTerminalSize, Becomes
<1>3. h \in Nat \ {0} /\ 0 \in 0..(h - 1) /\ h - 1 \in 0..(h - 1) /\ 0 < h - 1
    BY PageHeight
<1>4. /\ Based(buf') /\ buf'.lines = h /\ Page(buf') = Text!Blank(h)
      /\ History(buf') = Text!Newest(History(buf) \o Page(buf), buf'.n - h)
      /\ buf'.y = 0 /\ buf'.top = 0 /\ buf'.bottom = h - 1
      /\ buf'.saved = buf.saved /\ buf'.alt = buf.alt /\ buf'.savedY = buf.savedY
      /\ buf.size <= buf'.size /\ (buf'.n = buf.n \/ buf.size <= buf'.n)
    BY <1>1, <1>2, <1>3, ResizedIs
<1>5. PICK s \in ScrollSizes : s <= buf.size /\ s <= buf.n
    BY <1>1 DEF Steady
<1>6. s <= buf'.size /\ s <= buf'.n
    <2>1. RingInv(buf')
        BY <1>1, <1>2, <1>3, Resizing
    <2>2. buf.size \in Int /\ buf.n \in Int
        BY <1>1 DEF RingInv, Sized
    <2>3. buf'.size \in Int /\ buf'.n \in Int
        BY <2>1 DEF RingInv, Sized
    <2>4. s \in Int
        BY BufferAssumption
    <2> QED BY <1>4, <1>5, <2>2, <2>3, <2>4
<1>7. buf'.y \in 0..(buf'.lines - 1) /\ buf'.top \in Nat /\ buf'.bottom \in 0..(buf'.lines - 1) /\ buf'.top < buf'.bottom
    BY <1>3, <1>4
<1>8. Steady(buf')
    BY <1>1, <1>4, <1>6, <1>7 DEF Steady
<1>9. Text!Resize
    BY <1>4 DEF Text!Resize
<1> QED BY <1>4, <1>8, <1>9 DEF Fits, Text!Next

LEMMA SetupFits ==
    ASSUME Whole(buf), ChangeWin
    PROVE  Fits
<1>1. RingInv(buf) /\ Based(buf) /\ Steady(buf) /\ Views(buf) /\ DOMAIN buf = Fields /\ buf.lines \in Nat \ {0}
    BY WholeViews, Types DEF Whole
<1>2. PICK size, n : size \in ScrollSizes /\ n = Most(size, buf.lines) /\ buf' = [ChangeBuffer(buf, n) EXCEPT !.size = n]
    BY DEF ChangeWin, Becomes
<1>3. size \in Nat /\ n \in Nat \ {0} /\ buf.lines <= n /\ size <= n
    <2>1. size \in Nat
        BY <1>2, BufferAssumption
    <2> QED BY <1>1, <1>2, <2>1 DEF Most
<1>4. PICK copied, e, h, p : copied = Least(buf.end, n) /\ e = buf.end /\ h = buf.lines /\ p = copied - buf.lines
    OBVIOUS
<1>5. /\ e \in Nat /\ h \in Nat /\ h <= e /\ copied \in Nat /\ copied <= e /\ h <= copied
      /\ p \in Nat /\ p = Least(buf.page, n - h) /\ buf.page = e - h /\ buf.page \in Nat /\ n - h \in Nat
    <2>1. e \in Nat /\ h \in Nat /\ h <= e /\ buf.page = e - h /\ buf.page \in Nat
        BY <1>1, <1>4 DEF Views
    <2>2. h <= n
        BY <1>3, <1>4
    <2> QED BY <1>3, <1>4, <2>1, <2>2 DEF Least
<1> DEFINE c == ChangeBuffer(buf, n)
<1>6. /\ DOMAIN c = Fields /\ Based(c) /\ c.n = n /\ c.lines = h /\ c.page = p
      /\ c.y = buf.y /\ c.top = buf.top /\ c.bottom = buf.bottom /\ c.lr = buf.lr
      /\ c.saved = buf.saved /\ c.alt = buf.alt /\ c.savedY = buf.savedY
      /\ \A v \in 0..(copied - 1) : At(c, v) = At(buf, e - copied + v)
    BY <1>1, <1>3, <1>4, ChangedIs
<1> HIDE DEF c
<1>7. buf' = [c EXCEPT !.size = n]
    BY <1>2 DEF c
<1>8. /\ SameLines(c, buf') /\ buf'.size = n /\ buf'.y = buf.y /\ buf'.top = buf.top /\ buf'.bottom = buf.bottom
      /\ buf'.lr = buf.lr /\ buf'.saved = buf.saved /\ buf'.alt = buf.alt /\ buf'.savedY = buf.savedY
      /\ buf'.lines = h /\ buf'.n = n
    BY <1>6, <1>7 DEF SameLines, Fields
<1>9. Based(buf') /\ Page(buf') = Page(c) /\ History(buf') = History(c)
    BY <1>6, <1>8, SameText
<1>10. Page(c) = Page(buf)
    <2>1. Row(Page(buf), h) /\ \A i \in 1..h : Page(buf)[i] = At(buf, buf.page + i - 1)
        BY <1>1, <1>4, ViewIs
    <2>2. ASSUME NEW i \in 1..h
          PROVE  At(c, c.page + i - 1) = Page(buf)[i]
        <3>1. PICK v \in Int : v = p + i - 1
            BY <1>5
        <3>2. v \in 0..(copied - 1) /\ e - copied + v = buf.page + i - 1
            BY <1>4, <1>5, <3>1
        <3> QED BY <1>6, <2>1, <3>1, <3>2
    <2>3. Shows(c, h, Page(buf))
        BY <1>6, <2>1, <2>2 DEF Shows
    <2> QED BY <2>3, Seen
<1>11. History(c) = Text!Newest(History(buf), n - h)
    <2>1. PICK q, r, s : q = buf.page /\ r = n - h /\ s = Text!Newest(History(buf), r)
        OBVIOUS
    <2>2. q \in Nat /\ r \in Nat /\ p = Least(q, r) /\ q = e - h
        BY <1>5, <2>1
    <2>3. Row(History(buf), q) /\ \A i \in 1..q : History(buf)[i] = At(buf, i - 1)
        BY <1>1, <2>1, ViewIs
    <2>4. LastOf(History(buf), q, Least(q, r), s)
        BY <2>1, <2>2, <2>3, NewestIs
    <2>5. Row(s, p) /\ \A i \in 1..p : s[i] = History(buf)[q - p + i]
        BY <2>2, <2>4 DEF LastOf
    <2>6. ASSUME NEW i \in 1..p
          PROVE  At(c, i - 1) = s[i]
        <3>1. PICK v \in Int, j \in Int : v = i - 1 /\ j = q - p + i
            BY <1>5, <2>2
        <3>2. v \in 0..(copied - 1) /\ e - copied + v = j - 1 /\ j \in 1..q
            <4>1. p <= q
                BY <2>2 DEF Least
            <4> QED BY <1>4, <1>5, <2>2, <3>1, <4>1
        <3>3. At(c, v) = At(buf, j - 1)
            BY <1>6, <3>2
        <3>4. s[i] = At(buf, j - 1)
            BY <2>3, <2>5, <3>1, <3>2
        <3> QED BY <3>1, <3>3, <3>4
    <2>7. Recalls(c, p, s)
        BY <1>6, <2>5, <2>6 DEF Recalls
    <2> QED BY <2>1, <2>7, Seen
<1>12. Steady(buf')
    <2>1. buf'.lines = buf.lines /\ (\E s \in ScrollSizes : s <= buf'.size /\ s <= buf'.n)
        BY <1>2, <1>3, <1>4, <1>8
    <2> QED BY <1>1, <1>8, <2>1 DEF Steady
<1>13. Text!Rekeep
    BY <1>8, <1>9, <1>10, <1>11 DEF Text!Rekeep
<1> QED BY <1>9, <1>12, <1>13 DEF Fits, Text!Next

-----------------------------------------------------------------------------
(* The refinement.                                                          *)

LEMMA InitWhole ==
    ASSUME Init
    PROVE  Whole(buf)
<1>1. PICK h, size, n :
         /\ h \in Heights /\ size \in ScrollSizes /\ n = Most(size, h)
         /\ buf = [n |-> n, size |-> n, lines |-> h, rows |-> [a \in 0..(n - 1) |-> Empty],
                   start |-> 0, end |-> h, endAbs |-> h % n, page |-> 0, ptr |-> 0,
                   y |-> 0, top |-> 0, bottom |-> h - 1, lr |-> FALSE,
                   saved |-> <<>>, alt |-> FALSE, savedY |-> 0]
    BY DEF Init
<1>2. h \in Nat \ {0} /\ 0 \in 0..(h - 1) /\ h - 1 \in 0..(h - 1) /\ 0 < h - 1
    BY <1>1, PageHeight
<1>3. n \in Nat \ {0} /\ h <= n /\ size <= n
    <2>1. size \in Nat
        BY <1>1, BufferAssumption
    <2> QED BY <1>1, <1>2, <2>1 DEF Most
<1>4. /\ buf.n = n /\ buf.size = n /\ buf.lines = h /\ buf.end = h /\ buf.start = 0 /\ buf.page = 0 /\ buf.y = 0
      /\ buf.top = 0 /\ buf.bottom = h - 1 /\ buf.saved = <<>> /\ buf.alt = FALSE /\ buf.savedY = 0
      /\ DOMAIN buf.rows = 0..(n - 1)
    BY <1>1
<1>5. RingInv(buf)
    BY InitRing
<1>6. Based(buf)
    BY <1>2, <1>3, <1>4 DEF Based, Circular
<1>7. Steady(buf)
    <2>1. buf.lines \in Heights /\ buf.y \in 0..(buf.lines - 1) /\ buf.savedY \in Nat
        BY <1>1, <1>2, <1>4
    <2>2. buf.top \in Nat /\ buf.bottom \in 0..(buf.lines - 1) /\ buf.top < buf.bottom
        BY <1>2, <1>4
    <2>3. buf.alt \in BOOLEAN /\ ~buf.alt /\ buf.saved = <<>>
        BY <1>4
    <2>4. \E s \in ScrollSizes : s <= buf.size /\ s <= buf.n
        BY <1>1, <1>3, <1>4
    <2> QED BY <2>1, <2>2, <2>3, <2>4 DEF Steady
<1> QED BY <1>5, <1>6, <1>7 DEF Whole

LEMMA StepFits ==
    ASSUME Whole(buf), [Next]_vars, ClearOnResize, InReach
    PROVE  Fits
<1>1. CASE Put
    BY <1>1, PutFits
<1>2. CASE CSMoveToXY \/ CSSetScrollRegion \/ CSSetLRScrollRegion
    BY <1>2, MovesFit
<1>3. CASE LineFeed \/ CursorUpWithScroll \/ CSInsertLine \/ CSDeleteNLines \/ CSScrollUp \/ CSScrollDown
    BY <1>3, LinesFit
<1>4. CASE CSScreenErase
    BY <1>4, ErasesFit
<1>5. CASE AlternateScreen
    BY <1>5, AlternateFits
<1>6. CASE MainScreen
    BY <1>6, MainFits
<1>7. CASE ChangeTerminalSize
    BY <1>7, ResizeFits
<1>8. CASE HardwareReset \/ OnControlResetTerminal
    BY <1>8, ResetsFit
<1>9. CASE ChangeWin
    BY <1>9, SetupFits
<1>10. CASE UNCHANGED vars
    <2>1. SameLines(buf, buf') /\ buf'.saved = buf.saved /\ Steady(buf')
        BY <1>10 DEF SameLines, Whole, vars
    <2> QED BY <2>1, Unseen
<1> QED
    BY <1>1, <1>2, <1>3, <1>4, <1>5, <1>6, <1>7, <1>8, <1>9, <1>10 DEF Next

LEMMA StepWhole ==
    ASSUME Whole(buf), [Next]_vars, ClearOnResize, InReach
    PROVE  Whole(buf') /\ ((Put /\ ~PtrRight) \/ Text!Next \/ UNCHANGED Text!vars)
<1>1. RingInv(buf')
    BY StepRing DEF Whole
<1> QED BY <1>1, StepFits DEF Whole, Fits

\* The ring is the terminal's text, wherever it wraps around: every control
\* function does to the lines, and to those that have left the page, what the
\* terminal without a ring does, and so does what is written where LinePtr is at
\* the cursor's line.  The page is cleared when its size changes, and no parameter
\* scrolls a buffer by almost all of its lines.
THEOREM PageImplemented == ASSUME ClearOnResize, InReach PROVE Spec => ImplementsPage
<1>1. Init => Whole(buf)
    BY InitWhole
<1>2. Whole(buf) /\ [Next]_vars => Whole(buf)'
    BY StepWhole
<1>3. Whole(buf) /\ [Next]_vars => [(Put /\ ~PtrRight) \/ Text!Next \/ UNCHANGED Text!vars]_vars
    BY StepWhole
<1> QED
    BY <1>1, <1>2, <1>3, PTL DEF Spec, ImplementsPage

=============================================================================
