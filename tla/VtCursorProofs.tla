--------------------------- MODULE VtCursorProofs ---------------------------
(***************************************************************************)
(* The cursor stays in the page, a pending wrap goes with its cursor, a      *)
(* report finds its way back, the main screen's cursor returns and a tab     *)
(* finds the nearest stop, for every size of the page, every parameter and   *)
(* every width of tabs.                                                      *)
(*                                                                         *)
(* What an operation keeps (Keeps) is transitive, so that the operations     *)
(* made of others follow from those; most of them are MoveCursor to a place  *)
(* that is allowed (Lands).                                                  *)
(***************************************************************************)
EXTENDS VtCursor, FiniteSetTheorems, SequenceTheorems, TLAPS

Fields == {"cols", "lines", "status", "x", "y", "wrap", "top", "bottom", "left", "right",
           "tabs", "mode", "ts", "saved", "alt", "line", "main"}

SavedCursor == [x : Nat, y : Nat, mode : SUBSET SavedModes]
Slots == {"main", "alt", "status"}

\* The types, and a page of two columns and a line or more.
Numbers(t) ==
    /\ t.cols \in Nat /\ t.cols >= 2
    /\ t.lines \in Nat /\ t.status \in {0, 1} /\ t.lines > t.status
    /\ t.x \in Nat /\ t.y \in Nat
    /\ t.top \in Nat /\ t.bottom \in Nat /\ t.left \in Nat /\ t.right \in Nat
    /\ t.line.x \in Nat /\ t.main.x \in Nat /\ t.main.y \in Nat
    /\ t.main.top \in Nat /\ t.main.bottom \in Nat
Shape(t) == DOMAIN t = Fields /\ DOMAIN t.line = {"x", "wrap"}
Stores(t) == t.tabs \in Seq(Nat) /\ t.saved \in [Slots -> SavedCursor]
Typed(t) == Shape(t) /\ Numbers(t) /\ Stores(t)

PageStays(t, u) == InPage(t) => InPage(u)
WrapStays(t, u) == InPage(t) /\ WrapsAtEnd(t) => WrapsAtEnd(u)
\* The stops are kept in order, and with the alternate screen in use what the
\* main screen saved.
Rising(tabs) == \A i \in DOMAIN tabs : \A j \in DOMAIN tabs : i < j => tabs[i] < tabs[j]
StoresStay(t, u) ==
    /\ u.alt => t.alt /\ u.saved["main"] = t.saved["main"]
    /\ Rising(t.tabs) => Rising(u.tabs)
Holds(t, u) == Typed(u) /\ PageStays(t, u) /\ StoresStay(t, u)
Keeps(t, u) == Holds(t, u) /\ WrapStays(t, u)
\* What may stray from the status line keeps the page elsewhere.
KeepsOnPage(t, u) ==
    /\ Typed(u) /\ WrapStays(t, u) /\ StoresStay(t, u)
    /\ ~isCursorOnStatusLine(t) => PageStays(t, u)

\* Where a cursor may go: never off the status line.
Goes(t, x, y) == x \in Columns(t) /\ IF isCursorOnStatusLine(t) THEN y = t.y ELSE y \in Rows(t)
Lands(t, x, y) == x \in Nat /\ y \in Nat /\ (InPage(t) => Goes(t, x, y))

At(u, x, y) == u.x = x /\ u.y = y /\ u.wrap = FALSE

\* All but the cursor's position and Wrap.
Rest(t, u) ==
    /\ DOMAIN u = Fields
    /\ u.cols = t.cols /\ u.lines = t.lines /\ u.status = t.status
    /\ u.top = t.top /\ u.bottom = t.bottom /\ u.left = t.left /\ u.right = t.right
    /\ u.tabs = t.tabs /\ u.mode = t.mode /\ u.ts = t.ts /\ u.saved = t.saved /\ u.alt = t.alt
    /\ u.line = t.line /\ u.main = t.main

LEMMA KeepsItself ==
    ASSUME NEW t, Typed(t)
    PROVE  Keeps(t, t)
BY DEF Keeps, Holds, PageStays, WrapStays, StoresStay

LEMMA KeepsThrough ==
    ASSUME NEW t, NEW u, NEW v, Keeps(t, u), Keeps(u, v)
    PROVE  Keeps(t, v)
BY DEF Keeps, Holds, PageStays, WrapStays, StoresStay

-----------------------------------------------------------------------------
(* Movement.                                                               *)

LEMMA MoveCursorRest ==
    ASSUME NEW t, Typed(t), NEW x, NEW y
    PROVE  Rest(t, MoveCursor(t, x, y)) /\ At(MoveCursor(t, x, y), x, y)
BY DEF MoveCursor, At, Rest, Typed, Shape, Fields

LEMMA RestTyped ==
    ASSUME NEW t, NEW u, Typed(t), Rest(t, u), u.x \in Nat, u.y \in Nat
    PROVE  Typed(u)
<1>1. Numbers(u)
    BY DEF Rest, Typed, Numbers
<1>2. Shape(u) /\ Stores(u)
    BY DEF Rest, Typed, Shape, Stores
<1> QED
    BY <1>1, <1>2 DEF Typed

LEMMA RestThrough ==
    ASSUME NEW t, NEW u, NEW v, Rest(t, u), Rest(u, v)
    PROVE  Rest(t, v)
BY DEF Rest

LEMMA RestInPage ==
    ASSUME NEW t, NEW u, Typed(t), Rest(t, u), InPage(t), Goes(t, u.x, u.y)
    PROVE  InPage(u)
<1>1. InColumns(u)
    BY DEF Rest, Typed, Numbers, InPage, InColumns, InRows, Goes, isCursorOnStatusLine, Columns, LastColumn, Rows, LastRow
<1>2. InRows(u)
    BY DEF Rest, Typed, Numbers, InPage, InRows, Goes, isCursorOnStatusLine, Rows, LastRow
<1> QED
    BY <1>1, <1>2 DEF InPage

LEMMA MoveCursorKeeps ==
    ASSUME NEW t, Typed(t), NEW x, NEW y, Lands(t, x, y)
    PROVE  Keeps(t, MoveCursor(t, x, y))
<1> DEFINE u == MoveCursor(t, x, y)
<1>1. Rest(t, u) /\ At(u, x, y)
    BY MoveCursorRest
<1> HIDE DEF u
<1>2. Rest(t, u) /\ u.x = x /\ u.y = y /\ u.wrap = FALSE
    BY <1>1 DEF At
<1>3. Typed(u)
    BY <1>2, RestTyped DEF Lands
<1>4. PageStays(t, u)
    BY <1>2, RestInPage DEF Lands, PageStays
<1>5. WrapStays(t, u) /\ StoresStay(t, u)
    BY <1>2 DEF WrapStays, StoresStay, WrapsAtEnd, Rest
<1> QED
    BY <1>3, <1>4, <1>5 DEF Keeps, Holds, u

\* Wherever it goes.
LEMMA MoveCursorTyped ==
    ASSUME NEW t, Typed(t), NEW x \in Nat, NEW y \in Nat
    PROVE  /\ Typed(MoveCursor(t, x, y)) /\ WrapStays(t, MoveCursor(t, x, y))
           /\ StoresStay(t, MoveCursor(t, x, y))
<1> DEFINE u == MoveCursor(t, x, y)
<1>1. Rest(t, u) /\ At(u, x, y)
    BY MoveCursorRest
<1> HIDE DEF u
<1>2. Typed(u)
    BY <1>1, RestTyped DEF At
<1>3. WrapStays(t, u) /\ StoresStay(t, u)
    BY <1>1 DEF WrapStays, StoresStay, WrapsAtEnd, Rest, At
<1> QED
    BY <1>2, <1>3 DEF u

\* The same of a step that also sets Wrap.
LEMMA StepKeeps ==
    ASSUME NEW t, NEW u, Typed(t), Rest(t, u), Lands(t, u.x, u.y),
           InPage(t) /\ u.wrap => u.x \in {t.right, LastColumn(t)}
    PROVE  Keeps(t, u)
<1>1. Typed(u)
    BY RestTyped DEF Lands
<1>2. PageStays(t, u)
    BY RestInPage DEF Lands, PageStays
<1>3. WrapStays(t, u) /\ StoresStay(t, u)
    BY DEF WrapStays, StoresStay, WrapsAtEnd, Rest, LastColumn
<1> QED
    BY <1>1, <1>2, <1>3 DEF Keeps, Holds

\* InPage and Lands in plain inequalities.
LEMMA Inside ==
    ASSUME NEW t, Typed(t), InPage(t)
    PROVE  /\ t.x < t.cols /\ t.left < t.right /\ t.right < t.cols /\ t.line.x < t.cols
           /\ isCursorOnStatusLine(t) =>
                /\ t.status = 1 /\ t.y = t.lines - 1 /\ t.top = t.y /\ t.bottom = t.y
                /\ t.main.x < t.cols /\ t.main.y < t.lines - t.status
                /\ t.main.bottom < t.lines - t.status /\ t.main.top <= t.main.bottom
           /\ ~isCursorOnStatusLine(t) =>
                t.y < t.lines - t.status /\ t.bottom < t.lines - t.status /\ t.top <= t.bottom
<1>1. t.x < t.cols /\ t.left < t.right /\ t.right < t.cols /\ t.line.x < t.cols
    <2>1. t.x \in Columns(t) /\ t.right \in Columns(t) /\ t.line.x \in Columns(t) /\ t.left < t.right
        BY DEF InPage, InColumns
    <2>2. t.cols \in Nat /\ t.x \in Nat /\ t.right \in Nat /\ t.line.x \in Nat
        BY DEF Typed, Numbers
    <2> QED
        BY <2>1, <2>2 DEF Columns, LastColumn
<1>2. CASE isCursorOnStatusLine(t)
    <2>1. t.main.x < t.cols /\ t.status = 1 /\ t.y = t.lines - 1
        BY <1>2 DEF Typed, Numbers, InPage, InColumns, Columns, LastColumn, isCursorOnStatusLine
    <2>2. /\ t.top = t.y /\ t.bottom = t.y /\ t.main.top <= t.main.bottom
          /\ t.main.y < t.lines - t.status /\ t.main.bottom < t.lines - t.status
        BY <1>2 DEF Typed, Numbers, InPage, InRows, Rows, LastRow
    <2> QED
        BY <1>1, <1>2, <2>1, <2>2
<1>3. CASE ~isCursorOnStatusLine(t)
    <2>1. t.y < t.lines - t.status /\ t.bottom < t.lines - t.status /\ t.top <= t.bottom
        BY <1>3 DEF Typed, Numbers, InPage, InRows, Rows, LastRow
    <2> QED
        BY <1>1, <1>3, <2>1
<1> QED
    BY <1>2, <1>3

LEMMA LandsInside ==
    ASSUME NEW t, Typed(t), NEW x \in Nat, NEW y \in Nat,
           InPage(t) => /\ x < t.cols
                        /\ isCursorOnStatusLine(t) => y = t.y
                        /\ ~isCursorOnStatusLine(t) => y < t.lines - t.status
    PROVE  Lands(t, x, y)
BY DEF Typed, Numbers, Lands, Goes, Columns, LastColumn, Rows, LastRow

LEMMA CarriageReturnKeeps ==
    ASSUME NEW t, Typed(t)
    PROVE  Keeps(t, CarriageReturn(t))
<1>1. Lands(t, t.left, t.y) /\ Lands(t, 0, t.y)
    BY Inside, LandsInside DEF Typed, Numbers
<1> QED
    BY <1>1, MoveCursorKeeps, KeepsItself DEF CarriageReturn

LEMMA LineFeedKeeps ==
    ASSUME NEW t, Typed(t)
    PROVE  Keeps(t, LineFeed(t))
<1> DEFINE s == IF t.y < t.bottom \/ (t.y > t.bottom /\ t.y < LastRow(t))
                  THEN MoveCursor(t, t.x, t.y + 1) ELSE t
<1>1. t.y < t.bottom \/ (t.y > t.bottom /\ t.y < LastRow(t)) => Lands(t, t.x, t.y + 1)
    BY Inside, LandsInside DEF Typed, Numbers, LastRow
<1>2. Keeps(t, s)
    BY <1>1, MoveCursorKeeps, KeepsItself
<1> HIDE DEF s
<1>3. Keeps(s, CarriageReturn(s))
    BY <1>2, CarriageReturnKeeps DEF Keeps, Holds
<1> QED
    BY <1>2, <1>3, KeepsThrough DEF LineFeed, s

LEMMA NextLineKeeps ==
    ASSUME NEW t, Typed(t)
    PROVE  Keeps(t, NextLine(t))
<1>1. Keeps(t, CarriageReturn(t))
    BY CarriageReturnKeeps
<1>2. Keeps(CarriageReturn(t), NextLine(t))
    BY <1>1, LineFeedKeeps DEF NextLine, Keeps, Holds
<1> QED
    BY <1>1, <1>2, KeepsThrough

LEMMA AdvancedKeeps ==
    ASSUME NEW t, NEW u, Holds(t, u), NEW n \in {1, 2}, NEW ends \in BOOLEAN,
           InPage(t) => u.x + (IF ends THEN n - 1 ELSE n) < u.cols,
           InPage(t) /\ ends => u.x + n - 1 \in {u.right, LastColumn(u)}
    PROVE  Keeps(t, Advanced(u, n, ends))
<1> DEFINE v == Advanced(u, n, ends)
<1>1. Typed(u)
    BY DEF Holds
<1>2. Rest(u, v) /\ v.y = u.y /\ v.x = u.x + (IF ends THEN n - 1 ELSE n)
    BY <1>1 DEF Advanced, Rest, Typed, Shape, Fields
<1>3. v.wrap => ends
    BY <1>1 DEF Advanced, Typed, Shape, Fields
<1> HIDE DEF v
<1>4. v.x \in Nat /\ v.y \in Nat
    BY <1>1, <1>2 DEF Typed, Numbers
<1>5. InPage(t) => InPage(v)
    <2> SUFFICES ASSUME InPage(t) PROVE InPage(v)
        OBVIOUS
    <2>1. InPage(u)
        BY DEF Holds, PageStays
    <2>2. Lands(u, v.x, v.y)
        BY <1>1, <1>2, <1>4, <2>1, Inside, LandsInside DEF Typed, Numbers
    <2> QED
        BY <1>1, <1>2, <2>1, <2>2, RestInPage DEF Lands
<1>6. InPage(t) /\ v.wrap => v.x \in {v.right, LastColumn(v)}
    BY <1>2, <1>3 DEF Rest, LastColumn
<1>7. Typed(v)
    BY <1>1, <1>2, <1>4, RestTyped
<1>8. StoresStay(t, v)
    BY <1>2 DEF Holds, StoresStay, Rest
<1> QED
    BY <1>5, <1>6, <1>7, <1>8 DEF Keeps, Holds, PageStays, WrapStays, WrapsAtEnd, v

-----------------------------------------------------------------------------
(* Characters.                                                             *)

\* A new line begins at the left margin or in the first column.
LEMMA NextLineStarts ==
    ASSUME NEW t, Typed(t)
    PROVE  Rest(t, NextLine(t)) /\ NextLine(t).x \in {t.left, 0}
<1> DEFINE Starts(u) == Rest(t, u) /\ u.x \in {t.left, 0} /\ Typed(u)
<1>1. Rest(t, t)
    BY DEF Rest, Typed, Shape
<1>2. ASSUME NEW u, Typed(u), Rest(t, u)
      PROVE  Starts(CarriageReturn(u))
    <2>1. Typed(CarriageReturn(u))
        BY <1>2, CarriageReturnKeeps DEF Keeps, Holds
    <2>2. Rest(t, CarriageReturn(u))
        <3>1. Rest(u, MoveCursor(u, u.left, u.y)) /\ Rest(u, MoveCursor(u, 0, u.y))
            BY <1>2, MoveCursorRest
        <3> QED
            BY <1>2, <3>1, RestThrough DEF CarriageReturn
    <2>3. CarriageReturn(u).x \in {t.left, 0}
        <3>1. u.left = t.left /\ u.x \in Nat /\ u.left \in Nat
            BY <1>2 DEF Rest, Typed, Numbers
        <3>2. At(MoveCursor(u, u.left, u.y), u.left, u.y) /\ At(MoveCursor(u, 0, u.y), 0, u.y)
            BY <1>2, MoveCursorRest
        <3>3. MoveCursor(u, u.left, u.y).x = u.left /\ MoveCursor(u, 0, u.y).x = 0
            BY <3>2 DEF At
        <3>4. CASE u.x > u.left \/ u.x < u.left
            BY <3>1, <3>3, <3>4 DEF CarriageReturn
        <3>5. CASE u.x = u.left
            BY <3>1, <3>3, <3>5 DEF CarriageReturn
        <3> QED
            BY <3>1, <3>4, <3>5
    <2> QED
        BY <2>1, <2>2, <2>3
<1> DEFINE r == CarriageReturn(t)
           s == IF r.y < r.bottom \/ (r.y > r.bottom /\ r.y < LastRow(r))
                  THEN MoveCursor(r, r.x, r.y + 1) ELSE r
<1>3. Starts(r)
    BY <1>1, <1>2
<1>4. Starts(s)
    <2>1. Typed(r) /\ r.y + 1 \in Nat /\ r.x \in Nat
        BY <1>3 DEF Typed, Numbers
    <2>2. Rest(r, MoveCursor(r, r.x, r.y + 1)) /\ At(MoveCursor(r, r.x, r.y + 1), r.x, r.y + 1)
        BY <2>1, MoveCursorRest
    <2>3. MoveCursor(r, r.x, r.y + 1).x = r.x /\ MoveCursor(r, r.x, r.y + 1).y = r.y + 1
        BY <2>2 DEF At
    <2>4. Starts(MoveCursor(r, r.x, r.y + 1))
        <3>1. Rest(t, MoveCursor(r, r.x, r.y + 1))
            BY <1>3, <2>2, RestThrough
        <3>2. Typed(MoveCursor(r, r.x, r.y + 1))
            BY <2>1, <2>2, <2>3, RestTyped
        <3> QED
            BY <1>3, <2>3, <3>1, <3>2
    <2> QED
        BY <1>3, <2>4
<1>5. NextLine(t) = IF Is(s, "LNM") THEN CarriageReturn(s) ELSE s
    BY DEF NextLine, LineFeed
<1> HIDE DEF r, s
<1> QED
    BY <1>2, <1>4, <1>5

LEMMA PutHalfKeeps ==
    ASSUME NEW t, Typed(t)
    PROVE  Keeps(t, PutHalf(t))
<1> DEFINE s == IF t.wrap THEN NextLine(t) ELSE t
           ends == s.x = s.right \/ s.x >= LastColumn(s)
<1>1. Keeps(t, s)
    BY NextLineKeeps, KeepsItself
<1> HIDE DEF s
<1>2. Typed(s)
    BY <1>1 DEF Keeps, Holds
<1>3. InPage(t) => s.x + (IF ends THEN 0 ELSE 1) < s.cols
    BY <1>1, <1>2, Inside DEF Keeps, Holds, PageStays, Typed, Numbers, LastColumn
<1>4. InPage(t) /\ ends => s.x \in {s.right, LastColumn(s)}
    BY <1>1, <1>2, Inside DEF Keeps, Holds, PageStays, Typed, Numbers, LastColumn
<1>5. Keeps(t, Advanced(s, 1, ends))
    <2> HIDE DEF ends
    <2>1. s.x + 1 - 1 = s.x /\ 1 - 1 = 0
        BY <1>2 DEF Typed, Numbers
    <2>2. ends \in BOOLEAN
        BY DEF ends
    <2> QED
        BY <1>1, <1>3, <1>4, <2>1, <2>2, AdvancedKeeps DEF Keeps
<1> QED
    BY <1>5 DEF PutHalf, s

LEMMA PutWideKeeps ==
    ASSUME NEW t, Typed(t)
    PROVE  Keeps(t, PutWide(t))
<1> DEFINE s == IF t.wrap THEN NextLine(t) ELSE t
           u == IF ~NoRoom(s) THEN s ELSE IF Is(s, "DECAWM") THEN NextLine(s) ELSE [s EXCEPT !.x = 0]
           ends == u.x + 1 = u.right \/ u.x + 1 >= LastColumn(u)
<1>1. Keeps(t, s)
    BY NextLineKeeps, KeepsItself
<1> HIDE DEF s
<1>2. Typed(s)
    BY <1>1 DEF Keeps, Holds
<1> DEFINE first == [s EXCEPT !.x = 0]
<1>3. Rest(s, first) /\ first.x = 0 /\ first.y = s.y /\ first.wrap = s.wrap
    BY <1>2 DEF Rest, Typed, Shape, Fields
<1> HIDE DEF first
<1>4. Typed(first) /\ (InPage(s) => InPage(first)) /\ StoresStay(s, first)
    <2>1. Lands(s, 0, s.y)
        BY <1>2, Inside, LandsInside DEF Typed, Numbers
    <2>2. Typed(first)
        BY <1>2, <1>3, RestTyped DEF Typed, Numbers
    <2>3. InPage(s) => InPage(first)
        BY <1>2, <1>3, <2>1, RestInPage DEF Lands
    <2> QED
        BY <1>3, <2>2, <2>3 DEF StoresStay, Rest
<1>5. Typed(u) /\ (InPage(s) => InPage(u)) /\ StoresStay(s, u)
    <2>1. Keeps(s, NextLine(s)) /\ Keeps(s, s)
        BY <1>2, NextLineKeeps, KeepsItself
    <2> QED
        BY <1>4, <2>1 DEF Keeps, Holds, PageStays, first
<1>6. InPage(s) => u.x + 1 < u.cols
    <2>1. CASE ~NoRoom(s)
        <3>1. InPage(s) => s.x + 1 < s.cols
            BY <1>2, <2>1, Inside DEF NoRoom, LineEnd, LastColumn, Typed, Numbers
        <3> QED
            BY <2>1, <3>1
    <2>2. ASSUME NEW v, Rest(s, v), v.x \in {s.left, 0}
          PROVE  InPage(s) => v.x + 1 < v.cols
        <3>1. InPage(s) => s.left + 1 < s.cols /\ 0 + 1 < s.cols
            BY <1>2, Inside DEF Typed, Numbers
        <3> QED
            BY <2>2, <3>1 DEF Rest
    <2>3. CASE NoRoom(s) /\ Is(s, "DECAWM")
        BY <1>2, <2>2, <2>3, NextLineStarts
    <2>4. CASE NoRoom(s) /\ ~Is(s, "DECAWM")
        <3>1. u = first
            BY <2>4 DEF first
        <3> QED
            BY <1>3, <2>2, <3>1
    <2> QED
        BY <2>1, <2>3, <2>4
<1> HIDE DEF u
<1>7. Holds(t, u)
    BY <1>1, <1>5 DEF Keeps, Holds, PageStays, StoresStay
<1>8. InPage(t) => u.x + 1 < u.cols
    BY <1>1, <1>6 DEF Keeps, Holds, PageStays
<1> HIDE DEF u
<1>9. ends \in BOOLEAN
    OBVIOUS
<1>10. /\ InPage(t) => u.x + (IF ends THEN 2 - 1 ELSE 2) < u.cols
       /\ InPage(t) /\ ends => u.x + 2 - 1 \in {u.right, LastColumn(u)}
    BY <1>5, <1>8 DEF Typed, Numbers, LastColumn
<1> HIDE DEF ends
<1>11. Keeps(t, Advanced(u, 2, ends))
    BY <1>7, <1>9, <1>10, AdvancedKeeps
<1> QED
    BY <1>11 DEF PutWide, s, u, ends

LEMMA PutKanjiKeeps ==
    ASSUME NEW t, Typed(t)
    PROVE  Keeps(t, PutKanji(t))
<1> DEFINE end == LineEnd(t)
           full == t.x > end - 1
           s == IF t.wrap \/ full THEN NextLine(t) ELSE t
           ends == s.x = end - 1
<1>1. Keeps(t, s)
    BY NextLineKeeps, KeepsItself
<1>2. end \in {t.right, LastColumn(t)}
    BY DEF LineEnd
<1>3. Rest(t, s) /\ (s.x \in {t.left, 0} \/ (~full /\ s.x = t.x))
    <2>1. Rest(t, t)
        BY DEF Rest, Typed, Shape
    <2>2. CASE t.wrap \/ full
        <3>1. s = NextLine(t)
            BY <2>2
        <3> HIDE DEF s, full
        <3> QED
            BY <3>1, NextLineStarts
    <2>3. CASE ~(t.wrap \/ full)
        <3>1. s = t /\ ~full
            BY <2>3
        <3> HIDE DEF s, full
        <3> QED
            BY <2>1, <3>1
    <2> QED
        BY <2>2, <2>3
<1>4. InPage(t) => s.x < end
    <2>1. InPage(t) => t.left < end /\ 0 < end
        BY <1>2, Inside DEF Typed, Numbers, LastColumn
    <2>2. ~full => t.x < end
        BY <1>2 DEF Typed, Numbers, LastColumn
    <2> HIDE DEF end, full, s
    <2> QED
        BY <1>3, <2>1, <2>2
<1> HIDE DEF s, full
<1>5. InPage(t) => s.x + 1 < s.cols
    BY <1>1, <1>2, <1>3, <1>4, Inside DEF Keeps, Holds, Typed, Numbers, Rest, LastColumn
<1>6. ASSUME s.x < end
      PROVE  Keeps(t, Advanced(s, 2, ends))
    <2>1. /\ InPage(t) => s.x + (IF ends THEN 2 - 1 ELSE 2) < s.cols
          /\ InPage(t) /\ ends => s.x + 2 - 1 \in {s.right, LastColumn(s)}
        BY <1>1, <1>2, <1>3, <1>5, <1>6, Inside DEF Keeps, Holds, Typed, Numbers, Rest, LastColumn
    <2>2. ends \in BOOLEAN
        OBVIOUS
    <2> HIDE DEF ends
    <2> QED
        BY <1>1, <2>1, <2>2, AdvancedKeeps DEF Keeps
<1>7. ASSUME ~(s.x < end)
      PROVE  Keeps(t, Advanced(s, 1, TRUE))
    BY <1>1, <1>4, <1>7, AdvancedKeeps DEF Keeps
<1>8. Keeps(t, t)
    BY KeepsItself
<1> QED
    BY <1>6, <1>7, <1>8 DEF PutKanji, full, s

LEMMA BackSpaceMoves ==
    ASSUME NEW t, Typed(t)
    PROVE  KeepsOnPage(t, BackSpace(t))
<1> USE DEF KeepsOnPage
<1>1. CASE t.x \notin {t.left, 0}
    <2>1. Lands(t, t.x - 1, t.y)
        BY <1>1, Inside, LandsInside DEF Typed, Numbers
    <2> QED
        BY <1>1, <2>1, MoveCursorKeeps DEF BackSpace, Keeps, Holds
<1>2. CASE t.x \in {t.left, 0} /\ t.y > 0 /\ "BACKWRAP" \in t.ts
    <2> DEFINE u == MoveCursor(t, t.right, t.y - 1)
    <2>1. t.right \in Nat /\ t.y - 1 \in Nat
        BY <1>2 DEF Typed, Numbers
    <2>2. Typed(u) /\ WrapStays(t, u) /\ StoresStay(t, u)
        BY <2>1, MoveCursorTyped
    <2>3. ~isCursorOnStatusLine(t) => Lands(t, t.right, t.y - 1)
        BY <2>1, Inside, LandsInside DEF Typed, Numbers
    <2>4. ~isCursorOnStatusLine(t) => PageStays(t, u)
        BY <2>3, MoveCursorKeeps DEF Keeps, Holds
    <2>5. BackSpace(t) = u
        BY <1>2 DEF BackSpace
    <2> QED
        BY <2>2, <2>4, <2>5
<1>3. CASE t.x \in {t.left, 0} /\ ~(t.y > 0 /\ "BACKWRAP" \in t.ts)
    BY <1>3, KeepsItself DEF BackSpace, Keeps, Holds
<1> QED
    BY <1>1, <1>2, <1>3

LEMMA IndexesKeep ==
    ASSUME NEW t, Typed(t)
    PROVE  /\ Keeps(t, BackIndex(t)) /\ Keeps(t, ForwardIndex(t)) /\ Keeps(t, CursorUpWithScroll(t))
           /\ Keeps(t, NelC1(t)) /\ Keeps(t, NelEscape(t))
<1>1. Keeps(t, BackIndex(t))
    <2>1. InMargins(t) /\ t.x # t.left => Lands(t, t.x - 1, t.y)
        BY Inside, LandsInside DEF Typed, Numbers, InMargins
    <2> QED
        BY <2>1, MoveCursorKeeps, KeepsItself DEF BackIndex
<1>2. Keeps(t, ForwardIndex(t))
    <2>1. InMargins(t) /\ t.x # t.right => Lands(t, t.x + 1, t.y)
        BY Inside, LandsInside DEF Typed, Numbers, InMargins
    <2> QED
        BY <2>1, MoveCursorKeeps, KeepsItself DEF ForwardIndex
<1>3. Keeps(t, CursorUpWithScroll(t))
    <2>1. t.y > t.top \/ (0 < t.y /\ t.y < t.top) => Lands(t, t.x, t.y - 1)
        BY Inside, LandsInside DEF Typed, Numbers
    <2> QED
        BY <2>1, MoveCursorKeeps, KeepsItself DEF CursorUpWithScroll
<1>4. Keeps(t, NelC1(t))
    <2>1. Keeps(t, LineFeed(t))
        BY LineFeedKeeps
    <2>2. Keeps(LineFeed(t), NelC1(t))
        BY <2>1, CarriageReturnKeeps DEF NelC1, Keeps, Holds
    <2> QED
        BY <2>1, <2>2, KeepsThrough
<1>5. Keeps(t, NelEscape(t))
    <2>1. Lands(t, 0, t.y)
        BY Inside, LandsInside DEF Typed, Numbers
    <2>2. Keeps(t, MoveCursor(t, 0, t.y))
        BY <2>1, MoveCursorKeeps
    <2>3. Keeps(MoveCursor(t, 0, t.y), NelEscape(t))
        BY <2>2, LineFeedKeeps DEF NelEscape, Keeps, Holds
    <2> QED
        BY <2>2, <2>3, KeepsThrough
<1> QED
    BY <1>1, <1>2, <1>3, <1>4, <1>5

-----------------------------------------------------------------------------
(* Tab stops and modes.                                                    *)

\* Nothing but stops and modes changes.
StaysPut(t, u) ==
    /\ DOMAIN u = Fields
    /\ u.cols = t.cols /\ u.lines = t.lines /\ u.status = t.status
    /\ u.x = t.x /\ u.y = t.y /\ u.wrap = t.wrap
    /\ u.top = t.top /\ u.bottom = t.bottom /\ u.left = t.left /\ u.right = t.right
    /\ u.saved = t.saved /\ u.alt = t.alt /\ u.line = t.line /\ u.main = t.main

LEMMA StaysPutKeeps ==
    ASSUME NEW t, NEW u, Typed(t), StaysPut(t, u), u.tabs \in Seq(Nat), Rising(t.tabs) => Rising(u.tabs),
           InPage(t) => \A i \in DOMAIN u.tabs : u.tabs[i] \in Columns(t)
    PROVE  Keeps(t, u)
<1>1. Typed(u)
    <2>1. Numbers(u)
        BY DEF StaysPut, Typed, Numbers
    <2>2. Shape(u) /\ Stores(u)
        BY DEF StaysPut, Typed, Shape, Stores
    <2> QED
        BY <2>1, <2>2 DEF Typed
<1>2. PageStays(t, u)
    <2> SUFFICES ASSUME InPage(t) PROVE InPage(u)
        BY DEF PageStays
    <2>1. InColumns(u)
        BY DEF StaysPut, InPage, InColumns, Columns, LastColumn, isCursorOnStatusLine
    <2>2. InRows(u)
        BY DEF StaysPut, InPage, InRows, Rows, LastRow, isCursorOnStatusLine
    <2> QED
        BY <2>1, <2>2 DEF InPage
<1>3. WrapStays(t, u) /\ StoresStay(t, u)
    BY DEF StaysPut, WrapStays, WrapsAtEnd, StoresStay, LastColumn
<1> QED
    BY <1>1, <1>2, <1>3 DEF Keeps, Holds

LEMMA SetModeKeeps ==
    ASSUME NEW t, Typed(t), NEW m
    PROVE  /\ Keeps(t, SetMode(t, m)) /\ StaysPut(t, SetMode(t, m)) /\ SetMode(t, m).tabs = t.tabs
           /\ Keeps(t, ResetMode(t, m)) /\ StaysPut(t, ResetMode(t, m)) /\ ResetMode(t, m).tabs = t.tabs
<1>1. t.tabs \in Seq(Nat) /\ (InPage(t) => \A i \in DOMAIN t.tabs : t.tabs[i] \in Columns(t))
    BY DEF Typed, Stores, InPage, InColumns
<1>2. StaysPut(t, SetMode(t, m)) /\ SetMode(t, m).tabs = t.tabs
    BY DEF StaysPut, SetMode, Typed, Shape, Fields
<1>3. StaysPut(t, ResetMode(t, m)) /\ ResetMode(t, m).tabs = t.tabs
    BY DEF StaysPut, ResetMode, Typed, Shape, Fields
<1> QED
    BY <1>1, <1>2, <1>3, StaysPutKeeps

\* The search finds the first stop at x or behind it.
LEMMA PrecedingIs ==
    ASSUME NEW tabs \in Seq(Nat), NEW x \in Int
    PROVE  LET n == Preceding(tabs, x)
           IN /\ n \in 0..Len(tabs)
              /\ \A j \in 1..n : tabs[j] < x
              /\ n < Len(tabs) => tabs[n + 1] >= x
<1> DEFINE S == {i \in DOMAIN tabs : \A j \in 1..i : tabs[j] < x}
           n == Cardinality(S)
<1>1. DOMAIN tabs = 1..Len(tabs) /\ Len(tabs) \in Nat /\ \A i \in 1..Len(tabs) : tabs[i] \in Nat
    OBVIOUS
<1>2. \A k \in Nat : IsFiniteSet(1..k) /\ Cardinality(1..k) = k
    BY FS_Interval
<1>3. S \in SUBSET (1..Len(tabs)) /\ \A i \in S : \A j \in 1..i : tabs[j] < x
    BY <1>1
<1>4. \A i \in S : 1..i \subseteq S
    BY <1>1
<1>5. \A k \in 1..Len(tabs) : (\A j \in 1..k : tabs[j] < x) => k \in S
    BY <1>1
<1> HIDE DEF S
<1>6. IsFiniteSet(S) /\ Cardinality(S) <= Cardinality(1..Len(tabs))
    BY <1>1, <1>2, <1>3, FS_Subset
<1>7. n \in Nat /\ n <= Len(tabs)
    BY <1>1, <1>2, <1>6, FS_CardinalityType
<1>8. ASSUME n > 0, n \notin S
      PROVE  FALSE
    <2>1. S \in SUBSET (1..(n - 1))
        BY <1>3, <1>4, <1>7, <1>8
    <2>2. n - 1 \in Nat
        BY <1>7, <1>8
    <2>3. Cardinality(S) <= Cardinality(1..(n - 1)) /\ Cardinality(1..(n - 1)) = n - 1
        BY <1>2, <2>1, <2>2, FS_Subset
    <2> QED
        BY <1>7, <2>3
<1>9. ASSUME n < Len(tabs), tabs[n + 1] < x
      PROVE  FALSE
    <2>1. \A j \in 1..n : tabs[j] < x
        BY <1>3, <1>7, <1>8
    <2>2. n + 1 \in S
        BY <1>5, <1>7, <1>9, <2>1
    <2>3. (1..(n + 1)) \in SUBSET S
        BY <1>4, <2>2
    <2>4. Cardinality(1..(n + 1)) <= Cardinality(S)
        BY <1>6, <2>3, FS_Subset
    <2>5. n + 1 \in Nat
        BY <1>7
    <2>6. Cardinality(1..(n + 1)) = n + 1
        BY <1>2, <2>5
    <2> QED
        BY <1>7, <2>4, <2>6
<1>10. \A j \in 1..n : tabs[j] < x
    BY <1>3, <1>7, <1>8
<1>11. n < Len(tabs) => tabs[n + 1] >= x
    BY <1>1, <1>7, <1>9
<1>12. Preceding(tabs, x) = n
    BY DEF Preceding, S
<1> HIDE DEF n
<1> QED
    BY <1>1, <1>7, <1>10, <1>11, <1>12

LEMMA PrecedingRange ==
    ASSUME NEW tabs \in Seq(Nat), NEW x \in Int
    PROVE  Preceding(tabs, x) \in 0..Len(tabs)
<1> DEFINE n == Preceding(tabs, x)
<1>1. n \in 0..Len(tabs)
    BY PrecedingIs
<1> QED
    BY <1>1

\* Stops stay in a set, be it the numbers or the columns.
LEMMA StopsIn ==
    ASSUME NEW S, NEW tabs \in Seq(S), NEW x \in S, NEW i \in 1..(Len(tabs) + 1)
    PROVE  InsertAt(tabs, i, x) \in Seq(S) /\ (i <= Len(tabs) => RemoveAt(tabs, i) \in Seq(S))
<1>1. SubSeq(tabs, 1, i - 1) \in Seq(S) /\ SubSeq(tabs, i, Len(tabs)) \in Seq(S)
    BY SubSeqProperties
<1>2. SubSeq(tabs, i + 1, Len(tabs)) \in Seq(S)
    BY SubSeqProperties
<1>3. <<x>> \in Seq(S)
    OBVIOUS
<1> QED
    BY <1>1, <1>2, <1>3, ConcatProperties DEF InsertAt, RemoveAt

\* A stop set before the first that is behind it, and a stop taken out.
LEMMA StopsRise ==
    ASSUME NEW tabs \in Seq(Nat), Rising(tabs), NEW x \in Nat, NEW i \in 1..(Len(tabs) + 1)
    PROVE  /\ (\A j \in 1..(i - 1) : tabs[j] < x) /\ (i <= Len(tabs) => x < tabs[i]) => Rising(InsertAt(tabs, i, x))
           /\ i <= Len(tabs) => Rising(RemoveAt(tabs, i))
<1> DEFINE n == Len(tabs)
           a == SubSeq(tabs, 1, i - 1)
           b == SubSeq(tabs, i, n)
           c == SubSeq(tabs, i + 1, n)
           ax == a \o <<x>>
           s == ax \o b
           r == a \o c
<1>1. DOMAIN tabs = 1..n /\ n \in Nat /\ \A j \in 1..n : tabs[j] \in Nat
    OBVIOUS
<1>2. i \in Nat /\ i >= 1 /\ i <= n + 1
    BY <1>1
<1>3. \A j, k \in 1..n : j < k => tabs[j] < tabs[k]
    BY <1>1 DEF Rising
<1>4. a \in Seq(Nat) /\ Len(a) = i - 1 /\ \A j \in 1..(i - 1) : a[j] = tabs[j]
    BY <1>1, <1>2, SubSeqProperties
<1>5. b \in Seq(Nat) /\ Len(b) = n - i + 1 /\ \A j \in 1..(n - i + 1) : b[j] = tabs[i + j - 1]
    BY <1>1, <1>2, SubSeqProperties
<1>6. i <= n => c \in Seq(Nat) /\ Len(c) = n - i /\ \A j \in 1..(n - i) : c[j] = tabs[i + j]
    <2>1. c \in Seq(Nat) /\ Len(c) = (IF i + 1 <= n THEN n - (i + 1) + 1 ELSE 0)
          /\ \A j \in 1..(n - (i + 1) + 1) : c[j] = tabs[i + 1 + j - 1]
        BY <1>1, <1>2, SubSeqProperties
    <2> HIDE DEF c, n
    <2> SUFFICES ASSUME i <= n
                 PROVE  c \in Seq(Nat) /\ Len(c) = n - i /\ \A j \in 1..(n - i) : c[j] = tabs[i + j]
        OBVIOUS
    <2>2. Len(c) = n - i /\ (i + 1 <= n => n - (i + 1) + 1 = n - i)
        BY <1>1, <1>2, <2>1
    <2>3. ASSUME NEW j \in 1..(n - i) PROVE c[j] = tabs[i + j]
        <3>1. i + 1 + j - 1 = i + j /\ j \in 1..(n - (i + 1) + 1)
            BY <1>1, <1>2
        <3>2. c[j] = tabs[i + 1 + j - 1]
            BY <2>1, <3>1
        <3> QED
            BY <3>1, <3>2
    <2> QED
        BY <2>1, <2>2, <2>3
<1>7. <<x>> \in Seq(Nat) /\ Len(<<x>>) = 1 /\ <<x>>[1] = x
    OBVIOUS
<1> HIDE DEF a, b, c, n
<1>8. ax \in Seq(Nat) /\ Len(ax) = i /\ (\A j \in 1..(i - 1) : ax[j] = tabs[j]) /\ ax[i] = x
    <2> DEFINE o == <<x>>
    <2>1. o \in Seq(Nat) /\ Len(o) = 1 /\ o[1] = x
        BY <1>7
    <2> HIDE DEF o
    <2>2. /\ a \o o \in Seq(Nat) /\ Len(a \o o) = Len(a) + Len(o)
          /\ \A j \in 1..(Len(a) + Len(o)) : (a \o o)[j] = IF j <= Len(a) THEN a[j] ELSE o[j - Len(a)]
        BY <1>4, <2>1, ConcatProperties
    <2> DEFINE ao == a \o o
    <2>3. ax = ao
        BY DEF o
    <2> HIDE DEF ax, ao
    <2>4. ao \in Seq(Nat) /\ Len(ao) = i /\ \A j \in 1..i : ao[j] = IF j <= i - 1 THEN a[j] ELSE o[j - (i - 1)]
        BY <1>2, <1>4, <2>1, <2>2 DEF ao
    <2>5. ASSUME NEW j \in 1..(i - 1) PROVE ao[j] = tabs[j]
        <3>1. j \in 1..i /\ j <= i - 1
            BY <1>2
        <3> QED
            BY <1>4, <2>4, <3>1
    <2>6. ao[i] = x
        <3>1. i \in 1..i /\ ~(i <= i - 1) /\ i - (i - 1) = 1
            BY <1>2
        <3> QED
            BY <2>1, <2>4, <3>1
    <2> QED
        BY <2>3, <2>4, <2>5, <2>6
<1> HIDE DEF ax
<1>9. /\ s \in Seq(Nat) /\ Len(s) = n + 1
      /\ \A j \in 1..(n + 1) : (j < i => s[j] = tabs[j]) /\ (j = i => s[j] = x) /\ (j > i => s[j] = tabs[j - 1])
    <2>1. /\ s \in Seq(Nat) /\ Len(s) = Len(ax) + Len(b)
          /\ \A j \in 1..(Len(ax) + Len(b)) : s[j] = IF j <= Len(ax) THEN ax[j] ELSE b[j - Len(ax)]
        BY <1>5, <1>8, ConcatProperties
    <2> HIDE DEF s
    <2>2. Len(s) = n + 1
        BY <1>1, <1>2, <1>5, <1>8, <2>1
    <2>3. ASSUME NEW j \in 1..(n + 1) PROVE (j < i => s[j] = tabs[j]) /\ (j = i => s[j] = x) /\ (j > i => s[j] = tabs[j - 1])
        <3>1. s[j] = IF j <= i THEN ax[j] ELSE b[j - i]
            BY <1>1, <1>2, <1>5, <1>8, <2>1
        <3>2. CASE j < i
            BY <1>1, <1>2, <1>8, <3>1, <3>2
        <3>3. CASE j = i
            BY <1>2, <1>8, <3>1, <3>3
        <3>4. CASE j > i
            <4>1. j - i \in 1..(n - i + 1) /\ i + (j - i) - 1 = j - 1 /\ ~(j <= i) /\ ~(j < i) /\ ~(j = i)
                BY <1>1, <1>2, <3>4
            <4> QED
                BY <1>5, <3>1, <4>1
        <3> QED
            BY <1>1, <1>2, <3>2, <3>3, <3>4
    <2> QED
        BY <2>1, <2>2, <2>3
<1>10. i <= n => /\ r \in Seq(Nat) /\ Len(r) = n - 1
                 /\ \A j \in 1..(n - 1) : (j < i => r[j] = tabs[j]) /\ (j >= i => r[j] = tabs[j + 1])
    <2> SUFFICES ASSUME i <= n
                 PROVE  /\ r \in Seq(Nat) /\ Len(r) = n - 1
                        /\ \A j \in 1..(n - 1) : (j < i => r[j] = tabs[j]) /\ (j >= i => r[j] = tabs[j + 1])
        OBVIOUS
    <2>1. /\ r \in Seq(Nat) /\ Len(r) = Len(a) + Len(c)
          /\ \A j \in 1..(Len(a) + Len(c)) : r[j] = IF j <= Len(a) THEN a[j] ELSE c[j - Len(a)]
        BY <1>4, <1>6, ConcatProperties
    <2> HIDE DEF r
    <2>2. Len(r) = n - 1
        BY <1>1, <1>2, <1>4, <1>6, <2>1
    <2>3. ASSUME NEW j \in 1..(n - 1) PROVE (j < i => r[j] = tabs[j]) /\ (j >= i => r[j] = tabs[j + 1])
        <3>1. r[j] = IF j <= i - 1 THEN a[j] ELSE c[j - (i - 1)]
            BY <1>1, <1>2, <1>4, <1>6, <2>1
        <3>2. CASE j < i
            BY <1>1, <1>2, <1>4, <3>1, <3>2
        <3>3. CASE j >= i
            <4>1. j - (i - 1) \in 1..(n - i) /\ i + (j - (i - 1)) = j + 1
                BY <1>1, <1>2, <3>3
            <4> QED
                BY <1>1, <1>2, <1>6, <3>1, <3>3, <4>1
        <3> QED
            BY <1>1, <1>2, <3>2, <3>3
    <2> QED
        BY <2>1, <2>2, <2>3
<1>11. InsertAt(tabs, i, x) = s /\ RemoveAt(tabs, i) = r
    BY DEF InsertAt, RemoveAt, s, r, ax, a, b, c, n
<1> HIDE DEF s, r
<1>12. ASSUME \A j \in 1..(i - 1) : tabs[j] < x, i <= n => x < tabs[i]
       PROVE  Rising(s)
    <2>1. DOMAIN s = 1..(n + 1)
        BY <1>9
    <2>2. \A k \in i..n : x < tabs[k]
        BY <1>1, <1>2, <1>3, <1>12
    <2> SUFFICES ASSUME NEW j \in 1..(n + 1), NEW k \in 1..(n + 1), j < k PROVE s[j] < s[k]
        BY <2>1 DEF Rising
    <2>3. CASE k < i
        <3>1. j < i /\ j \in 1..n /\ k \in 1..n
            BY <1>1, <1>2, <2>3
        <3>2. s[j] = tabs[j] /\ s[k] = tabs[k]
            BY <1>9, <2>3, <3>1
        <3> QED
            BY <1>3, <3>1, <3>2
    <2>4. CASE k = i
        BY <1>1, <1>2, <1>9, <1>12, <2>4
    <2>5. CASE k > i /\ j < i
        <3>1. j \in 1..n /\ k - 1 \in 1..n /\ (j < k - 1 \/ j = k - 1) /\ k - 1 >= i
            BY <1>1, <1>2, <2>5
        <3>2. s[j] = tabs[j] /\ s[k] = tabs[k - 1]
            BY <1>9, <2>5
        <3>3. j < k - 1
            BY <1>2, <2>5, <3>1
        <3> QED
            BY <1>3, <3>1, <3>2, <3>3
    <2>6. CASE k > i /\ j = i
        <3>1. k - 1 \in i..n
            BY <1>1, <1>2, <2>6
        <3>2. s[j] = x /\ s[k] = tabs[k - 1]
            BY <1>9, <2>6
        <3> QED
            BY <2>2, <3>1, <3>2
    <2>7. CASE k > i /\ j > i
        <3>1. j - 1 \in 1..n /\ k - 1 \in 1..n /\ j - 1 < k - 1
            BY <1>1, <1>2, <2>7
        <3>2. s[j] = tabs[j - 1] /\ s[k] = tabs[k - 1]
            BY <1>9, <2>7
        <3> QED
            BY <1>3, <3>1, <3>2
    <2> QED
        BY <1>1, <1>2, <2>3, <2>4, <2>5, <2>6, <2>7
<1>13. ASSUME i <= n
       PROVE  Rising(r)
    <2>1. DOMAIN r = 1..(n - 1)
        BY <1>10, <1>13
    <2> SUFFICES ASSUME NEW j \in 1..(n - 1), NEW k \in 1..(n - 1), j < k PROVE r[j] < r[k]
        BY <2>1 DEF Rising
    <2>2. CASE k < i
        <3>1. j < i /\ j \in 1..n /\ k \in 1..n
            BY <1>1, <1>2, <2>2
        <3>2. r[j] = tabs[j] /\ r[k] = tabs[k]
            BY <1>10, <1>13, <2>2, <3>1
        <3> QED
            BY <1>3, <3>1, <3>2
    <2>3. CASE k >= i /\ j < i
        <3>1. j \in 1..n /\ k + 1 \in 1..n /\ j < k + 1
            BY <1>1, <1>2, <2>3
        <3>2. r[j] = tabs[j] /\ r[k] = tabs[k + 1]
            BY <1>10, <1>13, <2>3
        <3> QED
            BY <1>3, <3>1, <3>2
    <2>4. CASE k >= i /\ j >= i
        <3>1. j + 1 \in 1..n /\ k + 1 \in 1..n /\ j + 1 < k + 1
            BY <1>1, <1>2, <2>4
        <3>2. r[j] = tabs[j + 1] /\ r[k] = tabs[k + 1]
            BY <1>10, <1>13, <2>4
        <3> QED
            BY <1>3, <3>1, <3>2
    <2> QED
        BY <1>1, <1>2, <2>2, <2>3, <2>4
<1> QED
    BY <1>11, <1>12, <1>13 DEF n

\* Stops that are in the page as a sequence over the columns, and back.
LEMMA StopsAreColumns ==
    ASSUME NEW t, Typed(t), NEW tabs \in Seq(Nat)
    PROVE  (\A i \in DOMAIN tabs : tabs[i] \in Columns(t)) <=> tabs \in Seq(Columns(t))
<1> DEFINE S == Columns(t)
<1> HIDE DEF S
<1>1. DOMAIN tabs = 1..Len(tabs) /\ Len(tabs) \in Nat
    OBVIOUS
<1>2. (\A i \in DOMAIN tabs : tabs[i] \in S) => tabs \in Seq(S)
    <2> SUFFICES ASSUME \A i \in 1..Len(tabs) : tabs[i] \in S PROVE tabs \in Seq(S)
        BY <1>1
    <2>1. SubSeq(tabs, 1, Len(tabs)) \in Seq(S)
        BY <1>1, SubSeqProperties
    <2>2. SubSeq(tabs, 1, Len(tabs)) = tabs
        BY SubSeqFull
    <2> QED
        BY <2>1, <2>2
<1>3. tabs \in Seq(S) => \A i \in DOMAIN tabs : tabs[i] \in S
    BY <1>1, ElementOfSeq
<1> QED
    BY <1>2, <1>3 DEF S

LEMMA StopsKeep ==
    ASSUME NEW t, Typed(t), NEW tabs \in Seq(Nat), InPage(t) => tabs \in Seq(Columns(t)),
           Rising(t.tabs) => Rising(tabs)
    PROVE  Keeps(t, [t EXCEPT !.tabs = tabs])
<1> DEFINE u == [t EXCEPT !.tabs = tabs]
<1>1. StaysPut(t, u) /\ u.tabs = tabs
    BY DEF StaysPut, Typed, Shape, Fields
<1> HIDE DEF u
<1>2. InPage(t) => \A i \in DOMAIN u.tabs : u.tabs[i] \in Columns(t)
    BY <1>1, StopsAreColumns
<1>3. Keeps(t, u)
    BY <1>1, <1>2, StaysPutKeeps
<1> QED
    BY <1>3 DEF u

LEMMA SetTabStopKeeps ==
    ASSUME NEW t, Typed(t)
    PROVE  Keeps(t, SetTabStop(t))
<1> DEFINE i == Preceding(t.tabs, t.x) + 1
           tabs == InsertAt(t.tabs, i, t.x)
           new == Len(t.tabs) < t.cols /\ ~(i <= Len(t.tabs) /\ t.tabs[i] = t.x)
<1>1. t.tabs \in Seq(Nat) /\ t.x \in Nat /\ t.x \in Int /\ Len(t.tabs) \in Nat
    BY DEF Typed, Stores, Numbers
<1>2. /\ i \in 1..(Len(t.tabs) + 1) /\ (\A j \in 1..(i - 1) : t.tabs[j] < t.x)
      /\ i <= Len(t.tabs) => t.tabs[i] >= t.x /\ t.tabs[i] \in Nat
    <2> DEFINE n == Preceding(t.tabs, t.x)
    <2>1. /\ n \in 0..Len(t.tabs) /\ (\A j \in 1..n : t.tabs[j] < t.x)
          /\ n < Len(t.tabs) => t.tabs[n + 1] >= t.x
        BY <1>1, PrecedingIs
    <2> HIDE DEF n
    <2>2. i = n + 1
        BY DEF n
    <2> HIDE DEF i
    <2>3. i - 1 = n /\ (i <= Len(t.tabs) => n < Len(t.tabs))
        BY <1>1, <2>1, <2>2
    <2> QED
        BY <1>1, <2>1, <2>2, <2>3
<1> HIDE DEF i
<1>3. tabs \in Seq(Nat)
    BY <1>1, <1>2, StopsIn
<1>4. ASSUME InPage(t) PROVE tabs \in Seq(Columns(t))
    <2>1. t.tabs \in Seq(Columns(t)) /\ t.x \in Columns(t)
        BY <1>1, <1>4, StopsAreColumns DEF InPage, InColumns
    <2> QED
        BY <1>2, <2>1, StopsIn
<1>5. ASSUME new, Rising(t.tabs) PROVE Rising(tabs)
    <2>1. i <= Len(t.tabs) => t.x < t.tabs[i]
        BY <1>1, <1>2, <1>5
    <2> QED
        BY <1>1, <1>2, <1>5, <2>1, StopsRise
<1> HIDE DEF tabs
<1>6. new => Keeps(t, [t EXCEPT !.tabs = tabs])
    BY <1>3, <1>4, <1>5, StopsKeep
<1> QED
    BY <1>6, KeepsItself DEF SetTabStop, i, tabs

LEMMA ClearTabStopKeeps ==
    ASSUME NEW t, Typed(t), NEW p
    PROVE  Keeps(t, ClearTabStop(t, p))
<1> DEFINE At0 == {i \in DOMAIN t.tabs : t.tabs[i] = t.x}
           i == CHOOSE k \in At0 : TRUE
           tabs == RemoveAt(t.tabs, i)
<1>1. t.tabs \in Seq(Nat) /\ Len(t.tabs) \in Nat /\ DOMAIN t.tabs = 1..Len(t.tabs)
    BY DEF Typed, Stores
<1>2. ASSUME At0 # {}
      PROVE  Keeps(t, [t EXCEPT !.tabs = tabs])
    <2>1. i \in 1..Len(t.tabs) /\ t.tabs[i] = t.x
        BY <1>1, <1>2
    <2> HIDE DEF i
    <2>2. t.x \in Nat /\ i \in 1..(Len(t.tabs) + 1) /\ i <= Len(t.tabs)
        BY <1>1, <2>1 DEF Typed, Numbers
    <2>3. tabs \in Seq(Nat)
        BY <1>1, <2>2, StopsIn
    <2>4. ASSUME InPage(t) PROVE tabs \in Seq(Columns(t))
        <3>1. t.tabs \in Seq(Columns(t)) /\ t.x \in Columns(t)
            BY <1>1, <2>4, StopsAreColumns DEF InPage, InColumns
        <3> QED
            BY <2>2, <3>1, StopsIn
    <2>5. Rising(t.tabs) => Rising(tabs)
        BY <1>1, <2>2, StopsRise
    <2> HIDE DEF tabs
    <2> QED
        BY <2>3, <2>4, <2>5, StopsKeep
<1>3. Keeps(t, [t EXCEPT !.tabs = <<>>])
    <2>1. << >> \in Seq(Nat) /\ << >> \in Seq(Columns(t)) /\ Rising(<< >>)
        BY DEF Rising
    <2> QED
        BY <2>1, StopsKeep
<1>4. CASE p = 3
    BY <1>3, <1>4 DEF ClearTabStop
<1>5. CASE p = 0 /\ At0 # {}
    <2>1. ClearTabStop(t, p) = [t EXCEPT !.tabs = tabs]
        BY <1>5 DEF ClearTabStop
    <2> HIDE DEF At0, tabs
    <2> QED
        BY <1>2, <1>5, <2>1
<1>6. CASE p # 3 /\ ~(p = 0 /\ At0 # {})
    <2>1. ClearTabStop(t, p) = t
        BY <1>6 DEF ClearTabStop
    <2> QED
        BY <2>1, KeepsItself
<1> QED
    BY <1>4, <1>5, <1>6

LEMMA TabsKeep ==
    ASSUME NEW t, Typed(t), NEW n \in Nat \ {0}
    PROVE  /\ Keeps(t, CursorForwardTab(t, n)) /\ Keeps(t, CursorBackwardTab(t, n))
<1>1. t.tabs \in Seq(Nat) /\ Len(t.tabs) \in Nat /\ DOMAIN t.tabs = 1..Len(t.tabs)
    BY DEF Typed, Stores
<1>2. ASSUME NEW i \in 1..Len(t.tabs) PROVE Lands(t, t.tabs[i], t.y)
    <2> DEFINE stop == t.tabs[i]
    <2>1. stop \in Nat /\ (InPage(t) => stop \in Columns(t))
        BY <1>1 DEF InPage, InColumns
    <2> HIDE DEF stop
    <2>2. InPage(t) => stop < t.cols
        BY <2>1 DEF Typed, Numbers, Columns, LastColumn
    <2>3. Lands(t, stop, t.y)
        BY <2>1, <2>2, Inside, LandsInside DEF Typed, Numbers
    <2> QED
        BY <2>3 DEF stop
<1>3. Keeps(t, CursorForwardTab(t, n))
    <2> DEFINE i == Preceding(t.tabs, t.x + 1) + n
               u == [t EXCEPT !.x = TabEnd(t), !.wrap = IF "VTCOMPATTAB" \in t.ts THEN @ ELSE Is(t, "DECAWM")]
    <2>1. i \in Nat \ {0}
        <3> DEFINE passed == Preceding(t.tabs, t.x + 1)
        <3>1. t.x + 1 \in Int
            BY DEF Typed, Numbers
        <3>2. passed \in 0..Len(t.tabs)
            BY <1>1, <3>1, PrecedingRange
        <3> HIDE DEF passed
        <3> QED
            BY <1>1, <3>2 DEF passed
    <2>2. ASSUME i <= Len(t.tabs) PROVE Keeps(t, MoveCursor(t, t.tabs[i], t.y))
        BY <1>2, <2>1, <2>2, MoveCursorKeeps
    <2>3. Keeps(t, u)
        <3>1. Rest(t, u) /\ u.y = t.y /\ u.x = TabEnd(t)
            BY DEF Rest, Typed, Shape, Fields
        <3> HIDE DEF u
        <3>2. TabEnd(t) \in {t.right, LastColumn(t)} /\ TabEnd(t) \in Nat
            BY DEF TabEnd, LastColumn, Typed, Numbers
        <3>3. InPage(t) => TabEnd(t) < t.cols
            BY <3>2, Inside DEF LastColumn, Typed, Numbers
        <3>4. Lands(t, TabEnd(t), t.y)
            BY <3>2, <3>3, Inside, LandsInside DEF Typed, Numbers
        <3> QED
            BY <3>1, <3>2, <3>4, StepKeeps
    <2> HIDE DEF i, u
    <2> QED
        BY <2>2, <2>3 DEF CursorForwardTab, i, u
<1>4. Keeps(t, CursorBackwardTab(t, n))
    <2> DEFINE i == Preceding(t.tabs, t.x) - n + 1
    <2>1. i <= Len(t.tabs) /\ i \in Int
        <3> DEFINE passed == Preceding(t.tabs, t.x)
        <3>1. t.x \in Int
            BY DEF Typed, Numbers
        <3>2. passed \in 0..Len(t.tabs)
            BY <1>1, <3>1, PrecedingRange
        <3> HIDE DEF passed
        <3> QED
            BY <1>1, <3>2 DEF passed
    <2> HIDE DEF i
    <2>2. ASSUME ~(i < 1) PROVE Keeps(t, MoveCursor(t, t.tabs[i], t.y))
        BY <1>1, <1>2, <2>1, <2>2, MoveCursorKeeps
    <2>3. Lands(t, TabStart(t), t.y)
        BY Inside, LandsInside DEF TabStart, Typed, Numbers
    <2>4. Keeps(t, MoveCursor(t, TabStart(t), t.y))
        BY <2>3, MoveCursorKeeps
    <2> QED
        BY <2>2, <2>4 DEF CursorBackwardTab, i
<1> QED
    BY <1>3, <1>4

LEMMA TabKeeps ==
    ASSUME NEW t, Typed(t)
    PROVE  Keeps(t, Tab(t))
<1> DEFINE s == NextLine(t)
           u == [s EXCEPT !.wrap = FALSE]
<1>1. Keeps(t, s)
    BY NextLineKeeps
<1>2. Typed(s)
    BY <1>1 DEF Keeps, Holds
<1> HIDE DEF s
<1>3. Rest(s, u) /\ u.x = s.x /\ u.y = s.y /\ u.wrap = FALSE
    BY <1>2 DEF Rest, Typed, Shape, Fields
<1> HIDE DEF u
<1>4. Lands(s, u.x, u.y)
    BY <1>2, <1>3, Inside, LandsInside DEF Typed, Numbers
<1>5. Keeps(s, u)
    BY <1>2, <1>3, <1>4, StepKeeps
<1>6. Keeps(t, u)
    BY <1>1, <1>5, KeepsThrough
<1>7. Keeps(u, CursorForwardTab(u, 1)) /\ Keeps(t, CursorForwardTab(t, 1))
    BY <1>6, TabsKeep DEF Keeps, Holds
<1>8. Keeps(t, CursorForwardTab(u, 1))
    BY <1>6, <1>7, KeepsThrough
<1> QED
    BY <1>7, <1>8 DEF Tab, s, u

-----------------------------------------------------------------------------
(* Cursor movement.                                                        *)

LEMMA ArgRange ==
    ASSUME NEW p \in Nat, NEW max \in Nat
    PROVE  /\ Arg(p, max) \in Nat /\ ArgMax(p, max) \in Nat /\ ArgMax(p, max) <= max
           /\ max > 0 => Arg(p, max) > 0 /\ Arg(p, max) <= max
BY DEF Arg, ArgMax, Least

\* A place in the page is allowed off the status line.
LandsFree(t, x, y) ==
    x \in Nat /\ y \in Nat /\ (InPage(t) => x < t.cols /\ (~isCursorOnStatusLine(t) => y < t.lines - t.status))

LEMMA FreeMoves ==
    ASSUME NEW t, Typed(t), NEW x, NEW y, LandsFree(t, x, y)
    PROVE  KeepsOnPage(t, MoveCursor(t, x, y))
<1>1. ~isCursorOnStatusLine(t) => Lands(t, x, y)
    BY LandsInside DEF LandsFree
<1> QED
    BY <1>1, MoveCursorTyped, MoveCursorKeeps DEF KeepsOnPage, LandsFree, Keeps, Holds

LEMMA UpDown ==
    ASSUME NEW t, Typed(t), NEW p \in Nat
    PROVE  /\ Keeps(t, CSCursorUp(t, p, TRUE)) /\ Keeps(t, CSCursorDown(t, p, TRUE))
<1>1. Keeps(t, CSCursorUp(t, p, TRUE))
    <2> DEFINE stop == IF t.y >= t.top THEN t.top ELSE 0
               y == Most(t.y - Arg(p, t.y), stop)
    <2>1. stop \in Nat /\ stop <= t.y /\ t.y \in Nat
        BY DEF Typed, Numbers
    <2>2. stop \in Nat /\ stop <= t.y /\ Arg(p, t.y) \in Nat
        BY <2>1, ArgRange
    <2>3. InPage(t) /\ isCursorOnStatusLine(t) => stop = t.y
        BY Inside DEF Typed, Numbers
    <2> HIDE DEF stop
    <2>4. y \in Nat /\ (y <= t.y \/ y = stop) /\ stop <= y /\ y <= t.y
        BY <2>2 DEF Most, Typed, Numbers
    <2> HIDE DEF y
    <2>5. Lands(t, t.x, y)
        BY <2>2, <2>3, <2>4, Inside, LandsInside DEF Typed, Numbers
    <2>6. Keeps(t, MoveCursor(t, t.x, y))
        BY <2>5, MoveCursorKeeps
    <2> QED
        BY <2>6 DEF CSCursorUp, y, stop
<1>2. Keeps(t, CSCursorDown(t, p, TRUE))
    <2> DEFINE stop == IF t.y <= t.bottom THEN t.bottom ELSE LastRow(t)
               y == Least(t.y + Arg(p, stop), stop)
    <2>1. stop \in Nat /\ (InPage(t) /\ ~isCursorOnStatusLine(t) => stop < t.lines - t.status)
        BY Inside DEF Typed, Numbers, LastRow
    <2>2. InPage(t) /\ isCursorOnStatusLine(t) => stop = t.y
        BY Inside DEF Typed, Numbers
    <2> HIDE DEF stop
    <2>3. Arg(p, stop) \in Nat
        BY <2>1, ArgRange
    <2>4. y \in Nat /\ y <= stop /\ (stop = t.y => y = t.y)
        BY <2>1, <2>3 DEF Least, Typed, Numbers
    <2> HIDE DEF y
    <2>5. Lands(t, t.x, y)
        BY <2>1, <2>2, <2>4, Inside, LandsInside DEF Typed, Numbers
    <2>6. Keeps(t, MoveCursor(t, t.x, y))
        BY <2>5, MoveCursorKeeps
    <2> QED
        BY <2>6 DEF CSCursorDown, y, stop
<1> QED
    BY <1>1, <1>2

\* VPB and VPR
LEMMA UpDownFree ==
    ASSUME NEW t, Typed(t), NEW p \in Nat
    PROVE  KeepsOnPage(t, CSCursorUp(t, p, FALSE)) /\ KeepsOnPage(t, CSCursorDown(t, p, FALSE))
<1>1. LandsFree(t, t.x, Most(t.y - Arg(p, t.y), 0))
    <2>1. t.y \in Nat
        BY DEF Typed, Numbers
    <2>2. Arg(p, t.y) \in Nat
        BY <2>1, ArgRange
    <2> QED
        BY <2>2, Inside DEF LandsFree, Typed, Numbers, Most
<1>2. LandsFree(t, t.x, Least(t.y + Arg(p, LastRow(t)), LastRow(t)))
    <2>1. LastRow(t) \in Nat /\ LastRow(t) < t.lines - t.status
        BY DEF Typed, Numbers, LastRow
    <2>2. Arg(p, LastRow(t)) \in Nat
        BY <2>1, ArgRange
    <2> QED
        BY <2>1, <2>2, Inside DEF LandsFree, Typed, Numbers, Least
<1> QED
    BY <1>1, <1>2, FreeMoves DEF CSCursorUp, CSCursorDown

LEMMA LeftRight ==
    ASSUME NEW t, Typed(t), NEW p \in Nat, NEW m \in BOOLEAN
    PROVE  Keeps(t, CSCursorLeft(t, p, m)) /\ Keeps(t, CSCursorRight(t, p, m))
<1>1. Arg(p, t.cols) \in Nat
    BY ArgRange DEF Typed, Numbers
<1>2. Lands(t, Most(t.x - Arg(p, t.cols), IF m /\ t.x >= t.left THEN t.left ELSE 0), t.y)
    BY <1>1, Inside, LandsInside DEF Typed, Numbers, Most
<1>3. LET stop == IF m /\ t.x <= t.right THEN t.right ELSE LastColumn(t)
      IN Lands(t, Least(t.x + Arg(p, t.cols), stop), t.y)
    BY <1>1, Inside, LandsInside DEF Typed, Numbers, Least, LastColumn
<1> QED
    BY <1>2, <1>3, MoveCursorKeeps DEF CSCursorLeft, CSCursorRight

LEMMA LinesUpDown ==
    ASSUME NEW t, Typed(t), NEW p \in Nat
    PROVE  Keeps(t, CSCursorUp1(t, p)) /\ Keeps(t, CSCursorDown1(t, p))
<1> DEFINE s == MoveCursor(t, t.left, t.y)
<1>1. Lands(t, t.left, t.y)
    BY Inside, LandsInside DEF Typed, Numbers
<1>2. Keeps(t, s)
    BY <1>1, MoveCursorKeeps
<1> HIDE DEF s
<1>3. Keeps(s, CSCursorUp(s, p, TRUE)) /\ Keeps(s, CSCursorDown(s, p, TRUE))
    BY <1>2, UpDown DEF Keeps, Holds
<1> QED
    BY <1>2, <1>3, KeepsThrough DEF CSCursorUp1, CSCursorDown1, s

LEMMA Absolute ==
    ASSUME NEW t, Typed(t), NEW p1 \in Nat, NEW p2 \in Nat
    PROVE  /\ Keeps(t, CSMoveToColumnN(t, p1)) /\ Keeps(t, CSMoveToXY(t, p1, p2))
           /\ KeepsOnPage(t, CSMoveToLineN(t, p1))
<1> DEFINE Column(p) == Arg(p, t.cols) - 1
           Line == Arg(p1, LastRow(t) + 1) - 1
<1>1. ASSUME NEW p \in Nat PROVE Column(p) \in Nat /\ Column(p) < t.cols
    <2>1. t.cols \in Nat /\ t.cols > 0
        BY DEF Typed, Numbers
    <2>2. Arg(p, t.cols) \in Nat /\ Arg(p, t.cols) > 0 /\ Arg(p, t.cols) <= t.cols
        BY <2>1, ArgRange
    <2> QED
        BY <2>1, <2>2
<1>2. Line \in Nat /\ Line < t.lines - t.status
    <2>1. LastRow(t) + 1 \in Nat /\ LastRow(t) + 1 > 0 /\ LastRow(t) + 1 = t.lines - t.status
        BY DEF Typed, Numbers, LastRow
    <2> DEFINE rows == LastRow(t) + 1
    <2> HIDE DEF rows
    <2>2. rows \in Nat /\ rows > 0 /\ rows = t.lines - t.status
        BY <2>1 DEF rows
    <2>3. Arg(p1, rows) \in Nat /\ Arg(p1, rows) > 0 /\ Arg(p1, rows) <= rows
        BY <2>2, ArgRange
    <2>4. Line = Arg(p1, rows) - 1
        BY DEF rows
    <2> QED
        BY <2>2, <2>3, <2>4
<1> DEFINE c1 == Column(p1)
           c2 == Column(p2)
<1>3. c1 \in Nat /\ c1 < t.cols /\ c2 \in Nat /\ c2 < t.cols
    BY <1>1
<1> HIDE DEF Column, Line, c1, c2
<1>4. Keeps(t, CSMoveToColumnN(t, p1))
    <2>1. Lands(t, c1, t.y) /\ Lands(t, Least(t.left + c1, t.right), t.y)
        BY <1>3, Inside, LandsInside DEF Typed, Numbers, Least
    <2> QED
        BY <2>1, MoveCursorKeeps DEF CSMoveToColumnN, c1, Column
<1>5. LandsFree(t, t.x, Line) /\ LandsFree(t, t.x, Least(t.top + Line, t.bottom))
    BY <1>2, Inside DEF LandsFree, Typed, Numbers, Least
<1>6. /\ LandsFree(t, c2, Line)
      /\ LandsFree(t, Least(t.left + c2, t.right), Least(t.top + Line, t.bottom))
      /\ Lands(t, c2, t.y)
    BY <1>2, <1>3, Inside, LandsInside DEF LandsFree, Typed, Numbers, Least
<1>7. Keeps(t, CSMoveToXY(t, p1, p2))
    BY <1>6, FreeMoves, MoveCursorKeeps DEF CSMoveToXY, c2, Column, Line, KeepsOnPage, Keeps, Holds
<1> QED
    BY <1>4, <1>5, <1>7, FreeMoves DEF CSMoveToLineN, Line

-----------------------------------------------------------------------------
(* Margins and modes.                                                      *)

\* Nothing but the margins changes.
SameButMargins(t, u) ==
    /\ DOMAIN u = Fields
    /\ u.cols = t.cols /\ u.lines = t.lines /\ u.status = t.status /\ u.x = t.x /\ u.y = t.y
    /\ u.tabs = t.tabs /\ u.saved = t.saved /\ u.alt = t.alt /\ u.line = t.line /\ u.main = t.main

\* The margins and the stops fit a page; its cursor is above the status line.
Fits(u) ==
    /\ u.left < u.right /\ u.right < u.cols /\ u.line.x < u.cols
    /\ u.top <= u.bottom /\ u.bottom < u.lines - u.status
    /\ \A i \in DOMAIN u.tabs : u.tabs[i] \in Columns(u)

OnPage(u) == Fits(u) /\ u.x < u.cols /\ u.y < u.lines - u.status

LEMMA OnPageInPage ==
    ASSUME NEW u, Typed(u), OnPage(u)
    PROVE  InPage(u) /\ ~isCursorOnStatusLine(u)
<1>1. ~isCursorOnStatusLine(u)
    BY DEF Typed, Numbers, OnPage, Fits, isCursorOnStatusLine
<1>2. u.x \in Columns(u) /\ u.left \in Columns(u) /\ u.right \in Columns(u) /\ u.line.x \in Columns(u)
    BY DEF Typed, Numbers, OnPage, Fits, Columns, LastColumn
<1>3. u.y \in Rows(u) /\ u.top \in Rows(u) /\ u.bottom \in Rows(u)
    BY DEF Typed, Numbers, OnPage, Fits, Rows, LastRow
<1> QED
    BY <1>1, <1>2, <1>3 DEF OnPage, Fits, InPage, InColumns, InRows

LEMMA StopsInPage ==
    ASSUME NEW t, InPage(t)
    PROVE  \A i \in DOMAIN t.tabs : t.tabs[i] \in Columns(t)
BY DEF InPage, InColumns

LEMMA MarginsTyped ==
    ASSUME NEW t, NEW u, Typed(t), SameButMargins(t, u),
           u.top \in Nat, u.bottom \in Nat, u.left \in Nat, u.right \in Nat
    PROVE  Typed(u) /\ StoresStay(t, u)
<1>1. Numbers(u)
    BY DEF SameButMargins, Typed, Numbers
<1>2. Shape(u) /\ Stores(u) /\ StoresStay(t, u)
    BY DEF SameButMargins, Typed, Shape, Stores, StoresStay
<1> QED
    BY <1>1, <1>2 DEF Typed

\* After a change of the margins off the status line.
LEMMA MarginsOnPage ==
    ASSUME NEW t, NEW u, Typed(t), InPage(t), ~isCursorOnStatusLine(t), SameButMargins(t, u),
           u.left < u.right, u.right < t.cols, u.top <= u.bottom, u.bottom < t.lines - t.status
    PROVE  OnPage(u)
<1>1. \A i \in DOMAIN u.tabs : u.tabs[i] \in Columns(u)
    BY StopsInPage DEF SameButMargins, Columns, LastColumn
<1>2. /\ u.x < u.cols /\ u.line.x < u.cols /\ u.y < u.lines - u.status
    BY Inside DEF SameButMargins
<1> QED
    BY <1>1, <1>2 DEF OnPage, Fits, SameButMargins

\* A step that ends in MoveCursor.
LEMMA ThenMoves ==
    ASSUME NEW t, NEW u, Typed(u), StoresStay(t, u), NEW x \in Nat, NEW y \in Nat,
           InPage(t) => Fits(u) /\ x < u.cols /\ y < u.lines - u.status
    PROVE  Keeps(t, MoveCursor(u, x, y))
<1> DEFINE v == MoveCursor(u, x, y)
<1>1. Typed(v) /\ StoresStay(u, v)
    BY MoveCursorTyped
<1>2. Rest(u, v) /\ At(v, x, y)
    BY MoveCursorRest
<1> HIDE DEF v
<1>3. Fits(u) /\ x < u.cols /\ y < u.lines - u.status => OnPage(v)
    BY <1>2 DEF OnPage, Fits, Rest, At, Columns, LastColumn
<1>4. InPage(t) => InPage(v)
    BY <1>1, <1>3, OnPageInPage
<1>5. WrapStays(t, v) /\ StoresStay(t, v)
    BY <1>1, <1>2 DEF WrapStays, WrapsAtEnd, StoresStay, At
<1> QED
    BY <1>1, <1>4, <1>5 DEF Keeps, Holds, PageStays, v

LEMMA ThenMovesOnPage ==
    ASSUME NEW t, NEW u, Typed(u), StoresStay(t, u), NEW x \in Nat, NEW y \in Nat,
           InPage(t) /\ ~isCursorOnStatusLine(t) => Fits(u) /\ x < u.cols /\ y < u.lines - u.status
    PROVE  KeepsOnPage(t, MoveCursor(u, x, y))
<1>1. ~isCursorOnStatusLine(t) => Keeps(t, MoveCursor(u, x, y))
    BY ThenMoves
<1>2. At(MoveCursor(u, x, y), x, y)
    BY MoveCursorRest
<1>3. WrapStays(t, MoveCursor(u, x, y))
    BY <1>2 DEF WrapStays, WrapsAtEnd, At
<1>4. Typed(MoveCursor(u, x, y)) /\ StoresStay(t, MoveCursor(u, x, y))
    BY MoveCursorTyped DEF StoresStay
<1> QED
    BY <1>1, <1>3, <1>4 DEF KeepsOnPage, Keeps, Holds

LEMMA RegionsKeep ==
    ASSUME NEW t, Typed(t), NEW p1 \in Nat, NEW p2 \in Nat
    PROVE  Keeps(t, CSSetScrollRegion(t, p1, p2))
<1> DEFINE rows == LastRow(t) + 1
           first == Arg(p1, rows)
           last == ArgMax(p2, rows)
           u == [t EXCEPT !.top = first - 1, !.bottom = last - 1]
<1>1. rows \in Nat /\ rows = t.lines - t.status
    BY DEF Typed, Numbers, LastRow
<1>2. last \in Nat /\ last <= rows /\ first \in Nat /\ first > 0
    <2>1. rows > 0
        BY <1>1 DEF Typed, Numbers
    <2> HIDE DEF rows
    <2> QED
        BY <1>1, <2>1, ArgRange
<1>3. SameButMargins(t, u) /\ u.top = first - 1 /\ u.bottom = last - 1 /\ u.left = t.left /\ u.right = t.right
    BY DEF SameButMargins, Typed, Shape, Fields
<1> HIDE DEF u, first, last, rows
<1>4. ASSUME isCursorOnStatusLine(t) PROVE Keeps(t, MoveCursor(t, 0, t.y))
    <2>1. Lands(t, 0, t.y)
        BY Inside, LandsInside DEF Typed, Numbers
    <2> QED
        BY <2>1, MoveCursorKeeps
<1>5. ASSUME ~isCursorOnStatusLine(t), ~(first >= last), NEW y \in {first - 1, 0}
      PROVE  Keeps(t, MoveCursor(u, 0, y))
    <2>1. Typed(u) /\ StoresStay(t, u)
        BY <1>2, <1>3, <1>5, MarginsTyped DEF Typed, Numbers
    <2>2. InPage(t) => OnPage(u)
        BY <1>1, <1>2, <1>3, <1>5, Inside, MarginsOnPage
    <2>3. y \in Nat /\ y < t.lines - t.status /\ 0 < t.cols
        BY <1>1, <1>2, <1>5 DEF Typed, Numbers
    <2> QED
        BY <1>3, <2>1, <2>2, <2>3, ThenMoves DEF SameButMargins, OnPage
<1>6. Keeps(t, t)
    BY KeepsItself
<1> QED
    BY <1>4, <1>5, <1>6 DEF CSSetScrollRegion, u, first, last, rows

LEMMA LRRegionsMove ==
    ASSUME NEW t, Typed(t), NEW p1 \in Nat, NEW p2 \in Nat
    PROVE  KeepsOnPage(t, CSSetLRScrollRegion(t, p1, p2))
<1> DEFINE first == Arg(p1, t.cols)
           last == ArgMax(p2, t.cols)
           s == [t EXCEPT !.left = first - 1, !.right = last - 1]
<1>1. last \in Nat /\ last <= t.cols /\ first \in Nat /\ first > 0
    <2>1. t.cols \in Nat /\ t.cols > 0
        BY DEF Typed, Numbers
    <2> QED
        BY <2>1, ArgRange
<1>2. SameButMargins(t, s) /\ s.left = first - 1 /\ s.right = last - 1 /\ s.top = t.top /\ s.bottom = t.bottom
    BY DEF SameButMargins, Typed, Shape, Fields
<1> HIDE DEF s, first, last
<1>3. CASE first >= last
    BY <1>3, KeepsItself DEF CSSetLRScrollRegion, first, last, KeepsOnPage, Keeps, Holds
<1>4. ASSUME ~(first >= last)
      PROVE  /\ Typed(s) /\ StoresStay(t, s)
             /\ InPage(t) /\ ~isCursorOnStatusLine(t) => OnPage(s)
    <2>1. Typed(s) /\ StoresStay(t, s)
        BY <1>1, <1>2, <1>4, MarginsTyped DEF Typed, Numbers
    <2>2. ASSUME InPage(t), ~isCursorOnStatusLine(t) PROVE OnPage(s)
        BY <1>1, <1>2, <1>4, <2>2, Inside, MarginsOnPage DEF Typed, Numbers
    <2> QED
        BY <2>1, <2>2
<1>5. ASSUME ~(first >= last),
             NEW x \in Nat, NEW y \in Nat, (x = s.left /\ y = s.top) \/ (x = 0 /\ y = 0)
      PROVE  KeepsOnPage(t, MoveCursor(s, x, y))
    <2>1. OnPage(s) => x < s.cols /\ y < s.lines - s.status
        BY <1>4, <1>5 DEF OnPage, Fits, Typed, Numbers
    <2> QED
        BY <1>4, <1>5, <2>1, ThenMovesOnPage DEF OnPage
<1>6. ASSUME ~(first >= last) PROVE s.left \in Nat /\ s.top \in Nat
    BY <1>4, <1>6 DEF Typed, Numbers
<1>7. CASE ~(first >= last)
    <2>1. CSSetLRScrollRegion(t, p1, p2) \in {MoveCursor(s, s.left, s.top), MoveCursor(s, 0, 0)}
        BY <1>7 DEF CSSetLRScrollRegion, s, first, last
    <2> QED
        BY <1>5, <1>6, <1>7, <2>1
<1> QED
    BY <1>3, <1>7

\* DECRST 69 on either line.
LEMMA NoLRMarginsHolds ==
    ASSUME NEW t, Typed(t)
    PROVE  Holds(t, NoLRMargins(t))
<1> DEFINE u == NoLRMargins(t)
<1>1. /\ SameButMargins(t, u) /\ u.left = 0 /\ u.right = LastColumn(t)
      /\ u.top = t.top /\ u.bottom = t.bottom
    BY DEF NoLRMargins, ResetMode, SameButMargins, Typed, Shape, Fields
<1> HIDE DEF u
<1>2. LastColumn(t) \in Nat /\ LastColumn(t) > 0 /\ LastColumn(t) < t.cols
    BY DEF Typed, Numbers, LastColumn
<1>3. Typed(u) /\ StoresStay(t, u)
    BY <1>1, <1>2, MarginsTyped DEF Typed, Numbers
<1>4. ASSUME InPage(t) PROVE InPage(u)
    <2>1. InColumns(u)
        BY <1>1, <1>2, <1>4 DEF InPage, InColumns, SameButMargins, Columns, LastColumn, isCursorOnStatusLine
    <2>2. InRows(u)
        BY <1>1, <1>4 DEF InPage, InRows, SameButMargins, Rows, LastRow, isCursorOnStatusLine
    <2> QED
        BY <2>1, <2>2 DEF InPage
<1> QED
    BY <1>3, <1>4 DEF Holds, PageStays, u

LEMMA OriginsKeep ==
    ASSUME NEW t, Typed(t)
    PROVE  Keeps(t, Origin(t)) /\ Keeps(t, NoOrigin(t))
<1>1. Keeps(t, MoveCursor(t, 0, t.y))
    <2>1. Lands(t, 0, t.y)
        BY Inside, LandsInside DEF Typed, Numbers
    <2> QED
        BY <2>1, MoveCursorKeeps
<1>2. ASSUME ~isCursorOnStatusLine(t), NEW s \in {SetMode(t, "DECOM"), ResetMode(t, "DECOM")}, NEW y \in {0, t.top}
      PROVE  Keeps(t, MoveCursor(s, 0, y))
    <2>1. Keeps(t, s) /\ StaysPut(t, s)
        BY <1>2, SetModeKeeps
    <2>2. InPage(t) => InPage(s) /\ ~isCursorOnStatusLine(s)
        BY <1>2, <2>1 DEF Keeps, Holds, PageStays, StaysPut, isCursorOnStatusLine
    <2>3. Typed(s) /\ s.top = t.top /\ y \in Nat
        BY <1>2, <2>1 DEF Keeps, Holds, StaysPut, Typed, Numbers
    <2>4. InPage(t) => Fits(s) /\ 0 < s.cols /\ y < s.lines - s.status
        BY <1>2, <2>2, <2>3, Inside, StopsInPage DEF Fits, Typed, Numbers
    <2> QED
        BY <2>1, <2>3, <2>4, ThenMoves DEF Keeps, Holds
<1> QED
    BY <1>1, <1>2 DEF Origin, NoOrigin

\* The whole page as its region.
LEMMA FullMarginsFit ==
    ASSUME NEW t, Typed(t)
    PROVE  /\ Typed(FullMargins(t)) /\ StoresStay(t, FullMargins(t)) /\ SameButMargins(t, FullMargins(t))
           /\ t.line.x < t.cols /\ (\A i \in DOMAIN t.tabs : t.tabs[i] \in Columns(t)) => Fits(FullMargins(t))
<1> DEFINE u == FullMargins(t)
<1>1. /\ SameButMargins(t, u) /\ u.left = 0 /\ u.right = LastColumn(t) /\ u.top = 0 /\ u.bottom = LastRow(t)
    BY DEF FullMargins, SameButMargins, Typed, Shape, Fields
<1> HIDE DEF u
<1>2. /\ LastColumn(t) \in Nat /\ LastColumn(t) > 0 /\ LastColumn(t) < t.cols /\ t.cols \in Nat
      /\ LastRow(t) \in Nat /\ LastRow(t) < t.lines - t.status
    BY DEF Typed, Numbers, LastColumn, LastRow
<1>3. Typed(u) /\ StoresStay(t, u)
    BY <1>1, <1>2, MarginsTyped
<1>4. ASSUME t.line.x < t.cols, \A i \in DOMAIN t.tabs : t.tabs[i] \in Columns(t)
      PROVE  Fits(u)
    <2>1. \A i \in DOMAIN u.tabs : u.tabs[i] \in Columns(u)
        BY <1>1, <1>4 DEF SameButMargins, Columns, LastColumn
    <2>2. /\ u.left < u.right /\ u.right < u.cols /\ u.line.x < u.cols
          /\ u.top <= u.bottom /\ u.bottom < u.lines - u.status
        <3>1. u.cols = t.cols /\ u.line.x = t.line.x /\ u.lines - u.status = t.lines - t.status
            BY <1>1 DEF SameButMargins
        <3>2. u.left < u.right /\ u.right < u.cols /\ u.top <= u.bottom
            BY <1>1, <1>2, <3>1
        <3>3. u.bottom < u.lines - u.status
            BY <1>1, <1>2, <3>1
        <3> QED
            BY <1>4, <3>1, <3>2, <3>3
    <2> QED
        BY <2>1, <2>2 DEF Fits
<1> QED
    BY <1>1, <1>3, <1>4 DEF u

LEMMA ScreenAlignmentKeeps ==
    ASSUME NEW t, Typed(t)
    PROVE  Keeps(t, ScreenAlignment(t))
<1>1. InPage(t) => Fits(FullMargins(t))
    BY FullMarginsFit, Inside, StopsInPage
<1>2. 0 < t.cols /\ 0 < t.lines - t.status
    BY DEF Typed, Numbers
<1> QED
    BY <1>1, <1>2, FullMarginsFit, ThenMoves DEF ScreenAlignment, SameButMargins

-----------------------------------------------------------------------------
(* Saved cursors and the alternate screen.                                 *)

\* The page as it was, with other saved cursors, modes or screen.
SamePage(t, u) ==
    /\ DOMAIN u = Fields
    /\ u.cols = t.cols /\ u.lines = t.lines /\ u.status = t.status
    /\ u.x = t.x /\ u.y = t.y /\ u.wrap = t.wrap
    /\ u.top = t.top /\ u.bottom = t.bottom /\ u.left = t.left /\ u.right = t.right
    /\ u.tabs = t.tabs /\ u.line = t.line /\ u.main = t.main

LEMMA SamePageKeeps ==
    ASSUME NEW t, NEW u, Typed(t), SamePage(t, u), u.saved \in [Slots -> SavedCursor]
    PROVE  /\ Typed(u) /\ PageStays(t, u) /\ WrapStays(t, u)
           /\ InPage(t) /\ ~isCursorOnStatusLine(t) => Fits(u)
<1>1. Typed(u)
    <2>1. Numbers(u)
        BY DEF SamePage, Typed, Numbers
    <2>2. Shape(u) /\ Stores(u)
        BY DEF SamePage, Typed, Shape, Stores
    <2> QED
        BY <2>1, <2>2 DEF Typed
<1>2. InPage(t) => InPage(u)
    <2>1. InColumns(t) => InColumns(u)
        BY DEF SamePage, InColumns, Columns, LastColumn, isCursorOnStatusLine
    <2>2. InRows(t) => InRows(u)
        BY DEF SamePage, InRows, Rows, LastRow, isCursorOnStatusLine
    <2> QED
        BY <2>1, <2>2 DEF InPage
<1>3. WrapStays(t, u)
    BY DEF SamePage, WrapStays, WrapsAtEnd, LastColumn
<1>4. InPage(t) /\ ~isCursorOnStatusLine(t) => Fits(u)
    <2>1. isCursorOnStatusLine(u) <=> isCursorOnStatusLine(t)
        BY DEF SamePage, isCursorOnStatusLine
    <2> QED
        BY <1>1, <1>2, <2>1, Inside, StopsInPage DEF Fits
<1> QED
    BY <1>1, <1>2, <1>3, <1>4 DEF PageStays

LEMMA SaveCursorKeeps ==
    ASSUME NEW t, Typed(t)
    PROVE  /\ Keeps(t, SaveCursor(t)) /\ SamePage(t, SaveCursor(t))
           /\ SaveCursor(t).alt = t.alt
<1> DEFINE u == SaveCursor(t)
           new == [x |-> t.x, y |-> t.y, mode |-> t.mode \cap SavedModes]
<1>1. new \in SavedCursor
    BY DEF SavedCursor, Typed, Numbers
<1>2. Slot(t) \in Slots /\ (t.alt => Slot(t) # "main")
    BY DEF Slot, Slots
<1>3. SamePage(t, u) /\ u.alt = t.alt /\ u.saved = [t.saved EXCEPT ![Slot(t)] = new]
    BY DEF SaveCursor, SamePage, Typed, Shape, Fields
<1> HIDE DEF u, new
<1>4. u.saved \in [Slots -> SavedCursor] /\ (t.alt => u.saved["main"] = t.saved["main"])
    BY <1>1, <1>2, <1>3 DEF Typed, Stores, Slots
<1>5. StoresStay(t, u)
    BY <1>3, <1>4 DEF StoresStay, SamePage
<1> QED
    BY <1>3, <1>4, <1>5, SamePageKeeps DEF Keeps, Holds, u

\* A saved cursor moved elsewhere.
LEMMA CutKeepsSaved ==
    ASSUME NEW r \in SavedCursor, NEW i \in Nat, NEW j \in Nat
    PROVE  LET s == [r EXCEPT !.x = i, !.y = j]
           IN s \in SavedCursor /\ s.x = i /\ s.y = j /\ s.mode = r.mode
BY DEF SavedCursor

LEMMA RestoreCursorKeeps ==
    ASSUME NEW t, Typed(t)
    PROVE  KeepsOnPage(t, RestoreCursor(t))
<1> DEFINE old == t.saved[Slot(t)]
           s == [old EXCEPT !.x = Least(@, LastColumn(t)), !.y = Least(@, LastRow(t))]
           u == [t EXCEPT !.saved[Slot(t)] = s, !.mode = (@ \ SavedModes) \cup s.mode]
<1>1. Slot(t) \in Slots /\ (t.alt => Slot(t) # "main")
    BY DEF Slot, Slots
<1>2. old \in SavedCursor
    BY <1>1 DEF Typed, Stores
<1> HIDE DEF old
<1>3. /\ LastColumn(t) \in Nat /\ LastColumn(t) < t.cols /\ t.cols \in Nat
      /\ LastRow(t) \in Nat /\ LastRow(t) < t.lines - t.status
    BY DEF Typed, Numbers, LastColumn, LastRow
<1>4. s \in SavedCursor /\ s.x <= LastColumn(t) /\ s.y <= LastRow(t)
    <2>1. old.x \in Nat /\ old.y \in Nat
        BY <1>2 DEF SavedCursor
    <2>2. Least(old.x, LastColumn(t)) \in Nat /\ Least(old.x, LastColumn(t)) <= LastColumn(t)
        BY <1>3, <2>1 DEF Least
    <2>3. Least(old.y, LastRow(t)) \in Nat /\ Least(old.y, LastRow(t)) <= LastRow(t)
        BY <1>3, <2>1 DEF Least
    <2>4. s = [old EXCEPT !.x = Least(old.x, LastColumn(t)), !.y = Least(old.y, LastRow(t))]
        OBVIOUS
    <2> HIDE DEF s
    <2> QED
        BY ZenonT(40), <1>2, <2>2, <2>3, <2>4, CutKeepsSaved
<1> HIDE DEF s
<1>5. SamePage(t, u) /\ u.alt = t.alt /\ u.saved = [t.saved EXCEPT ![Slot(t)] = s]
    BY DEF SamePage, Typed, Shape, Fields
<1> HIDE DEF u
<1>6. u.saved \in [Slots -> SavedCursor] /\ (t.alt => u.saved["main"] = t.saved["main"])
    BY <1>1, <1>4, <1>5 DEF Typed, Stores, Slots
<1>7. StoresStay(t, u)
    BY <1>5, <1>6 DEF StoresStay, SamePage
<1>8. s.x \in Nat /\ s.y \in Nat /\ s.x < u.cols /\ s.y < u.lines - u.status
    BY <1>3, <1>4, <1>5 DEF SavedCursor, SamePage, Typed, Numbers
<1>9. KeepsOnPage(t, MoveCursor(u, s.x, s.y))
    BY <1>5, <1>6, <1>7, <1>8, SamePageKeeps, ThenMovesOnPage
<1> QED
    BY <1>9 DEF RestoreCursor, u, s, old

LEMMA ScreensKeep ==
    ASSUME NEW t, Typed(t)
    PROVE  /\ Typed(Alternate(t)) /\ PageStays(t, Alternate(t)) /\ WrapStays(t, Alternate(t))
           /\ SamePage(t, Alternate(t)) /\ Alternate(t).saved = t.saved
           /\ Typed(Main(t)) /\ PageStays(t, Main(t)) /\ WrapStays(t, Main(t))
           /\ SamePage(t, Main(t)) /\ Main(t).alt = FALSE /\ Main(t).saved = t.saved /\ Main(t).mode = t.mode
<1>1. /\ SamePage(t, Alternate(t)) /\ Alternate(t).saved = t.saved
      /\ SamePage(t, Main(t)) /\ Main(t).saved = t.saved /\ Main(t).mode = t.mode
    BY DEF Alternate, Main, SamePage, Typed, Shape, Fields
<1>2. Main(t).alt = FALSE
    BY DEF Main, Typed, Shape, Fields
<1> QED
    BY <1>1, <1>2, SamePageKeeps DEF Typed, Stores

-----------------------------------------------------------------------------
(* The status line.                                                        *)

\* Neither the size nor what the user and the host have set.
SameSettings(t, u) ==
    /\ u.cols = t.cols /\ u.lines - u.status = t.lines - t.status
    /\ u.tabs = t.tabs /\ u.mode = t.mode /\ u.ts = t.ts /\ u.saved = t.saved /\ u.alt = t.alt

LEMMA PageFits ==
    ASSUME NEW t, Typed(t), InPage(t), ~isCursorOnStatusLine(t)
    PROVE  OnPage(t)
BY Inside, StopsInPage DEF OnPage, Fits

LEMMA LeaveStatusLineKeeps ==
    ASSUME NEW t, Typed(t)
    PROVE  /\ Keeps(t, LeaveStatusLine(t)) /\ SameSettings(t, LeaveStatusLine(t))
           /\ LeaveStatusLine(t).status = t.status /\ LeaveStatusLine(t).lines = t.lines
           /\ InPage(t) => OnPage(LeaveStatusLine(t))
<1>1. CASE ~isCursorOnStatusLine(t)
    BY <1>1, KeepsItself, PageFits DEF LeaveStatusLine, SameSettings
<1>2. CASE isCursorOnStatusLine(t)
    <2> DEFINE u == MoveToMainScreen(t)
    <2>1. /\ DOMAIN u = Fields /\ DOMAIN u.line = {"x", "wrap"} /\ u.line.x = t.x
          /\ u.cols = t.cols /\ u.lines = t.lines /\ u.status = t.status
          /\ u.x = t.main.x /\ u.y = t.main.y /\ u.wrap = FALSE
          /\ u.left = t.left /\ u.right = t.right /\ u.top = t.main.top /\ u.bottom = t.main.bottom
          /\ u.tabs = t.tabs /\ u.mode = t.mode /\ u.ts = t.ts /\ u.saved = t.saved /\ u.alt = t.alt
          /\ u.main = t.main
        BY DEF MoveToMainScreen, MoveCursor, Typed, Shape, Fields
    <2> HIDE DEF u
    <2>2. Numbers(u)
        BY <2>1 DEF Typed, Numbers
    <2>3. Shape(u) /\ Stores(u)
        BY <2>1 DEF Typed, Shape, Stores
    <2>4. InPage(t) => OnPage(u)
        <3>1. InPage(t) => \A i \in DOMAIN u.tabs : u.tabs[i] \in Columns(u)
            BY <2>1, StopsInPage DEF Columns, LastColumn
        <3>2. InPage(t) => /\ u.left < u.right /\ u.right < u.cols /\ u.line.x < u.cols
                           /\ u.top <= u.bottom /\ u.bottom < u.lines - u.status
                           /\ u.x < u.cols /\ u.y < u.lines - u.status
            BY <1>2, <2>1, Inside
        <3> QED
            BY <3>1, <3>2 DEF OnPage, Fits
    <2>5. Typed(u) /\ PageStays(t, u)
        BY <2>2, <2>3, <2>4, OnPageInPage DEF Typed, PageStays
    <2>6. WrapStays(t, u) /\ StoresStay(t, u) /\ SameSettings(t, u)
        BY <2>1 DEF WrapStays, WrapsAtEnd, StoresStay, SameSettings
    <2> QED
        BY <1>2, <2>1, <2>4, <2>5, <2>6 DEF LeaveStatusLine, Keeps, Holds, u
<1> QED
    BY <1>1, <1>2

LEMMA HideStatusLineKeeps ==
    ASSUME NEW t, Typed(t)
    PROVE  /\ Keeps(t, HideStatusLine(t)) /\ SameSettings(t, HideStatusLine(t))
           /\ HideStatusLine(t).status = 0 /\ HideStatusLine(t).line.x = 0
           /\ InPage(t) => OnPage(HideStatusLine(t))
<1> DEFINE r == LeaveStatusLine(t)
           s == [r EXCEPT !.line = [x |-> 0, wrap |-> FALSE]]
           h == [s EXCEPT !.status = 0, !.lines = @ - 1]
<1>1. Keeps(t, r) /\ Typed(r) /\ SameSettings(t, r) /\ (InPage(t) => OnPage(r))
    BY LeaveStatusLineKeeps DEF Keeps, Holds
<1> HIDE DEF r
<1>2. /\ DOMAIN s = Fields /\ DOMAIN s.line = {"x", "wrap"} /\ s.line.x = 0
      /\ s.cols = r.cols /\ s.lines = r.lines /\ s.status = r.status
      /\ s.x = r.x /\ s.y = r.y /\ s.wrap = r.wrap
      /\ s.left = r.left /\ s.right = r.right /\ s.top = r.top /\ s.bottom = r.bottom
      /\ s.tabs = r.tabs /\ s.mode = r.mode /\ s.ts = r.ts /\ s.saved = r.saved /\ s.alt = r.alt
      /\ s.main = r.main
    BY <1>1 DEF Typed, Shape, Fields
<1> HIDE DEF s
<1>3. /\ DOMAIN h = Fields /\ h.line = s.line
      /\ h.cols = r.cols /\ h.lines = r.lines - 1 /\ h.status = 0
      /\ h.x = r.x /\ h.y = r.y /\ h.wrap = r.wrap
      /\ h.left = r.left /\ h.right = r.right /\ h.top = r.top /\ h.bottom = r.bottom
      /\ h.tabs = r.tabs /\ h.mode = r.mode /\ h.ts = r.ts /\ h.saved = r.saved /\ h.alt = r.alt
      /\ h.main = r.main
    BY <1>1, <1>2 DEF Typed, Shape, Fields
<1> HIDE DEF h
<1>4. InPage(t) => \A i \in DOMAIN r.tabs : r.tabs[i] \in 0..(r.cols - 1)
    BY <1>1 DEF OnPage, Fits, Columns, LastColumn
<1>5. CASE r.status = 0
    <2>1. Numbers(s)
        BY <1>1, <1>2 DEF Typed, Numbers
    <2>2. Shape(s) /\ Stores(s)
        BY <1>1, <1>2 DEF Typed, Shape, Stores
    <2>3. InPage(t) => OnPage(s)
        <3>1. r.cols \in Nat /\ 0 < r.cols
            BY <1>1 DEF Typed, Numbers
        <3>2. InPage(t) => s.line.x < s.cols /\ \A i \in DOMAIN s.tabs : s.tabs[i] \in Columns(s)
            BY <1>2, <1>4, <3>1 DEF Columns, LastColumn
        <3> QED
            BY <1>1, <1>2, <3>2 DEF OnPage, Fits
    <2>4. WrapStays(t, s) /\ StoresStay(t, s)
        BY <1>1, <1>2 DEF Keeps, Holds, WrapStays, WrapsAtEnd, StoresStay, LastColumn
    <2>5. Typed(s)
        BY <2>1, <2>2 DEF Typed
    <2>6. HideStatusLine(t) = s
        BY <1>2, <1>5 DEF HideStatusLine, r, s
    <2>7. SameSettings(t, s)
        BY <1>1, <1>2 DEF SameSettings
    <2> QED
        BY <1>2, <1>5, <2>3, <2>4, <2>5, <2>6, <2>7, OnPageInPage DEF Keeps, Holds, PageStays
<1>6. CASE r.status = 1
    <2>1. Numbers(h)
        BY <1>1, <1>2, <1>3, <1>6 DEF Typed, Numbers
    <2>2. Shape(h) /\ Stores(h)
        BY <1>1, <1>2, <1>3 DEF Typed, Shape, Stores
    <2>3. Typed(h) /\ StoresStay(t, h) /\ r.x \in Nat /\ r.y \in Nat
        BY <1>1, <1>3, <2>1, <2>2 DEF Typed, Numbers, Keeps, Holds, StoresStay
    <2>4. InPage(t) => Fits(h) /\ r.x < h.cols /\ r.y < h.lines - h.status
        <3>1. r.cols \in Nat /\ 0 < r.cols /\ r.lines \in Nat
            BY <1>1 DEF Typed, Numbers
        <3>2. h.line.x = 0 /\ h.lines - h.status = r.lines - r.status
            BY <1>2, <1>3, <1>6, <3>1
        <3>3. InPage(t) => \A i \in DOMAIN h.tabs : h.tabs[i] \in Columns(h)
            BY <1>3, <1>4 DEF Columns, LastColumn
        <3> QED
            BY <1>1, <1>3, <3>1, <3>2, <3>3 DEF OnPage, Fits
    <2> DEFINE u == MoveCursor(h, r.x, r.y)
    <2>5. Keeps(t, u)
        BY <2>3, <2>4, ThenMoves
    <2>6. HideStatusLine(t) = u
        BY <1>2, <1>6 DEF HideStatusLine, r, s, h
    <2>7. Rest(h, u) /\ At(u, r.x, r.y)
        BY <2>3, MoveCursorRest
    <2> HIDE DEF u
    <2>8. u.status = 0 /\ u.line.x = 0 /\ SameSettings(t, u)
        <3>1. r.lines \in Nat
            BY <1>1 DEF Typed, Numbers
        <3>2. u.status = 0 /\ u.line.x = 0 /\ u.lines - u.status = r.lines - r.status
            BY <1>2, <1>3, <1>6, <2>7, <3>1 DEF Rest
        <3> QED
            BY <1>1, <1>3, <2>7, <3>2 DEF SameSettings, Rest
    <2>9. InPage(t) => OnPage(u)
        BY <2>4, <2>7 DEF OnPage, Fits, Rest, At, Columns, LastColumn
    <2> QED
        BY <2>5, <2>6, <2>8, <2>9
<1> QED
    BY <1>1, <1>5, <1>6 DEF Typed, Numbers

LEMMA ShowStatusLineKeeps ==
    ASSUME NEW t, Typed(t), t.status = 0
    PROVE  Keeps(t, ShowStatusLine(t))
<1> DEFINE u == [t EXCEPT !.status = 1, !.lines = @ + 1]
<1>1. /\ DOMAIN u = Fields /\ u.line = t.line
      /\ u.cols = t.cols /\ u.lines = t.lines + 1 /\ u.status = 1 /\ u.x = t.x /\ u.y = t.y
      /\ u.left = t.left /\ u.right = t.right /\ u.top = t.top /\ u.bottom = t.bottom
      /\ u.tabs = t.tabs /\ u.saved = t.saved /\ u.alt = t.alt /\ u.main = t.main
    BY DEF Typed, Shape, Fields
<1> HIDE DEF u
<1>2. Numbers(u)
    BY <1>1 DEF Typed, Numbers
<1>3. Shape(u) /\ Stores(u)
    BY <1>1 DEF Typed, Shape, Stores
<1>4. Typed(u) /\ StoresStay(t, u) /\ t.x \in Nat /\ t.y \in Nat
    BY <1>1, <1>2, <1>3 DEF Typed, Numbers, StoresStay
<1>5. InPage(t) => Fits(u) /\ t.x < u.cols /\ t.y < u.lines - u.status
    <2>1. InPage(t) => OnPage(t)
        BY PageFits DEF isCursorOnStatusLine
    <2>2. u.lines - u.status = t.lines - t.status
        BY <1>1 DEF Typed, Numbers
    <2> QED
        BY <1>1, <2>1, <2>2 DEF OnPage, Fits, Columns, LastColumn
<1> QED
    BY <1>4, <1>5, ThenMoves DEF ShowStatusLine, u

LEMMA MoveToStatusLineHolds ==
    ASSUME NEW t, Typed(t), t.status = 1, ~isCursorOnStatusLine(t)
    PROVE  Holds(t, MoveToStatusLine(t))
<1> DEFINE u == MoveToStatusLine(t)
<1>1. /\ DOMAIN u = Fields /\ u.line = t.line
      /\ u.cols = t.cols /\ u.lines = t.lines /\ u.status = t.status /\ u.x = t.line.x /\ u.y = t.lines - 1
      /\ u.left = t.left /\ u.right = t.right /\ u.top = t.lines - 1 /\ u.bottom = t.lines - 1
      /\ u.tabs = t.tabs /\ u.saved = t.saved /\ u.alt = t.alt
    BY DEF MoveToStatusLine, Typed, Shape, Fields
<1>2. u.main.x = t.x /\ u.main.y = t.y /\ u.main.top = t.top /\ u.main.bottom = t.bottom
    BY DEF MoveToStatusLine, Typed, Shape, Fields
<1> HIDE DEF u
<1>3. Numbers(u)
    BY <1>1, <1>2 DEF Typed, Numbers
<1>4. Shape(u) /\ Stores(u)
    BY <1>1 DEF Typed, Shape, Stores
<1>5. InPage(t) => InPage(u)
    <2> SUFFICES ASSUME InPage(t) PROVE InPage(u)
        OBVIOUS
    <2>1. OnPage(t)
        BY PageFits
    <2>2. \A i \in DOMAIN u.tabs : u.tabs[i] \in Columns(u)
        BY <1>1, StopsInPage DEF Columns, LastColumn
    <2>3. /\ u.x \in Columns(u) /\ u.left \in Columns(u) /\ u.right \in Columns(u)
          /\ u.line.x \in Columns(u) /\ u.main.x \in Columns(u) /\ u.left < u.right
        BY <1>1, <1>2, <2>1 DEF Typed, Numbers, OnPage, Fits, Columns, LastColumn
    <2>4. /\ isCursorOnStatusLine(u) /\ u.top = u.y /\ u.bottom = u.y
          /\ u.main.y \in Rows(u) /\ u.main.top \in Rows(u) /\ u.main.bottom \in Rows(u)
          /\ u.main.top <= u.main.bottom
        BY <1>1, <1>2, <2>1 DEF Typed, Numbers, OnPage, Fits, Rows, LastRow, isCursorOnStatusLine
    <2> QED
        BY <2>2, <2>3, <2>4 DEF InPage, InColumns, InRows
<1> QED
    BY <1>1, <1>3, <1>4, <1>5 DEF Holds, Typed, PageStays, StoresStay, u

-----------------------------------------------------------------------------
(* Other sizes.                                                            *)

LEMMA TabsFit ==
    ASSUME NEW w \in Nat \ {0}, NEW a \in Nat, NEW i \in 1..(a \div w)
    PROVE  a \div w \in Nat /\ i * w \in Nat /\ i * w <= a
<1> DEFINE n == a \div w
<1>1. n \in Nat
    BY SMT
<1>2. i \in Nat /\ i <= n
    BY <1>1
<1>3. w * n <= a
    BY SMT
<1> HIDE DEF n
<1>4. i * w \in Nat /\ (n - i) * w \in Nat
    BY <1>1, <1>2, SMT
<1>5. n * w = i * w + (n - i) * w
    BY <1>1, <1>2, SMT
<1> QED
    BY <1>1, <1>2, <1>3, <1>4, <1>5, SMT DEF n

LEMMA DefaultTabsFit ==
    ASSUME NEW cols \in Nat \ {0}
    PROVE  DefaultTabs(cols) \in Seq(0..(cols - 1)) /\ DefaultTabs(cols) \in Seq(Nat) /\ Rising(DefaultTabs(cols))
<1>1. TabWidth \in Nat \ {0}
    BY CursorAssumption
<1>2. cols - 1 \in Nat
    OBVIOUS
<1> DEFINE n == (cols - 1) \div TabWidth
<1>3. n \in Nat
    BY <1>1, <1>2, SMT
<1>4. \A i \in 1..n : i * TabWidth \in 0..(cols - 1)
    BY <1>1, <1>2, TabsFit
<1> HIDE DEF n
<1>5. [i \in 1..n |-> i * TabWidth] \in Seq(0..(cols - 1))
    BY <1>3, <1>4, IsASeq
<1>6. [i \in 1..n |-> i * TabWidth] \in Seq(Nat)
    BY <1>3, <1>4, IsASeq
<1>7. Rising([i \in 1..n |-> i * TabWidth])
    <2>1. \A i, j \in Nat : i < j => i * TabWidth < j * TabWidth
        BY <1>1, SMT
    <2>2. \A i \in 1..n : i \in Nat
        BY <1>3
    <2> QED
        BY <2>1, <2>2 DEF Rising
<1> QED
    BY <1>5, <1>6, <1>7 DEF DefaultTabs, n

\* The new page, with the cursor where it fits.
Resized(t, u, cols, rows) ==
    /\ DOMAIN u = Fields /\ u.cols = cols /\ u.lines = rows + t.status /\ u.status = t.status
    /\ u.tabs = DefaultTabs(cols) /\ u.left = 0 /\ u.right = cols - 1 /\ u.x \in 0..(cols - 1)
    /\ isCursorOnStatusLine(t) => u.y = u.lines - 1 /\ u.top = u.lines - 1 /\ u.bottom = u.lines - 1
    /\ ~isCursorOnStatusLine(t) => u.y \in 0..(rows - 1) /\ u.top = 0 /\ u.bottom = rows - 1

LEMMA BuffChangeResizes ==
    ASSUME NEW t, Typed(t), NEW cols \in Nat \ {0, 1}, NEW rows \in Nat \ {0}, NEW k \in Nat
    PROVE  /\ Resized(t, BuffChangeTerminalSize(t, cols, rows, k), cols, rows)
           /\ BuffChangeTerminalSize(t, cols, rows, k).line = t.line
           /\ BuffChangeTerminalSize(t, cols, rows, k).main = t.main
           /\ BuffChangeTerminalSize(t, cols, rows, k).saved = t.saved
           /\ BuffChangeTerminalSize(t, cols, rows, k).alt = t.alt
<1> DEFINE clear == "CLEARONRESIZE" \in t.ts
           x == IF clear THEN 0 ELSE Least(t.x, cols - 1)
           y == IF clear THEN 0 ELSE Least(t.y + k, rows - 1)
           r == [t EXCEPT !.cols = cols, !.lines = rows + t.status, !.tabs = DefaultTabs(cols), !.x = x, !.y = y]
           s == FullMargins(r)
           b == [s EXCEPT !.y = s.lines - 1, !.top = s.lines - 1, !.bottom = s.lines - 1]
           u == BuffChangeTerminalSize(t, cols, rows, k)
<1>1. x \in 0..(cols - 1) /\ y \in 0..(rows - 1)
    <2>1. t.x \in Nat /\ t.y \in Nat
        BY DEF Typed, Numbers
    <2> QED
        BY <2>1 DEF Least
<1> HIDE DEF x, y
<1>2. /\ DOMAIN r = Fields /\ r.saved = t.saved /\ r.alt = t.alt /\ r.line = t.line /\ r.main = t.main
      /\ r.cols = cols /\ r.lines = rows + t.status /\ r.status = t.status
      /\ r.tabs = DefaultTabs(cols) /\ r.x = x /\ r.y = y
    BY DEF Typed, Shape, Fields
<1> HIDE DEF r
<1>3. LastRow(r) = rows - 1 /\ LastColumn(r) = cols - 1
    BY <1>2 DEF Typed, Numbers, LastRow, LastColumn
<1>4. /\ DOMAIN s = Fields /\ s.saved = t.saved /\ s.alt = t.alt /\ s.line = t.line /\ s.main = t.main
      /\ s.cols = cols /\ s.lines = rows + t.status /\ s.status = t.status
      /\ s.tabs = DefaultTabs(cols) /\ s.x = x /\ s.y = y
      /\ s.left = 0 /\ s.right = cols - 1 /\ s.top = 0 /\ s.bottom = rows - 1
    BY <1>2, <1>3 DEF FullMargins, Fields
<1> HIDE DEF s
<1>5. u = IF isCursorOnStatusLine(t) THEN b ELSE s
    BY DEF BuffChangeTerminalSize, s, r, x, y
<1>6. /\ DOMAIN b = Fields /\ b.saved = t.saved /\ b.alt = t.alt /\ b.line = t.line /\ b.main = t.main
      /\ b.cols = cols /\ b.lines = rows + t.status /\ b.status = t.status
      /\ b.tabs = DefaultTabs(cols) /\ b.x = x /\ b.left = 0 /\ b.right = cols - 1
      /\ b.y = b.lines - 1 /\ b.top = b.lines - 1 /\ b.bottom = b.lines - 1
    BY <1>4 DEF Fields
<1> HIDE DEF b, u
<1>7. CASE isCursorOnStatusLine(t)
    <2>1. u = b
        BY <1>5, <1>7
    <2> QED
        BY <1>1, <1>6, <1>7, <2>1 DEF Resized, u
<1>8. CASE ~isCursorOnStatusLine(t)
    <2>1. u = s
        BY <1>5, <1>8
    <2> QED
        BY <1>1, <1>4, <1>8, <2>1 DEF Resized, u
<1> QED
    BY <1>7, <1>8

LEMMA ResizedRise ==
    ASSUME NEW t, NEW u, NEW cols \in Nat \ {0, 1}, NEW rows, Resized(t, u, cols, rows)
    PROVE  Rising(u.tabs)
<1>1. Rising(DefaultTabs(cols))
    BY DefaultTabsFit
<1> QED
    BY <1>1 DEF Resized

LEMMA ResizedFits ==
    ASSUME NEW t, Typed(t), NEW u, NEW cols \in Nat \ {0, 1}, NEW rows \in Nat \ {0},
           Resized(t, u, cols, rows), u.saved \in [Slots -> SavedCursor],
           DOMAIN u.line = {"x", "wrap"}, u.line.x \in Nat,
           u.main.x \in Nat, u.main.y \in Nat, u.main.top \in Nat, u.main.bottom \in Nat
    PROVE  /\ Typed(u)
           /\ u.line.x < cols /\ ~isCursorOnStatusLine(t) => OnPage(u)
           /\ u.line.x < cols /\ u.main.x < cols /\ u.main.y < rows
              /\ u.main.top <= u.main.bottom /\ u.main.bottom < rows => InPage(u)
<1>1. t.lines \in Nat /\ t.status \in {0, 1}
    BY DEF Typed, Numbers
<1>2. u.x \in Nat /\ u.y \in Nat /\ u.top \in Nat /\ u.bottom \in Nat
    BY <1>1 DEF Resized, isCursorOnStatusLine
<1>3. Numbers(u)
    BY <1>1, <1>2 DEF Resized, Numbers
<1>4. DefaultTabs(cols) \in Seq(Nat) /\ DefaultTabs(cols) \in Seq(0..(cols - 1))
    BY DefaultTabsFit
<1>5. Shape(u) /\ Stores(u)
    BY <1>4 DEF Resized, Typed, Shape, Stores
<1>6. Typed(u)
    BY <1>3, <1>5 DEF Typed
<1>7. \A i \in DOMAIN u.tabs : u.tabs[i] \in Columns(u)
    <2>1. u.tabs \in Seq(Columns(u))
        BY <1>4 DEF Resized, Columns, LastColumn
    <2> QED
        BY <2>1
<1>8. ASSUME u.line.x < cols, ~isCursorOnStatusLine(t)
      PROVE  OnPage(u)
    <2>1. /\ u.left < u.right /\ u.right < u.cols /\ u.line.x < u.cols /\ u.x < u.cols
          /\ u.top <= u.bottom /\ u.bottom < u.lines - u.status /\ u.y < u.lines - u.status
        BY <1>1, <1>8 DEF Resized
    <2> QED
        BY <1>7, <2>1 DEF OnPage, Fits
<1>9. ASSUME u.line.x < cols, u.main.x < cols, u.main.y < rows, u.main.top <= u.main.bottom,
             u.main.bottom < rows, isCursorOnStatusLine(t)
      PROVE  InPage(u)
    <2>1. /\ u.x \in Columns(u) /\ u.left \in Columns(u) /\ u.right \in Columns(u) /\ u.left < u.right
          /\ u.line.x \in Columns(u) /\ u.main.x \in Columns(u)
        BY <1>9 DEF Resized, Columns, LastColumn
    <2>2. /\ isCursorOnStatusLine(u) /\ u.top = u.y /\ u.bottom = u.y
          /\ u.main.y \in Rows(u) /\ u.main.top \in Rows(u) /\ u.main.bottom \in Rows(u)
        BY <1>1, <1>9 DEF Resized, isCursorOnStatusLine, Rows, LastRow
    <2> QED
        BY <1>7, <1>9, <2>1, <2>2 DEF InPage, InColumns, InRows
<1> QED
    BY <1>6, <1>8, <1>9, OnPageInPage

LEMMA ChangeTerminalSizeHolds ==
    ASSUME NEW t, Typed(t), NEW cols \in Nat \ {0, 1}, NEW rows \in Nat \ {0}, NEW k \in Nat
    PROVE  /\ Holds(t, ChangeTerminalSize(t, cols, rows, k))
           /\ Resized(t, ChangeTerminalSize(t, cols, rows, k), cols, rows)
           /\ ~isCursorOnStatusLine(t) => OnPage(ChangeTerminalSize(t, cols, rows, k))
<1> DEFINE s == BuffChangeTerminalSize(t, cols, rows, k)
           u == [s EXCEPT !.line.x = 0, !.main = [x |-> 0, y |-> 0, top |-> 0, bottom |-> rows - 1]]
<1>1. Resized(t, s, cols, rows) /\ s.line = t.line /\ s.saved = t.saved /\ s.alt = t.alt
    BY BuffChangeResizes
<1> HIDE DEF s
<1>2. /\ DOMAIN u = DOMAIN s /\ u.saved = s.saved /\ u.alt = s.alt
      /\ u.cols = s.cols /\ u.lines = s.lines /\ u.status = s.status /\ u.x = s.x /\ u.y = s.y
      /\ u.left = s.left /\ u.right = s.right /\ u.top = s.top /\ u.bottom = s.bottom /\ u.tabs = s.tabs
    BY <1>1 DEF Resized, Fields
<1>3. /\ DOMAIN u.line = {"x", "wrap"} /\ u.line.x = 0
      /\ u.main.x = 0 /\ u.main.y = 0 /\ u.main.top = 0 /\ u.main.bottom = rows - 1
    BY <1>1 DEF Resized, Fields, Typed, Shape
<1> HIDE DEF u
<1>4. Resized(t, u, cols, rows)
    BY <1>1, <1>2 DEF Resized
<1>5. Typed(u) /\ StoresStay(t, u) /\ InPage(u) /\ (~isCursorOnStatusLine(t) => OnPage(u))
    <2>1. u.line.x \in Nat /\ u.main.x \in Nat /\ u.main.y \in Nat /\ u.main.top \in Nat /\ u.main.bottom \in Nat
        BY <1>3
    <2>2. /\ u.line.x < cols /\ u.main.x < cols /\ u.main.y < rows
          /\ u.main.top <= u.main.bottom /\ u.main.bottom < rows
        BY <1>3
    <2>3. u.saved \in [Slots -> SavedCursor]
        BY <1>1, <1>2 DEF Typed, Stores
    <2>4. StoresStay(t, u)
        BY <1>1, <1>2, <1>4, ResizedRise DEF StoresStay
    <2> QED
        BY <1>3, <1>4, <2>1, <2>2, <2>3, <2>4, ResizedFits
<1> QED
    BY <1>4, <1>5 DEF ChangeTerminalSize, Holds, PageStays, s, u

\* DECCOLM leaves a status line, but with the status line's margins.
LEMMA ColumnModeMoves ==
    ASSUME NEW t, Typed(t), NEW cols \in Nat \ {0, 1}
    PROVE  /\ Typed(CSQChangeColumnMode(t, cols)) /\ StoresStay(t, CSQChangeColumnMode(t, cols))
           /\ ~isCursorOnStatusLine(t) => PageStays(t, CSQChangeColumnMode(t, cols))
<1> DEFINE c == ChangeTerminalSize(t, cols, LastRow(t) + 1, 0)
           s == ResetMode(c, "DECLRMM")
<1>1. LastRow(t) + 1 \in Nat \ {0}
    BY DEF Typed, Numbers, LastRow
<1>2. Holds(t, c) /\ (~isCursorOnStatusLine(t) => OnPage(c))
    BY <1>1, ChangeTerminalSizeHolds
<1> HIDE DEF c
<1>3. Keeps(c, s) /\ StaysPut(c, s)
    BY <1>2, SetModeKeeps DEF Holds
<1> HIDE DEF s
<1>4. Typed(s) /\ StoresStay(t, s) /\ (~isCursorOnStatusLine(t) => InPage(s) /\ ~isCursorOnStatusLine(s))
    <2>1. Typed(s) /\ StoresStay(t, s)
        BY <1>2, <1>3 DEF Holds, Keeps, StoresStay
    <2>2. isCursorOnStatusLine(s) <=> isCursorOnStatusLine(c)
        BY <1>3 DEF StaysPut, isCursorOnStatusLine
    <2>3. OnPage(c) => InPage(s) /\ ~isCursorOnStatusLine(c)
        BY <1>2, <1>3, OnPageInPage DEF Holds, Keeps, PageStays
    <2> QED
        BY <1>2, <2>1, <2>2, <2>3
<1>5. Typed(MoveCursor(s, 0, 0)) /\ StoresStay(s, MoveCursor(s, 0, 0))
    BY <1>4, MoveCursorTyped
<1>6. ~isCursorOnStatusLine(t) => InPage(MoveCursor(s, 0, 0))
    <2>1. ASSUME ~isCursorOnStatusLine(t) PROVE Lands(s, 0, 0)
        <3>1. 0 < s.cols /\ 0 < s.lines - s.status
            BY <1>4 DEF Typed, Numbers
        <3> QED
            BY <1>4, <2>1, <3>1, LandsInside
    <2> QED
        BY <1>4, <2>1, MoveCursorKeeps DEF Keeps, Holds, PageStays
<1>7. StoresStay(t, MoveCursor(s, 0, 0))
    BY <1>4, <1>5 DEF StoresStay
<1> QED
    BY <1>4, <1>5, <1>6, <1>7 DEF CSQChangeColumnMode, PageStays, c, s

LEMMA OnSizeHolds ==
    ASSUME NEW t, Typed(t), NEW cols \in Nat \ {0, 1}, NEW rows \in Nat \ {0}, NEW k \in Nat
    PROVE  Holds(t, BuffChangeTerminalSize(HideStatusLine(t), cols, rows, k))
<1> DEFINE h == HideStatusLine(t)
           u == BuffChangeTerminalSize(h, cols, rows, k)
<1>1. Keeps(t, h) /\ Typed(h) /\ h.status = 0 /\ h.line.x = 0
    BY HideStatusLineKeeps DEF Keeps, Holds
<1> HIDE DEF h
<1>2. Resized(h, u, cols, rows) /\ u.line = h.line /\ u.main = h.main /\ u.saved = h.saved /\ u.alt = h.alt
    BY <1>1, BuffChangeResizes
<1> HIDE DEF u
<1>3. u.saved \in [Slots -> SavedCursor] /\ DOMAIN u.line = {"x", "wrap"}
    BY <1>1, <1>2 DEF Typed, Shape, Stores
<1>4. /\ u.line.x \in Nat /\ u.line.x < cols
      /\ u.main.x \in Nat /\ u.main.y \in Nat /\ u.main.top \in Nat /\ u.main.bottom \in Nat
    BY <1>1, <1>2 DEF Typed, Numbers
<1>5. ~isCursorOnStatusLine(h)
    BY <1>1 DEF isCursorOnStatusLine
<1>6. Typed(u) /\ OnPage(u)
    BY <1>1, <1>2, <1>3, <1>4, <1>5, ResizedFits
<1>7. StoresStay(t, u)
    BY <1>1, <1>2, ResizedRise DEF Keeps, Holds, StoresStay
<1> QED
    BY <1>6, <1>7, OnPageInPage DEF Holds, PageStays, h, u

-----------------------------------------------------------------------------
(* Resets and the clearing of the page or the buffer.                        *)

LEMMA ResetTerminalKeeps ==
    ASSUME NEW t, Typed(t)
    PROVE  /\ Keeps(t, OnControlResetTerminal(t)) /\ OnControlResetTerminal(t).status = 0
           /\ OnControlResetTerminal(t).wrap = FALSE
<1> DEFINE h == HideStatusLine(t)
           r == [h EXCEPT !.status = 0]
           m == MoveCursor(r, 0, 0)
           f == FullMargins(m)
           u == ResetTerminal(h)
<1>1. Typed(h) /\ h.status = 0 /\ h.line.x = 0
    BY HideStatusLineKeeps DEF Keeps, Holds
<1> HIDE DEF h
<1>2. Rest(h, r) /\ Typed(r)
    <2>1. Rest(h, r) /\ r.x = h.x /\ r.y = h.y
        BY <1>1 DEF Rest, Typed, Shape, Fields
    <2> QED
        BY <1>1, <2>1, RestTyped DEF Typed, Numbers
<1>3. Rest(h, m) /\ At(m, 0, 0)
    BY <1>2, MoveCursorRest, RestThrough
<1> HIDE DEF m
<1>4. LastRow(m) = h.lines - 1 /\ LastColumn(m) = h.cols - 1
    BY <1>1, <1>3 DEF Rest, Typed, Numbers, LastRow, LastColumn
<1>5. /\ DOMAIN f = Fields /\ f.cols = h.cols /\ f.lines = h.lines /\ f.status = 0
      /\ f.x = 0 /\ f.y = 0 /\ f.wrap = FALSE /\ f.line = h.line /\ f.main = h.main
      /\ f.left = 0 /\ f.right = h.cols - 1 /\ f.top = 0 /\ f.bottom = h.lines - 1
    BY <1>1, <1>3, <1>4 DEF FullMargins, Rest, At, Fields
<1>6. u = [f EXCEPT !.tabs = DefaultTabs(h.cols), !.mode = {"DECAWM"} \cup (@ \cap {"LNM"}),
                    !.saved = NewSaved, !.alt = FALSE]
    BY DEF ResetTerminal, f, m
<1> HIDE DEF f, r
<1>7. /\ DOMAIN u = Fields /\ u.cols = h.cols /\ u.lines = h.lines /\ u.status = 0
      /\ u.x = 0 /\ u.y = 0 /\ u.wrap = FALSE /\ u.line = h.line /\ u.main = h.main
      /\ u.left = 0 /\ u.right = h.cols - 1 /\ u.top = 0 /\ u.bottom = h.lines - 1
      /\ u.tabs = DefaultTabs(h.cols) /\ u.saved = NewSaved /\ u.alt = FALSE
    BY <1>5, <1>6 DEF Fields
<1> HIDE DEF u
<1>8. h.cols \in Nat \ {0, 1} /\ h.lines \in Nat \ {0}
    BY <1>1 DEF Typed, Numbers
<1>9. Resized(h, u, h.cols, h.lines)
    <2>1. ~isCursorOnStatusLine(h)
        BY <1>1 DEF isCursorOnStatusLine
    <2> QED
        BY <1>1, <1>7, <1>8, <2>1 DEF Resized
<1>10. u.saved \in [Slots -> SavedCursor] /\ DOMAIN u.line = {"x", "wrap"}
    <2>1. NewSlot \in SavedCursor
        BY DEF NewSlot, SavedCursor, SavedModes
    <2>2. NewSaved \in [Slots -> SavedCursor]
        BY <2>1 DEF NewSaved, Slots
    <2> QED
        BY <1>1, <1>7, <2>2 DEF Typed, Shape
<1>11. /\ u.line.x \in Nat /\ u.line.x < h.cols
       /\ u.main.x \in Nat /\ u.main.y \in Nat /\ u.main.top \in Nat /\ u.main.bottom \in Nat
    BY <1>1, <1>7 DEF Typed, Numbers
<1>12. Typed(u) /\ OnPage(u)
    BY <1>1, <1>8, <1>9, <1>10, <1>11, ResizedFits DEF isCursorOnStatusLine
<1>13. StoresStay(t, u)
    BY <1>7, <1>8, <1>9, ResizedRise DEF StoresStay
<1> QED
    BY <1>7, <1>12, <1>13, OnPageInPage
       DEF OnControlResetTerminal, Keeps, Holds, PageStays, WrapStays, WrapsAtEnd, h, u

\* Without a status line.
LEMMA ClearBufferHolds ==
    ASSUME NEW t, Typed(t)
    PROVE  /\ Typed(ClearBuffer(t)) /\ StoresStay(t, ClearBuffer(t)) /\ ClearBuffer(t).wrap = t.wrap
           /\ t.status = 0 => PageStays(t, ClearBuffer(t))
<1> DEFINE u == ClearBuffer(t)
<1>1. /\ DOMAIN u = Fields /\ u.cols = t.cols /\ u.lines = t.lines /\ u.status = t.status
      /\ u.x = 0 /\ u.y = 0 /\ u.wrap = t.wrap /\ u.line = t.line /\ u.main = t.main
      /\ u.left = 0 /\ u.right = t.cols - 1 /\ u.top = 0 /\ u.bottom = t.lines - 1
      /\ u.tabs = t.tabs /\ u.saved = t.saved /\ u.alt = t.alt
    BY DEF ClearBuffer, LastColumn, Typed, Shape, Fields
<1> HIDE DEF u
<1>2. Numbers(u)
    BY <1>1 DEF Typed, Numbers
<1>3. Shape(u) /\ Stores(u)
    BY <1>1 DEF Typed, Shape, Stores
<1>4. ASSUME t.status = 0, InPage(t) PROVE OnPage(u)
    <2>1. \A i \in DOMAIN u.tabs : u.tabs[i] \in Columns(u)
        BY <1>1, <1>4, StopsInPage DEF Columns, LastColumn
    <2>2. t.line.x < t.cols
        BY <1>4, Inside
    <2>3. /\ u.left < u.right /\ u.right < u.cols /\ u.line.x < u.cols /\ u.x < u.cols
          /\ u.top <= u.bottom /\ u.bottom < u.lines - u.status /\ u.y < u.lines - u.status
        BY <1>1, <1>4, <2>2 DEF Typed, Numbers
    <2> QED
        BY <2>1, <2>3 DEF OnPage, Fits
<1> QED
    BY <1>1, <1>2, <1>3, <1>4, OnPageInPage DEF Typed, StoresStay, PageStays, u

LEMMA HardwareResetKeeps ==
    ASSUME NEW t, Typed(t)
    PROVE  Keeps(t, HardwareReset(t))
<1> DEFINE r == OnControlResetTerminal(t)
           u == ClearBuffer(r)
<1>1. Keeps(t, r) /\ Typed(r) /\ r.status = 0 /\ r.wrap = FALSE
    BY ResetTerminalKeeps DEF Keeps, Holds
<1> HIDE DEF r
<1>2. Typed(u) /\ StoresStay(r, u) /\ PageStays(r, u) /\ u.wrap = FALSE
    BY <1>1, ClearBufferHolds
<1> HIDE DEF u
<1> QED
    BY <1>1, <1>2 DEF HardwareReset, Keeps, Holds, PageStays, WrapStays, WrapsAtEnd, StoresStay, r, u

LEMMA SoftResetHolds ==
    ASSUME NEW t, Typed(t)
    PROVE  Holds(t, SoftReset(t))
<1> DEFINE r == LeaveStatusLine(t)
           f == FullMargins(r)
           u == SoftReset(t)
<1>1. Typed(r) /\ SameSettings(t, r) /\ (InPage(t) => OnPage(r))
    BY LeaveStatusLineKeeps DEF Keeps, Holds
<1> HIDE DEF r
<1>2. Typed(f) /\ SameButMargins(r, f) /\ (InPage(t) => Fits(f))
    BY <1>1, FullMarginsFit DEF OnPage, Fits
<1>3. u = [f EXCEPT !.mode = @ \ {"IRM", "DECOM"},
                    !.saved = [@ EXCEPT !["status"] = NewSlot, ![IF t.alt THEN "alt" ELSE "main"] = NewSlot]]
    BY DEF SoftReset, f, r
<1> HIDE DEF f
<1>4. /\ SamePage(f, u) /\ u.alt = f.alt
      /\ u.saved = [f.saved EXCEPT !["status"] = NewSlot, ![IF t.alt THEN "alt" ELSE "main"] = NewSlot]
    BY <1>2, <1>3 DEF SamePage, Typed, Shape, Fields
<1> HIDE DEF u
<1>5. u.saved \in [Slots -> SavedCursor] /\ (t.alt => u.saved["main"] = f.saved["main"])
    <2>1. NewSlot \in SavedCursor /\ f.saved \in [Slots -> SavedCursor]
        BY <1>2 DEF NewSlot, SavedCursor, SavedModes, Typed, Stores
    <2> QED
        BY <1>4, <2>1 DEF Slots
<1>6. Typed(u) /\ PageStays(f, u)
    BY <1>2, <1>4, <1>5, SamePageKeeps
<1>7. InPage(t) => InPage(f)
    BY <1>1, <1>2, OnPageInPage DEF OnPage, SameButMargins
<1>8. StoresStay(t, u)
    BY <1>1, <1>2, <1>4, <1>5 DEF SameSettings, SameButMargins, SamePage, StoresStay
<1> QED
    BY <1>6, <1>7, <1>8 DEF Holds, PageStays, u

LEMMA HomesKeep ==
    ASSUME NEW t, Typed(t)
    PROVE  Keeps(t, ClearThenHome(t)) /\ Keeps(t, OnEditClearScreen(t))
<1>1. t.left \in Nat /\ t.top \in Nat /\ t.y \in Nat /\ 0 < t.cols /\ 0 < t.lines - t.status /\ t.cols \in Nat
    BY DEF Typed, Numbers
<1>2. ~isCursorOnStatusLine(t) => Keeps(t, MoveCursor(t, 0, 0)) /\ Keeps(t, MoveCursor(t, t.left, t.top))
    <2>1. ASSUME ~isCursorOnStatusLine(t) PROVE Lands(t, 0, 0) /\ Lands(t, t.left, t.top)
        <3>1. InPage(t) => t.left < t.cols /\ t.top < t.lines - t.status
            BY <2>1, Inside DEF Typed, Numbers
        <3> QED
            BY <1>1, <2>1, <3>1, LandsInside
    <2> QED
        BY <2>1, MoveCursorKeeps
<1>3. Keeps(t, MoveCursor(t, 0, IF isCursorOnStatusLine(t) THEN t.y ELSE 0))
    <2>1. Lands(t, 0, IF isCursorOnStatusLine(t) THEN t.y ELSE 0)
        BY <1>1, LandsInside
    <2> QED
        BY <2>1, MoveCursorKeeps
<1> QED
    BY <1>2, <1>3, KeepsItself DEF ClearThenHome, OnEditClearScreen

-----------------------------------------------------------------------------
(* The steps.                                                              *)

LEMMA AlternateSavingKeeps ==
    ASSUME NEW t, Typed(t)
    PROVE  /\ Typed(AlternateSaving(t)) /\ PageStays(t, AlternateSaving(t))
           /\ WrapStays(t, AlternateSaving(t)) /\ AlternateSaving(t).alt = TRUE
           /\ AlternateSaving(t).tabs = t.tabs
<1> DEFINE s == SaveCursor(t)
           u == Alternate(s)
<1>1. Keeps(t, s) /\ Typed(s) /\ SamePage(t, s)
    BY SaveCursorKeeps DEF Keeps, Holds
<1> HIDE DEF s
<1>2. Typed(u) /\ PageStays(s, u) /\ WrapStays(s, u) /\ SamePage(s, u)
    BY <1>1, ScreensKeep
<1>3. u.alt = TRUE
    BY <1>1 DEF Alternate, Typed, Shape, Fields
<1> HIDE DEF u
<1>4. u.tabs = t.tabs
    BY <1>1, <1>2 DEF SamePage
<1> QED
    BY <1>1, <1>2, <1>3, <1>4 DEF AlternateSaving, Keeps, Holds, PageStays, WrapStays, s, u

LEMMA MainKeeps ==
    ASSUME NEW t, Typed(t)
    PROVE  /\ Keeps(t, Main(t)) /\ KeepsOnPage(t, MainRestoring(t))
<1> DEFINE m == Main(t)
           u == RestoreCursor(m)
<1>1. Keeps(t, m) /\ Typed(m) /\ m.alt = FALSE /\ SamePage(t, m)
    BY ScreensKeep DEF Keeps, Holds, StoresStay, SamePage
<1> HIDE DEF m
<1>2. KeepsOnPage(m, u)
    BY <1>1, RestoreCursorKeeps
<1> HIDE DEF u
<1>3. isCursorOnStatusLine(t) <=> isCursorOnStatusLine(m)
    BY <1>1 DEF SamePage, isCursorOnStatusLine
<1>4. KeepsOnPage(t, u)
    BY <1>1, <1>2, <1>3 DEF Keeps, Holds, KeepsOnPage, PageStays, WrapStays, StoresStay
<1> QED
    BY <1>1, <1>4 DEF MainRestoring, m, u

\* What a step keeps.
Good ==
    /\ Typed(vt') /\ StoresStay(vt, vt')
    /\ PageStays(vt, vt') \/ Strays
    /\ WrapStays(vt, vt') \/ KeepsWrap
    /\ entered' = IF vt'.alt THEN entered ELSE {}

LEMMA KeepsIsGood ==
    ASSUME NEW u, Keeps(vt, u), Becomes(u)
    PROVE  Good
BY DEF Good, Keeps, Holds, Becomes

LEMMA SettingsTyped ==
    /\ \A p \in Params : p \in Nat
    /\ \A z \in Sizes : z[1] \in Nat \ {0, 1} /\ z[2] \in Nat \ {0}
BY CursorAssumption

LEMMA PulledTyped ==
    ASSUME NEW t, Typed(t), NEW rows \in Nat, NEW k \in Pulled(t, rows)
    PROVE  k \in Nat
<1>1. LastRow(t) \in Int
    BY DEF Typed, Numbers, LastRow
<1> QED
    BY <1>1 DEF Pulled, Most

LEMMA WritesAreGood ==
    ASSUME Typed(vt), Writes \/ Lines \/ Indexes
    PROVE  Good
<1>1. CASE Writes
    BY <1>1, PutHalfKeeps, PutWideKeeps, PutKanjiKeeps, KeepsIsGood DEF Writes
<1>2. CASE Lines
    BY <1>2, CarriageReturnKeeps, LineFeedKeeps, NextLineKeeps, KeepsIsGood DEF Lines
<1>3. CASE Indexes
    BY <1>3, IndexesKeep, KeepsIsGood DEF Indexes
<1> QED
    BY <1>1, <1>2, <1>3

LEMMA TabsAreGood ==
    ASSUME Typed(vt), Tabs
    PROVE  Good
<1>1. CASE Becomes(Tab(vt)) \/ Becomes(SetTabStop(vt))
    BY <1>1, TabKeeps, SetTabStopKeeps, KeepsIsGood
<1>2. ASSUME NEW p \in Params, Becomes(CursorForwardTab(vt, Arg(p, vt.cols))) \/ Becomes(CursorBackwardTab(vt, Arg(p, vt.cols)))
      PROVE  Good
    <2>1. Arg(p, vt.cols) \in Nat \ {0}
        BY SettingsTyped DEF Typed, Numbers, Arg, Least
    <2> QED
        BY <1>2, <2>1, TabsKeep, KeepsIsGood
<1>3. ASSUME NEW p \in Params, Becomes(ClearTabStop(vt, p))
      PROVE  Good
    BY <1>3, SettingsTyped, ClearTabStopKeeps, KeepsIsGood
<1> QED
    BY <1>1, <1>2, <1>3 DEF Tabs

LEMMA MovesAreGood ==
    ASSUME Typed(vt), Moves
    PROVE  Good
<1>1. ASSUME NEW p \in Params, Becomes(CSCursorUp(vt, p, TRUE)) \/ Becomes(CSCursorDown(vt, p, TRUE))
      PROVE  Good
    BY <1>1, SettingsTyped, UpDown, KeepsIsGood
<1>2. ASSUME NEW p \in Params, NEW m \in BOOLEAN, Becomes(CSCursorLeft(vt, p, m)) \/ Becomes(CSCursorRight(vt, p, m))
      PROVE  Good
    BY <1>2, SettingsTyped, LeftRight, KeepsIsGood
<1>3. ASSUME NEW p \in Params, Becomes(CSCursorUp1(vt, p)) \/ Becomes(CSCursorDown1(vt, p))
      PROVE  Good
    BY <1>3, SettingsTyped, LinesUpDown, KeepsIsGood
<1>4. ASSUME NEW p1 \in Params, NEW p2 \in Params, Becomes(CSMoveToColumnN(vt, p1)) \/ Becomes(CSMoveToXY(vt, p1, p2))
      PROVE  Good
    BY <1>4, SettingsTyped, Absolute, KeepsIsGood
<1> QED
    BY <1>1, <1>2, <1>3, <1>4 DEF Moves

\* Those that stray from the status line.
LEMMA OnPageIsGood ==
    ASSUME NEW u, KeepsOnPage(vt, u), Becomes(u), isCursorOnStatusLine(vt) => Strays
    PROVE  Good
BY DEF Good, KeepsOnPage, Becomes

LEMMA StraysAreGood ==
    ASSUME Typed(vt), BackSpaces \/ MovesDown \/ LRRegions \/ Restores \/ MainScreenRestoring
    PROVE  Good
<1>1. isCursorOnStatusLine(vt) => Strays
    BY DEF Strays
<1>2. CASE BackSpaces
    BY <1>1, <1>2, BackSpaceMoves, OnPageIsGood DEF BackSpaces
<1>3. CASE MovesDown
    <2>1. PICK p \in Params : \/ Becomes(CSMoveToLineN(vt, p))
                              \/ Becomes(CSCursorUp(vt, p, FALSE)) \/ Becomes(CSCursorDown(vt, p, FALSE))
        BY <1>3 DEF MovesDown
    <2>2. p \in Nat
        BY SettingsTyped
    <2> QED
        BY <1>1, <2>1, <2>2, Absolute, UpDownFree, OnPageIsGood
<1>4. CASE LRRegions
    <2>1. PICK p1 \in Params, p2 \in Params : Becomes(CSSetLRScrollRegion(vt, p1, p2))
        BY <1>4 DEF LRRegions
    <2>2. p1 \in Nat /\ p2 \in Nat
        BY SettingsTyped
    <2> QED
        BY <1>1, <2>1, <2>2, LRRegionsMove, OnPageIsGood
<1>5. CASE Restores \/ MainScreenRestoring
    BY <1>1, <1>5, RestoreCursorKeeps, MainKeeps, OnPageIsGood DEF Restores, MainScreenRestoring
<1> QED
    BY <1>2, <1>3, <1>4, <1>5

LEMMA MarginsAreGood ==
    ASSUME Typed(vt), Regions \/ LRModes \/ Origins \/ Modes
    PROVE  Good
<1>1. CASE Regions
    BY <1>1, SettingsTyped, RegionsKeep, KeepsIsGood DEF Regions
<1>2. CASE LRModes
    <2>1. Becomes(SetMode(vt, "DECLRMM")) \/ Becomes(NoLRMargins(vt))
        BY <1>2 DEF LRModes
    <2>2. Holds(vt, SetMode(vt, "DECLRMM")) /\ Holds(vt, NoLRMargins(vt))
        BY SetModeKeeps, NoLRMarginsHolds DEF Keeps
    <2> QED
        BY <1>2, <2>1, <2>2 DEF Good, Holds, Becomes, KeepsWrap
<1>3. CASE Origins
    BY <1>3, OriginsKeep, ScreenAlignmentKeeps, KeepsIsGood DEF Origins
<1>4. CASE Modes
    BY <1>4, SetModeKeeps, KeepsIsGood DEF Modes
<1> QED
    BY <1>1, <1>2, <1>3, <1>4

LEMMA HoldsIsGood ==
    ASSUME NEW u, Holds(vt, u), Becomes(u), KeepsWrap
    PROVE  Good
BY DEF Good, Holds, Becomes

LEMMA ScreensAreGood ==
    ASSUME Typed(vt), Saves \/ MainScreen \/ ToMainScreen \/ ToStatusLine \/ Hides \/ Shows
    PROVE  Good
<1>1. CASE Saves \/ MainScreen
    BY <1>1, SaveCursorKeeps, MainKeeps, KeepsIsGood DEF Saves, MainScreen
<1>2. CASE ToMainScreen
    BY <1>2, LeaveStatusLineKeeps, KeepsIsGood DEF ToMainScreen, LeaveStatusLine
<1>3. CASE ToStatusLine
    BY <1>3, MoveToStatusLineHolds, HoldsIsGood DEF ToStatusLine, KeepsWrap
<1>4. CASE Hides \/ Shows
    BY <1>4, HideStatusLineKeeps, ShowStatusLineKeeps, KeepsIsGood DEF Hides, Shows
<1> QED
    BY <1>1, <1>2, <1>3, <1>4

LEMMA SizesAreGood ==
    ASSUME Typed(vt), Resizes \/ ColumnModes \/ OnSize
    PROVE  Good
<1>1. CASE Resizes
    <2>1. PICK z \in Sizes : \E k \in Pulled(vt, z[2]) : Becomes(ChangeTerminalSize(vt, z[1], z[2], k))
        BY <1>1 DEF Resizes
    <2>2. z[1] \in Nat \ {0, 1} /\ z[2] \in Nat \ {0}
        BY SettingsTyped
    <2>3. PICK k \in Pulled(vt, z[2]) : Becomes(ChangeTerminalSize(vt, z[1], z[2], k))
        BY <2>1
    <2>4. k \in Nat
        BY <2>2, PulledTyped
    <2> QED
        BY <1>1, <2>2, <2>3, <2>4, ChangeTerminalSizeHolds, HoldsIsGood DEF KeepsWrap
<1>2. CASE ColumnModes
    <2>1. PICK z \in Sizes : Becomes(CSQChangeColumnMode(vt, z[1]))
        BY <1>2 DEF ColumnModes
    <2>2. z[1] \in Nat \ {0, 1}
        BY SettingsTyped
    <2> DEFINE u == CSQChangeColumnMode(vt, z[1])
    <2>3. Typed(u) /\ StoresStay(vt, u) /\ (~isCursorOnStatusLine(vt) => PageStays(vt, u))
        BY <2>2, ColumnModeMoves
    <2> HIDE DEF u
    <2> QED
        BY <1>2, <2>1, <2>3 DEF Good, Becomes, Strays, KeepsWrap, u
<1>3. CASE OnSize
    <2>1. CASE Becomes(HideStatusLine(vt))
        BY <2>1, HideStatusLineKeeps, KeepsIsGood
    <2> DEFINE t == HideStatusLine(vt)
    <2>2. CASE \E z \in Sizes : \E k \in Pulled(t, z[2]) : Becomes(BuffChangeTerminalSize(t, z[1], z[2], k))
        <3>1. PICK z \in Sizes : \E k \in Pulled(t, z[2]) : Becomes(BuffChangeTerminalSize(t, z[1], z[2], k))
            BY <2>2
        <3>2. z[1] \in Nat \ {0, 1} /\ z[2] \in Nat \ {0}
            BY SettingsTyped
        <3>3. Typed(t)
            BY HideStatusLineKeeps DEF Keeps, Holds
        <3>4. PICK k \in Pulled(t, z[2]) : Becomes(BuffChangeTerminalSize(t, z[1], z[2], k))
            BY <3>1
        <3>5. k \in Nat
            BY <3>2, <3>3, PulledTyped
        <3> QED
            BY <1>3, <3>2, <3>4, <3>5, OnSizeHolds, HoldsIsGood DEF KeepsWrap
    <2> QED
        BY <1>3, <2>1, <2>2 DEF OnSize
<1> QED
    BY <1>1, <1>2, <1>3

LEMMA ResetsAreGood ==
    ASSUME Typed(vt), Resets \/ SoftResets \/ Homes \/ Clears
    PROVE  Good
<1>1. CASE Resets
    BY <1>1, HardwareResetKeeps, ResetTerminalKeeps, KeepsIsGood DEF Resets
<1>2. CASE SoftResets
    BY <1>2, SoftResetHolds, HoldsIsGood DEF SoftResets, KeepsWrap
<1>3. CASE Homes
    BY <1>3, HomesKeep, KeepsIsGood DEF Homes
<1>4. CASE Clears
    <2>1. vt.status \in {0, 1}
        BY DEF Typed, Numbers
    <2> DEFINE u == ClearBuffer(vt)
    <2>2. Typed(u) /\ StoresStay(vt, u) /\ (vt.status = 0 => PageStays(vt, u)) /\ Becomes(u)
        BY <1>4, ClearBufferHolds DEF Clears
    <2> HIDE DEF u
    <2> QED
        BY <1>4, <2>1, <2>2 DEF Good, Becomes, Strays, KeepsWrap
<1> QED
    BY <1>1, <1>2, <1>3, <1>4

\* The alternate screen's own saved cursor comes into use.
LEMMA AlternateIsGood ==
    ASSUME Typed(vt), AlternateScreen \/ AlternateScreenSaving
    PROVE  Typed(vt') /\ PageStays(vt, vt') /\ WrapStays(vt, vt') /\ vt'.tabs = vt.tabs
<1>1. CASE AlternateScreen
    BY <1>1, ScreensKeep DEF AlternateScreen, Becomes, SamePage
<1>2. CASE AlternateScreenSaving
    BY <1>2, AlternateSavingKeeps DEF AlternateScreenSaving
<1> QED
    BY <1>1, <1>2

LEMMA StepsAreGood ==
    ASSUME Typed(vt), Next
    PROVE  Good \/ AlternateScreen \/ AlternateScreenSaving
BY WritesAreGood, TabsAreGood, MovesAreGood, StraysAreGood, MarginsAreGood, ScreensAreGood,
   SizesAreGood, ResetsAreGood DEF Next

-----------------------------------------------------------------------------
(* The theorems.                                                           *)

LEMMA StartTyped ==
    ASSUME NEW z \in Sizes, NEW ts
    PROVE  Typed(Start(z, ts))
<1> DEFINE u == Start(z, ts)
<1>1. z[1] \in Nat \ {0, 1} /\ z[2] \in Nat \ {0}
    BY SettingsTyped
<1>2. Numbers(u)
    BY <1>1 DEF Start, Numbers
<1>3. u.saved \in [Slots -> SavedCursor]
    <2>1. NewSlot \in SavedCursor
        BY DEF NewSlot, SavedCursor, SavedModes
    <2> QED
        BY <2>1 DEF Start, NewSaved, Slots
<1>4. u.tabs \in Seq(Nat)
    BY <1>1, DefaultTabsFit DEF Start
<1>5. Shape(u)
    BY DEF Start, Shape, Fields
<1> QED
    BY <1>2, <1>3, <1>4, <1>5 DEF Typed, Stores

\* The numbers of the terminal are natural ones, a page has two columns and a
\* line at least, the stops are a sequence and the saved cursors positions.
THEOREM TypeCorrect == Spec => []Typed(vt)
<1>1. Init => Typed(vt)
    BY StartTyped DEF Init
<1>2. Typed(vt) /\ [Next]_vars => Typed(vt)'
    BY StepsAreGood, AlternateIsGood DEF Good, vars
<1> QED
    BY <1>1, <1>2, PTL DEF Spec

\* No step but those of Strays takes the cursor, the margins or a stop out of
\* the page (vtterm.c, buffer.c), for every size, parameter and tab width.
THEOREM PageKept == Spec => StaysInPage
<1>1. Typed(vt) /\ [Next]_vars => [InPage(vt) => InPage(vt)' \/ Strays]_vars
    BY StepsAreGood, AlternateIsGood DEF Good, PageStays, vars
<1> QED
    BY <1>1, TypeCorrect, PTL DEF Spec, StaysInPage

\* A pending wrap is cleared or still at the end of its line after every step
\* but those of KeepsWrap (MoveCursor, PutU32).
THEOREM WrapKept == Spec => WrapGoesWithCursor
<1>1. Typed(vt) /\ [Next]_vars => [InPage(vt) /\ WrapsAtEnd(vt) => WrapsAtEnd(vt)' \/ KeepsWrap]_vars
    BY StepsAreGood, AlternateIsGood DEF Good, WrapStays, vars
<1> QED
    BY <1>1, TypeCorrect, PTL DEF Spec, WrapGoesWithCursor

\* CUP goes to the position that DSR 6 reports (CS_n_Mode, CSMoveToXY), with
\* every margin, in origin mode and on the status line.
THEOREM Reported == Spec => []ReportRoundTrip
<1>1. Typed(vt) => ReportRoundTrip
    <2> SUFFICES ASSUME Typed(vt), InPage(vt),
                        ~Is(vt, "DECOM") \/ isCursorOnStatusLine(vt) \/ InMargins(vt)
                 PROVE  CSMoveToXY(vt, Report(vt)[1], Report(vt)[2]) = MoveCursor(vt, vt.x, vt.y)
        BY DEF ReportRoundTrip
    <2>1. /\ vt.x \in Nat /\ vt.y \in Nat /\ vt.cols \in Nat /\ LastRow(vt) + 1 \in Nat
          /\ vt.left \in Nat /\ vt.right \in Nat /\ vt.top \in Nat /\ vt.bottom \in Nat
          /\ vt.x < vt.cols /\ vt.right < vt.cols
        BY Inside DEF Typed, Numbers, LastRow
    <2>2. CASE isCursorOnStatusLine(vt)
        <3>1. Arg(vt.x + 1, vt.cols) - 1 = vt.x
            BY <2>1 DEF Arg, Least
        <3> QED
            BY <2>2, <3>1 DEF CSMoveToXY, Report
    <2>3. CASE ~isCursorOnStatusLine(vt) /\ ~Is(vt, "DECOM")
        <3>1. vt.y < LastRow(vt) + 1
            BY <2>3, Inside DEF Typed, Numbers, LastRow
        <3>2. Arg(vt.x + 1, vt.cols) - 1 = vt.x /\ Arg(vt.y + 1, LastRow(vt) + 1) - 1 = vt.y
            BY <2>1, <3>1 DEF Arg, Least
        <3> QED
            BY <2>3, <3>2 DEF CSMoveToXY, Report
    <2>4. CASE ~isCursorOnStatusLine(vt) /\ Is(vt, "DECOM")
        <3>1. vt.left <= vt.x /\ vt.x <= vt.right /\ vt.top <= vt.y /\ vt.y <= vt.bottom
            BY <2>1, <2>4 DEF InMargins
        <3>2. vt.y - vt.top < LastRow(vt) + 1
            BY <2>1, <2>4, Inside DEF Typed, Numbers, LastRow
        <3>3. /\ Arg(vt.x - vt.left + 1, vt.cols) - 1 = vt.x - vt.left
              /\ Arg(vt.y - vt.top + 1, LastRow(vt) + 1) - 1 = vt.y - vt.top
            BY <2>1, <3>1, <3>2 DEF Arg, Least
        <3>4. Least(vt.left + (vt.x - vt.left), vt.right) = vt.x /\ Least(vt.top + (vt.y - vt.top), vt.bottom) = vt.y
            BY <2>1, <3>1 DEF Least
        <3> QED
            BY <2>4, <3>3, <3>4 DEF CSMoveToXY, Report
    <2> QED
        BY <2>2, <2>3, <2>4
<1> QED
    BY <1>1, TypeCorrect, PTL

\* The history is what the main screen's saved cursor holds, as long as the
\* alternate screen is in use.
MainKnown == (entered # {} => vt.alt) /\ entered \subseteq {vt.saved["main"]}

LEMMA MainKept ==
    ASSUME Typed(vt), MainKnown, Next
    PROVE  MainKnown'
<1>1. CASE Good
    BY <1>1 DEF Good, StoresStay, MainKnown
<1>2. CASE AlternateScreen
    BY <1>2 DEF AlternateScreen, Becomes, MainKnown
<1>3. CASE AlternateScreenSaving
    BY <1>3, AlternateSavingKeeps DEF AlternateScreenSaving, MainKnown
<1> QED
    BY <1>1, <1>2, <1>3, StepsAreGood

LEMMA MainReturn ==
    ASSUME Typed(vt), MainKnown, MainScreenRestoring, ~isCursorOnStatusLine(vt), NEW s \in entered
    PROVE  /\ vt'.x = Least(s.x, LastColumn(vt)) /\ vt'.y = Least(s.y, LastRow(vt))
           /\ vt'.mode \cap SavedModes = s.mode
<1> DEFINE m == Main(vt)
           old == m.saved[Slot(m)]
           c == [old EXCEPT !.x = Least(@, LastColumn(m)), !.y = Least(@, LastRow(m))]
           r == [m EXCEPT !.saved[Slot(m)] = c, !.mode = (@ \ SavedModes) \cup c.mode]
           u == MoveCursor(r, c.x, c.y)
<1>1. vt' = u
    BY DEF MainScreenRestoring, Becomes, MainRestoring, RestoreCursor
<1>2. SamePage(vt, m) /\ m.alt = FALSE /\ m.saved = vt.saved /\ m.mode = vt.mode /\ Typed(m)
    BY ScreensKeep
<1> HIDE DEF m
<1>3. LastColumn(m) = LastColumn(vt) /\ LastRow(m) = LastRow(vt) /\ Slot(m) = "main"
    BY <1>2 DEF SamePage, LastColumn, LastRow, Slot, isCursorOnStatusLine
<1>4. old = s
    BY <1>2, <1>3 DEF MainKnown
<1> HIDE DEF old
<1>5. s \in SavedCursor
    BY DEF MainKnown, Typed, Stores, Slots
<1>6. c.x = Least(s.x, LastColumn(vt)) /\ c.y = Least(s.y, LastRow(vt)) /\ c.mode = s.mode
    BY <1>3, <1>4, <1>5 DEF SavedCursor
<1> HIDE DEF c
<1>7. u.x = c.x /\ u.y = c.y /\ u.mode = (vt.mode \ SavedModes) \cup c.mode
    BY <1>2 DEF MoveCursor, Typed, Shape, Fields
<1>8. s.mode \subseteq SavedModes
    BY <1>5 DEF SavedCursor
<1> HIDE DEF u
<1> QED
    BY <1>1, <1>6, <1>7, <1>8

\* DECRST 1049 gives the main screen the cursor and the modes with which
\* DECSET 1049 left it, whatever happens on the alternate screen.
THEOREM MainReturns == Spec => MainCursorReturns
<1>1. Init => MainKnown
    BY DEF Init, MainKnown
<1>2. Typed(vt) /\ MainKnown /\ [Next]_vars => MainKnown'
    BY MainKept DEF MainKnown, vars
<1>3. Typed(vt) /\ MainKnown /\ [Next]_vars =>
        [MainScreenRestoring /\ ~isCursorOnStatusLine(vt) =>
           \A s \in entered : /\ vt'.x = Least(s.x, LastColumn(vt)) /\ vt'.y = Least(s.y, LastRow(vt))
                             /\ vt'.mode \cap SavedModes = s.mode]_vars
    BY MainReturn
<1> QED
    BY <1>1, <1>2, <1>3, TypeCorrect, PTL DEF Spec, MainCursorReturns

-----------------------------------------------------------------------------
(* Where a tab goes.                                                       *)

\* Where a tab goes with stops in order.
LEMMA NearestStop ==
    ASSUME NEW tabs \in Seq(Nat), Rising(tabs), NEW x \in Int, NEW i \in 1..Len(tabs)
    PROVE  /\ i = Preceding(tabs, x) + 1 => tabs[i] >= x /\ \A j \in DOMAIN tabs : tabs[j] >= x => tabs[i] <= tabs[j]
           /\ i = Preceding(tabs, x) => tabs[i] < x /\ \A j \in DOMAIN tabs : tabs[j] < x => tabs[j] <= tabs[i]
<1> DEFINE n == Preceding(tabs, x)
<1>1. n \in 0..Len(tabs) /\ (\A j \in 1..n : tabs[j] < x) /\ (n < Len(tabs) => tabs[n + 1] >= x)
    BY PrecedingIs
<1>2. DOMAIN tabs = 1..Len(tabs) /\ Len(tabs) \in Nat /\ \A j \in 1..Len(tabs) : tabs[j] \in Nat
    OBVIOUS
<1> HIDE DEF n
<1>3. ASSUME i = n + 1
      PROVE  tabs[i] >= x /\ \A j \in DOMAIN tabs : tabs[j] >= x => tabs[i] <= tabs[j]
    <2>1. tabs[i] >= x
        BY <1>1, <1>2, <1>3
    <2>2. ASSUME NEW j \in DOMAIN tabs, tabs[j] >= x PROVE tabs[i] <= tabs[j]
        <3>1. ~(j <= n)
            BY <1>1, <1>2, <2>2
        <3> QED
            BY <1>1, <1>2, <1>3, <3>1 DEF Rising
    <2> QED
        BY <2>1, <2>2
<1>4. ASSUME i = n
      PROVE  tabs[i] < x /\ \A j \in DOMAIN tabs : tabs[j] < x => tabs[j] <= tabs[i]
    <2>1. tabs[i] < x
        BY <1>1, <1>2, <1>4
    <2>2. ASSUME NEW j \in DOMAIN tabs, tabs[j] < x PROVE tabs[j] <= tabs[i]
        <3>1. j <= n
            <4>1. CASE j = n + 1
                BY <1>1, <1>2, <2>2, <4>1
            <4>2. CASE j > n + 1
                <5>1. n + 1 \in DOMAIN tabs /\ n < Len(tabs)
                    BY <1>1, <1>2, <4>2
                <5>2. tabs[n + 1] < tabs[j]
                    BY <1>2, <4>2, <5>1 DEF Rising
                <5> QED
                    BY <1>1, <1>2, <2>2, <5>1, <5>2
            <4> QED
                BY <1>1, <1>2, <4>1, <4>2
        <3> QED
            BY <1>1, <1>2, <1>4, <3>1 DEF Rising
    <2> QED
        BY <2>1, <2>2
<1> QED
    BY <1>3, <1>4 DEF n

\* CursorForwardTab and CursorBackwardTab of one stop.
\* Where CursorForwardTab and CursorBackwardTab go by one stop.
TabTo(tabs, x, end) ==
    LET i == Preceding(tabs, x + 1) + 1 IN IF i <= Len(tabs) /\ tabs[i] <= end THEN tabs[i] ELSE end
TabBack(tabs, x, start) ==
    LET i == Preceding(tabs, x) IN IF i < 1 \/ tabs[i] < start THEN start ELSE tabs[i]

LEMMA TabAhead ==
    ASSUME NEW tabs \in Seq(Nat), Rising(tabs), NEW x \in Nat, NEW end \in Int
    PROVE  LET f == TabTo(tabs, x, end)
           IN /\ f = end \/ \E j \in DOMAIN tabs : f = tabs[j]
              /\ x < end => x < f /\ f <= end
              /\ \A j \in DOMAIN tabs : x < tabs[j] /\ tabs[j] <= end => x < f /\ f <= tabs[j]
<1> DEFINE i == Preceding(tabs, x + 1) + 1
           f == TabTo(tabs, x, end)
<1>0. i = Preceding(tabs, x + 1) + 1 /\ f = IF i <= Len(tabs) /\ tabs[i] <= end THEN tabs[i] ELSE end
    BY DEF TabTo
<1> SUFFICES /\ f = end \/ \E j \in DOMAIN tabs : f = tabs[j]
             /\ x < end => x < f /\ f <= end
             /\ \A j \in DOMAIN tabs : x < tabs[j] /\ tabs[j] <= end => x < f /\ f <= tabs[j]
    OBVIOUS
<1> HIDE DEF i, f
<1>1. DOMAIN tabs = 1..Len(tabs) /\ Len(tabs) \in Nat /\ \A j \in 1..Len(tabs) : tabs[j] \in Nat
    OBVIOUS
<1>2. i \in 1..(Len(tabs) + 1) /\ \A j \in 1..(i - 1) : tabs[j] < x + 1
    <2> DEFINE y == x + 1
               n == Preceding(tabs, y)
    <2>1. y \in Int /\ i = n + 1
        BY <1>0
    <2> HIDE DEF y
    <2>2. n \in 0..Len(tabs) /\ (\A j \in 1..n : tabs[j] < y)
        BY <2>1, PrecedingIs
    <2> HIDE DEF n
    <2>3. n = i - 1 /\ i \in 1..(Len(tabs) + 1)
        BY <1>1, <2>1, <2>2
    <2> QED
        BY <2>2, <2>3 DEF y
<1>3. CASE i <= Len(tabs)
    <2>1. tabs[i] >= x + 1 /\ \A j \in DOMAIN tabs : tabs[j] >= x + 1 => tabs[i] <= tabs[j]
        BY <1>0, <1>1, <1>2, <1>3, NearestStop
    <2> QED
        BY <1>0, <1>1, <1>2, <1>3, <2>1
<1>4. CASE i = Len(tabs) + 1
    <2>1. f = end
        BY <1>0, <1>1, <1>4
    <2>2. ASSUME NEW j \in DOMAIN tabs PROVE ~(x < tabs[j])
        <3>1. j \in 1..(i - 1) /\ tabs[j] \in Nat
            BY <1>1, <1>4
        <3> QED
            BY <1>2, <3>1
    <2> QED
        BY <2>1, <2>2
<1> QED
    BY <1>1, <1>2, <1>3, <1>4

LEMMA TabBehind ==
    ASSUME NEW tabs \in Seq(Nat), Rising(tabs), NEW x \in Nat, NEW start \in Nat
    PROVE  LET b == TabBack(tabs, x, start)
           IN /\ b = start \/ \E j \in DOMAIN tabs : b = tabs[j]
              /\ start < x => start <= b /\ b < x
              /\ \A j \in DOMAIN tabs : start <= tabs[j] /\ tabs[j] < x => tabs[j] <= b /\ b < x
<1> DEFINE i == Preceding(tabs, x)
           b == TabBack(tabs, x, start)
<1>0. i = Preceding(tabs, x) /\ b = IF i < 1 \/ tabs[i] < start THEN start ELSE tabs[i]
    BY DEF TabBack
<1> SUFFICES /\ b = start \/ \E j \in DOMAIN tabs : b = tabs[j]
             /\ start < x => start <= b /\ b < x
             /\ \A j \in DOMAIN tabs : start <= tabs[j] /\ tabs[j] < x => tabs[j] <= b /\ b < x
    OBVIOUS
<1> HIDE DEF i, b
<1>1. DOMAIN tabs = 1..Len(tabs) /\ Len(tabs) \in Nat /\ \A j \in 1..Len(tabs) : tabs[j] \in Nat
    OBVIOUS
<1>2. i \in 0..Len(tabs) /\ (i < Len(tabs) => tabs[i + 1] >= x)
    <2> DEFINE n == Preceding(tabs, x)
    <2>1. x \in Int
        OBVIOUS
    <2>2. n \in 0..Len(tabs) /\ (n < Len(tabs) => tabs[n + 1] >= x)
        BY <2>1, PrecedingIs
    <2> HIDE DEF n
    <2> QED
        BY <1>0, <2>2 DEF n
<1>3. CASE i >= 1
    <2>1. tabs[i] < x /\ \A j \in DOMAIN tabs : tabs[j] < x => tabs[j] <= tabs[i]
        BY <1>0, <1>1, <1>2, <1>3, NearestStop
    <2> QED
        BY <1>0, <1>1, <1>2, <1>3, <2>1
<1>4. CASE i = 0
    <2>1. ASSUME NEW j \in 1..Len(tabs) PROVE tabs[j] >= x
        <3>1. Len(tabs) > 0 /\ tabs[1] >= x
            BY <1>1, <1>2, <1>4
        <3>2. j = 1 \/ tabs[1] < tabs[j]
            BY <1>1, <3>1 DEF Rising
        <3> QED
            BY <1>1, <3>1, <3>2
    <2> QED
        BY <1>0, <1>1, <1>4, <2>1
<1> QED
    BY <1>1, <1>2, <1>3, <1>4

LEMMA TabsGo ==
    ASSUME Typed(vt), Rising(vt.tabs)
    PROVE  TabFindsNearest
<1> DEFINE fore == CursorForwardTab(vt, 1).x
           back == CursorBackwardTab(vt, 1).x
           end == TabEnd(vt)
           start == TabStart(vt)
           stops == {vt.tabs[i] : i \in DOMAIN vt.tabs}
<1>1. /\ vt.tabs \in Seq(Nat) /\ vt.x \in Nat /\ Len(vt.tabs) \in Nat
      /\ DOMAIN vt.tabs = 1..Len(vt.tabs) /\ \A i \in 1..Len(vt.tabs) : vt.tabs[i] \in Nat
    <2>1. vt.tabs \in Seq(Nat) /\ vt.x \in Nat
        BY DEF Typed, Numbers, Stores
    <2> QED
        BY <2>1
<1>2. end \in Int /\ start \in Nat
    BY DEF TabEnd, TabStart, LastColumn, Typed, Numbers
<1>3. \A x : MoveCursor(vt, x, vt.y).x = x
    <2> TAKE x
    <2>1. At(MoveCursor(vt, x, vt.y), x, vt.y)
        BY MoveCursorRest
    <2> QED
        BY <2>1 DEF At
<1> HIDE DEF end, start
<1>4. /\ fore = end \/ \E j \in DOMAIN vt.tabs : fore = vt.tabs[j]
      /\ vt.x < end => vt.x < fore /\ fore <= end
      /\ \A j \in DOMAIN vt.tabs : vt.x < vt.tabs[j] /\ vt.tabs[j] <= end => vt.x < fore /\ fore <= vt.tabs[j]
    <2> DEFINE i == Preceding(vt.tabs, vt.x + 1) + 1
               u == [vt EXCEPT !.x = end, !.wrap = IF "VTCOMPATTAB" \in vt.ts THEN @ ELSE Is(vt, "DECAWM")]
    <2>1. u.x = end
        BY DEF Typed, Shape, Fields
    <2>2. CursorForwardTab(vt, 1) = IF i <= Len(vt.tabs) /\ vt.tabs[i] <= end THEN MoveCursor(vt, vt.tabs[i], vt.y) ELSE u
        BY DEF CursorForwardTab, end
    <2> HIDE DEF u
    <2>3. TabTo(vt.tabs, vt.x, end) = IF i <= Len(vt.tabs) /\ vt.tabs[i] <= end THEN vt.tabs[i] ELSE end
        BY DEF TabTo
    <2> HIDE DEF i
    <2>4. fore = TabTo(vt.tabs, vt.x, end)
        BY <1>3, <2>1, <2>2, <2>3
    <2> HIDE DEF fore
    <2> QED
        BY <1>1, <1>2, <2>4, TabAhead
<1>5. /\ back = start \/ \E j \in DOMAIN vt.tabs : back = vt.tabs[j]
      /\ start < vt.x => start <= back /\ back < vt.x
      /\ \A j \in DOMAIN vt.tabs : start <= vt.tabs[j] /\ vt.tabs[j] < vt.x => vt.tabs[j] <= back /\ back < vt.x
    <2> DEFINE i == Preceding(vt.tabs, vt.x)
    <2>1. i \in Int /\ i - 1 + 1 = i
        <3>1. vt.x \in Int
            BY <1>1
        <3> QED
            BY <1>1, <3>1, PrecedingRange
    <2>2. CursorBackwardTab(vt, 1) = IF i - 1 + 1 < 1 \/ vt.tabs[i - 1 + 1] < start THEN MoveCursor(vt, start, vt.y)
                                     ELSE MoveCursor(vt, vt.tabs[i - 1 + 1], vt.y)
        BY DEF CursorBackwardTab, start
    <2>3. TabBack(vt.tabs, vt.x, start) = IF i < 1 \/ vt.tabs[i] < start THEN start ELSE vt.tabs[i]
        BY DEF TabBack
    <2> HIDE DEF i
    <2>4. back = TabBack(vt.tabs, vt.x, start)
        BY <1>3, <2>1, <2>2, <2>3
    <2> HIDE DEF back
    <2> QED
        BY <1>1, <1>2, <2>4, TabBehind
<1> HIDE DEF fore, back
<1>6. /\ \A s \in stops \cup {end} : vt.x < s /\ s <= end => vt.x < fore /\ fore <= s
      /\ fore \in stops \cup {end}
    BY <1>4
<1>7. /\ \A s \in stops \cup {start} : start <= s /\ s < vt.x => s <= back /\ back < vt.x
      /\ back \in stops \cup {start}
    BY <1>5
<1> HIDE DEF stops
<1>8. /\ \A s \in {r \in stops \cup {end} : vt.x < r /\ r <= end} : vt.x < fore /\ fore <= s
      /\ \A s \in {r \in stops \cup {start} : start <= r /\ r < vt.x} : s <= back /\ back < vt.x
    BY <1>6, <1>7
<1> QED
    BY <1>6, <1>7, <1>8 DEF TabFindsNearest, fore, back, end, start, stops

\* HT and CBT go to the nearest stop or to the margin (CursorForwardTab,
\* CursorBackwardTab), whatever stops were set and cleared in whatever order:
\* SetTabStop puts a stop where the search for its column ends.
THEOREM NearestFound == Spec => []TabFindsNearest
<1>1. Init => Rising(vt.tabs)
    <2> SUFFICES ASSUME NEW z \in Sizes, NEW ts, vt = Start(z, ts) PROVE Rising(vt.tabs)
        BY DEF Init
    <2>1. z[1] \in Nat \ {0}
        BY SettingsTyped
    <2>2. vt.tabs = DefaultTabs(z[1])
        BY DEF Start
    <2> QED
        BY <2>1, <2>2, DefaultTabsFit
<1>2. Typed(vt) /\ Rising(vt.tabs) /\ [Next]_vars => Rising(vt.tabs)'
    BY StepsAreGood, AlternateIsGood DEF Good, StoresStay, vars
<1>3. Typed(vt) /\ Rising(vt.tabs) => TabFindsNearest
    BY TabsGo
<1> QED
    BY <1>1, <1>2, <1>3, TypeCorrect, PTL DEF Spec
=============================================================================
