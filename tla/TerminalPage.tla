---------------------------- MODULE TerminalPage ----------------------------
(***************************************************************************)
(* What the terminal's text is, without the way it is kept: the lines that  *)
(* have left the screen, the oldest first, and the lines of the page.  The  *)
(* control functions move lines within the page, or out of it.              *)
(***************************************************************************)
EXTENDS Integers, Sequences

CONSTANTS
    Parts,            \* of a line: those left and right margins enclose, and others
    Inside,           \* the part left and right margins enclose
    Heights,          \* of the page
    Counts            \* by how many lines it may be scrolled

VARIABLES
    hist, page,       \* lines, each a function of Parts
    y, top, bottom,   \* the cursor's line and the scroll region, from 0
    lr,               \* left and right margins are set
    kept,             \* the page that was saved, or <<>>
    room              \* how many lines that left the page are kept at most

vars == <<hist, page, y, top, bottom, lr, kept, room>>

Empty == [p \in Parts |-> 0]
Blank(k) == [i \in 1..k |-> Empty]
Newest(s, k) == SubSeq(s, (IF Len(s) > k THEN Len(s) - k ELSE 0) + 1, Len(s))

\* The line that `old` becomes when the margins' part of `new` comes in its place.
Over(old, new) == IF lr THEN [old EXCEPT ![Inside] = new[Inside]] ELSE new

\* Lines first..last (from 0) give way to the lines of s.
Replaced(first, last, s) ==
    [i \in 1..Len(page) |->
        IF i - 1 \in first..last THEN Over(page[i], s[i - first]) ELSE page[i]]

\* They move up or down by k, and blank lines come in.
Up(first, last, k) ==
    Replaced(first, last, SubSeq(page, first + 1 + k, last + 1) \o Blank(k))
Down(first, last, k) ==
    Replaced(first, last, Blank(k) \o SubSeq(page, first + 1, last + 1 - k))

\* The lines down to `last` leave the page and k blank ones come in; those below stay.
LeaveTop(last, k) ==
    LET all == hist \o SubSeq(page, 1, last + 1) \o Blank(k) \o SubSeq(page, last + 2, Len(page))
    IN /\ page' = Newest(all, Len(page))
       /\ hist' = Newest(SubSeq(all, 1, Len(all) - Len(page)), room)

Same == UNCHANGED <<hist, page>>

Text == \E p \in Parts : /\ Len(page') = Len(page) /\ page' = [page EXCEPT ![y + 1][p] = page'[y + 1][p]]
                         /\ UNCHANGED <<hist, y, top, bottom, lr, kept, room>>

\* A cursor movement or a change of the margins leaves all text alone.
Move == Same /\ UNCHANGED <<kept, room>>

ScrollUp(k) ==
    /\ IF top = 0 /\ ~lr THEN LeaveTop(bottom, k)
       ELSE page' = Up(top, bottom, IF k > bottom - top THEN bottom - top + 1 ELSE k) /\ UNCHANGED hist
    /\ UNCHANGED <<y, top, bottom, lr, kept, room>>

ScrollDown(k) ==
    /\ page' = Down(top, bottom, IF k > bottom - top THEN bottom - top + 1 ELSE k)
    /\ UNCHANGED <<hist, y, top, bottom, lr, kept, room>>

InsertLines(k) ==
    /\ y \in top..bottom /\ page' = Down(y, bottom, IF k > bottom - y THEN bottom - y + 1 ELSE k)
    /\ UNCHANGED <<hist, y, top, bottom, lr, kept, room>>

DeleteLines(k) ==
    /\ y \in top..bottom /\ page' = Up(y, bottom, IF k > bottom - y THEN bottom - y + 1 ELSE k)
    /\ UNCHANGED <<hist, y, top, bottom, lr, kept, room>>

ClearScreen == LeaveTop(Len(page) - 1, Len(page)) /\ UNCHANGED <<y, top, bottom, lr, kept, room>>

\* The other screen is shown: the page is kept for later, and may be cleared.
Keep == /\ kept' = page /\ (Same \/ LeaveTop(Len(page) - 1, Len(page)))
        /\ UNCHANGED <<y, top, bottom, lr, room>>

\* The page kept comes back, as much of it as there is room for.
Back == /\ kept # <<>> /\ kept' = <<>>
        /\ \E over \in {page, Blank(Len(page))} :
             page' = [i \in 1..Len(page) |-> IF i <= Len(kept) THEN kept[i] ELSE over[i]]
        /\ hist' = hist \/ hist' = Newest(hist \o page, room)
        /\ UNCHANGED <<top, bottom, lr, room>>

\* The page gets another height, and is cleared.
Resize ==
    /\ \E h \in Heights : page' = Blank(h)
    /\ hist' = Newest(hist \o page, room') /\ UNCHANGED kept

\* Fewer or more lines are kept.
Rekeep == /\ hist' = Newest(hist, room')
          /\ UNCHANGED <<page, y, top, bottom, lr, kept>>

Clear == hist' = <<>> /\ page' = Blank(Len(page)) /\ kept' \in {kept, <<>>} /\ UNCHANGED room

Reset == Same /\ kept' = <<>> /\ UNCHANGED room

Next ==
    \/ Text \/ Move \/ ClearScreen \/ Keep \/ Back \/ Resize \/ Rekeep \/ Clear \/ Reset
    \/ \E k \in Counts :
          ScrollUp(k) \/ ScrollDown(k) \/ InsertLines(k) \/ DeleteLines(k)

=============================================================================
