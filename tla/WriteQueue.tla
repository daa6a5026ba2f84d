----------------------------- MODULE WriteQueue -----------------------------
(***************************************************************************)
(* What fwd.c expects of the write buffer of a forwarded socket: a queue of *)
(* at most WriteBufferSize bytes before the socket.  An empty queue lets a   *)
(* write go straight to the socket, a queue with room keeps it and sends     *)
(* nothing, a full one first gives the socket what exceeds its size.         *)
(* SshChannel has this queue with the bytes counted instead of kept.         *)
(***************************************************************************)
EXTENDS Integers, Sequences

CONSTANTS
    WriteBufferSize,     \* session_settings.WriteBufferSize
    MaxWrite,            \* bound: bytes handed over at once
    MaxBytes             \* bound: bytes handed over in all

VARIABLES
    written,             \* bytes handed over; they are numbered from 0
    queue,               \* bytes waiting, oldest first
    got,                 \* bytes the socket took, in that order
    armed,               \* a send blocked since the last FD_WRITE
    failed               \* a send failed: the caller closes the socket

vars == <<written, queue, got, armed, failed>>

New(n) == [i \in 1..n |-> written + i - 1]

\* How many of the bytes there are may go, with n of them new.
MayGo(n) ==
    LET total == Len(queue) + n
        over  == IF total > WriteBufferSize THEN total - WriteBufferSize ELSE 0
    IN over..(IF queue = <<>> \/ over > 0 THEN total ELSE 0)

Sends(all, k) ==
    /\ got' = got \o SubSeq(all, 1, k)
    /\ queue' = SubSeq(all, k + 1, Len(all))

Init == written = 0 /\ queue = <<>> /\ got = <<>> /\ armed = FALSE /\ failed = FALSE

Write ==
    \E n \in 1..MaxWrite :
        /\ ~failed /\ written + n <= MaxBytes
        /\ written' = written + n
        /\ \E k \in MayGo(n) : Sends(queue \o New(n), k)
        /\ armed' = IF MayGo(n) = {0} THEN armed ELSE queue' # <<>>
        /\ UNCHANGED failed

WriteMore ==
    /\ ~failed /\ armed
    /\ \E k \in 0..Len(queue) : Sends(queue, k)
    /\ armed' = (queue' # <<>>)
    /\ UNCHANGED <<written, failed>>

\* Nothing is written any more; the bytes on their way are in order.
Fail ==
    /\ ~failed /\ failed' = TRUE
    /\ \E n \in 0..MaxWrite :
         /\ written' = written + n
         /\ \E k \in 0..(Len(queue) + n) : got' = got \o SubSeq(queue \o New(n), 1, k)
    /\ UNCHANGED <<queue, armed>>

Next == Write \/ WriteMore \/ Fail

Spec == Init /\ [][Next]_vars
=============================================================================
