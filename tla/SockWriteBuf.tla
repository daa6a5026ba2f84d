---------------------------- MODULE SockWriteBuf ----------------------------
(***************************************************************************)
(* UTILSockWriteBuf (ttssh2/ttxssh/util.c): the ring buffer in front of a    *)
(* forwarded socket, which grows up to WriteBufferSize while it is wrapped.  *)
(* One step is one call; the socket takes any part of what it is offered,    *)
(* or fails.  Bytes are numbered from 0 in the order they are handed over.   *)
(***************************************************************************)
EXTENDS Integers, Sequences

CONSTANTS
    WriteBufferSize,     \* session_settings.WriteBufferSize
    MaxWrite,            \* bound: bytes handed over at once
    MaxBytes             \* bound: bytes handed over in all

ASSUME BufferAssumption ==
    WriteBufferSize \in Nat \ {0} /\ MaxWrite \in Nat /\ MaxBytes \in Nat

VARIABLES
    ring,                \* bufdata, buflen, datastart, datalen
    written,             \* bytes handed over
    got,                 \* bytes the socket took, in that order
    armed,               \* a send blocked since the last FD_WRITE
    failed               \* a send failed: the caller closes the socket

vars == <<ring, written, got, armed, failed>>

Garbage == -1            \* what realloc leaves in new memory

Min(a, b) == IF a < b THEN a ELSE b
Max(a, b) == IF a < b THEN b ELSE a

New(n) == [i \in 1..n |-> written + i - 1]

\* UTIL_init_sock_write_buf.
Init ==
    /\ ring = [bufdata |-> <<>>, buflen |-> 0, datastart |-> 0, datalen |-> 0]
    /\ written = 0 /\ got = <<>> /\ armed = FALSE /\ failed = FALSE

-----------------------------------------------------------------------------
(* The ring.                                                               *)

\* The first k bytes of it: up to its end, then from its beginning.
FirstBytes(r, k) ==
    [i \in 1..k |-> LET p == r.datastart + i - 1 IN
                    r.bufdata[IF p < r.buflen THEN p ELSE p - r.buflen]]

Drop_NotModulo(r, k) ==
    [r EXCEPT !.datalen = @ - k,
              !.datastart = IF k = r.datalen THEN 0 ELSE Min(@ + k, r.buflen - 1)]
Drop(r, k) ==
    [r EXCEPT !.datalen = @ - k,
              !.datastart = IF k = r.datalen THEN 0 ELSE (@ + k) % r.buflen]

\* Room for n more bytes, as far as WriteBufferSize allows.  The part that was
\* wrapped moves behind the old end, and what does not fit there to the front.
Desired(r, n) == Min(WriteBufferSize, r.datalen + n)

Grown_LeavesRest(r, n) ==
    LET newlen == Min(WriteBufferSize, 2 * Desired(r, n))
        wrap   == Max(0, r.datastart + r.datalen - r.buflen)
        copied == Min(wrap, newlen - r.buflen)
    IN IF r.buflen >= Desired(r, n) THEN r
       ELSE [r EXCEPT !.buflen = newlen,
                      !.bufdata = [p \in 0..(newlen - 1) |->
                          IF p < r.buflen THEN r.bufdata[p]
                          ELSE IF p < r.buflen + copied THEN r.bufdata[p - r.buflen]
                          ELSE Garbage]]
Grown(r, n) ==
    LET newlen == Min(WriteBufferSize, 2 * Desired(r, n))
        wrap   == Max(0, r.datastart + r.datalen - r.buflen)
        copied == Min(wrap, newlen - r.buflen)
    IN IF r.buflen >= Desired(r, n) THEN r
       ELSE [r EXCEPT !.buflen = newlen,
                      !.bufdata = [p \in 0..(newlen - 1) |->
                          IF p < wrap - copied THEN r.bufdata[p + copied]
                          ELSE IF p < r.buflen THEN r.bufdata[p]
                          ELSE IF p < r.buflen + copied THEN r.bufdata[p - r.buflen]
                          ELSE Garbage]]

\* The bytes are copied behind the data, those past the end to the front.
Put(r, bytes) ==
    LET start == (r.datastart + r.datalen) % r.buflen
        first == Min(Len(bytes), r.buflen - start)
    IN [r EXCEPT !.datalen = @ + Len(bytes),
                 !.bufdata = [p \in 0..(r.buflen - 1) |->
                     IF start <= p /\ p < start + first THEN bytes[p - start + 1]
                     ELSE IF p < Len(bytes) - first THEN bytes[first + p + 1]
                     ELSE r.bufdata[p]]]

-----------------------------------------------------------------------------
(* The calls.                                                              *)

\* How many of n bytes do not fit, after growing.
Over_ByOne(r, n) == Max(0, r.datalen + n - r.buflen - 1)
Over(r, n) == Max(0, r.datalen + n - r.buflen)

\* What is left of a write once the socket would not take more without
\* blocking.  What does not fit is written with blocking sends, oldest first,
\* and then whatever else the socket takes.
Buffered(r, bytes, sent) ==
    LET n          == Len(bytes)
        over       == Over(r, n)
        fromBuffer == Min(r.datalen, over)
        rest       == SubSeq(bytes, over - fromBuffer + 1, n)
        blocking   == FirstBytes(r, fromBuffer) \o SubSeq(bytes, 1, over - fromBuffer)
        full       == Put(Drop(r, fromBuffer), rest)
    IN IF over = 0
         THEN /\ ring' = full
              /\ got' = got \o sent
              /\ armed' = (armed \/ r.datalen = 0)
         ELSE \E k \in 0..full.datalen :
                /\ ring' = Drop(full, k)
                /\ got' = got \o sent \o blocking \o FirstBytes(full, k)
                /\ armed' = (k < full.datalen)

\* UTIL_sock_buffered_write, called by FWD_received_data.
SockBufferedWrite ==
    \E n \in 1..MaxWrite :
        /\ ~failed /\ written + n <= MaxBytes
        /\ written' = written + n
        /\ UNCHANGED failed
        /\ \E k \in 0..(IF ring.datalen = 0 THEN n ELSE 0) :
             IF k = n
               THEN /\ got' = got \o New(n) /\ armed' = FALSE
                    /\ UNCHANGED ring
               ELSE Buffered(Grown(ring, n - k), SubSeq(New(n), k + 1, n), SubSeq(New(n), 1, k))

\* UTIL_sock_write_more, called on FD_WRITE.
SockWriteMore ==
    /\ ~failed /\ armed
    /\ \E k \in 0..ring.datalen :
         /\ got' = got \o FirstBytes(ring, k)
         /\ ring' = Drop(ring, k)
         /\ armed' = (k < ring.datalen)
    /\ UNCHANGED <<written, failed>>

\* A send in one of the two fails, after some of the bytes before it went out;
\* the socket is closed.
SendFails ==
    /\ ~failed /\ failed' = TRUE
    /\ \E n \in 0..MaxWrite :
         /\ written + n <= MaxBytes /\ written' = written + n
         /\ \E k \in 0..(ring.datalen + n) :
              got' = got \o SubSeq(FirstBytes(ring, ring.datalen) \o New(n), 1, k)
    /\ UNCHANGED <<ring, armed>>

Next == SockBufferedWrite \/ SockWriteMore \/ SendFails

Spec == Init /\ [][Next]_vars

-----------------------------------------------------------------------------
(* Properties.                                                             *)

Byte == Nat \cup {Garbage}

RingOf(memory) == [bufdata : memory, buflen : Nat, datastart : Nat, datalen : Nat]

RingOK(r) ==
    /\ r \in RingOf([0..(r.buflen - 1) -> Byte])
    /\ r.buflen <= WriteBufferSize /\ r.datalen <= r.buflen
    /\ r.datastart <= Max(0, r.buflen - 1)

\* The ring stays inside its memory, and its memory inside the setting.
TypeOK ==
    /\ RingOK(ring)
    /\ written \in Nat /\ got \in Seq(Nat)
    /\ armed \in BOOLEAN /\ failed \in BOOLEAN

Contents == FirstBytes(ring, ring.datalen)

\* The socket gets the bytes in the order they were handed over, none is lost
\* or sent twice, wherever the buffer is wrapped, grown or flushed.
InOrder ==
    /\ \A i \in 1..Len(got) : got[i] = i - 1
    /\ ~failed => /\ written = Len(got) + ring.datalen
                  /\ \A i \in 1..ring.datalen : Contents[i] = Len(got) + i - 1

\* To fwd.c it is the queue that WriteQueue describes.
Queue == INSTANCE WriteQueue WITH queue <- Contents
ImplementsQueue == Queue!Spec
=============================================================================
