------------------------------- MODULE Xmodem -------------------------------
(***************************************************************************)
(* XMODEM (ttpfile/xmodem.c): a sender, XSendPacket, and a receiver,        *)
(* XReadPacket and XSendNAK, on a line that loses and damages what it       *)
(* carries.                                                                 *)
(*                                                                         *)
(* A frame is a packet, EOT or the CANs of a cancel; what the receiver      *)
(* answers is one byte.  A packet carries its number modulo NumMod (256 in  *)
(* the code) and the check it was built with, which is not always the one   *)
(* it is sent with.  128 and 1024 byte packets differ in nothing else and   *)
(* are one here.                                                            *)
(***************************************************************************)
EXTENDS Naturals, Sequences, SequencesExt

CONSTANTS
    Blocks,          \* the length of the file in packets
    NumMod,          \* packet numbers are modulo this
    NakLimit,        \* NAKs the receiver sends for one packet (10)
    CLimit,          \* requests for CRC before it falls back (3)
    MaxFaults        \* bound: frames and answers the line spoils

VARIABLES
    snd,             \* TXVar of the sender
    rcv,             \* TXVar of the receiver
    toReceiver,      \* frames on the line, oldest first
    toSender,        \* ACK, NAK, "C" and CAN bytes on the line
    faults,          \* how much the line spoiled
    early,           \* it spoiled something before the first ACK of a CRC transfer
    cancelled        \* the user cancelled one end

vars == <<snd, rcv, toReceiver, toSender, faults, early, cancelled>>

-----------------------------------------------------------------------------
\* A new packet with the check of the mode the sender is in.
Packet(data, crc) ==
    [kind |-> "PKT", num |-> data % NumMod, data |-> data, built |-> crc, crc |-> crc, ok |-> "good"]
Plain(kind) ==
    [kind |-> kind, num |-> 0, data |-> 0, built |-> FALSE, crc |-> FALSE, ok |-> "good"]

\* XInit: a sender waits for the receiver's first byte.
SenderInit(crc) ==
    [end |-> "busy", FileOpen |-> TRUE, crc |-> crc, PktNum |-> 0, first |-> TRUE,
     PktNumSent |-> 0, read |-> 0, PktOut |-> Plain("NONE")]

\* XInit of the receiver, which begins with XSendNAK.
ReceiverInit(crc) ==
    [end |-> "busy", crc |-> crc, NAKMode |-> IF crc THEN "C" ELSE "NAK",
     NAKCount |-> (IF crc THEN CLimit ELSE NakLimit) - 1,
     PktNum |-> 0, first |-> TRUE, PktReadMode |-> "SOH", got |-> 0]

Init ==
    /\ \E crc \in BOOLEAN : snd = SenderInit(crc)
    /\ \E crc \in BOOLEAN : rcv = ReceiverInit(crc)
    /\ toReceiver = <<>>
    /\ toSender = <<rcv.NAKMode>>
    /\ faults = 0 /\ early = FALSE /\ cancelled = FALSE

-----------------------------------------------------------------------------
(* The sender.                                                             *)

\* XSendPacket looks at every byte that has arrived before it sends anything.
\* s is the sender with the outcome so far: send (SendFlag), c43
\* (is0x43Received).  The mutant of the ACK takes the last packet's for EOT's.
OnAck_AtLast(s) ==
    IF s.read = Blocks THEN [s EXCEPT !.end = "success"]
    ELSE IF s.PktNumSent = (s.PktNum + 1) % NumMod
      THEN [s EXCEPT !.PktNum = s.PktNumSent, !.first = FALSE, !.send = TRUE]
      ELSE s
OnAck(s) ==
    IF ~s.FileOpen THEN [s EXCEPT !.end = "success"]
    ELSE IF s.PktNumSent = (s.PktNum + 1) % NumMod
      THEN [s EXCEPT !.PktNum = s.PktNumSent, !.first = FALSE, !.send = TRUE]
      ELSE s

OnNak(s) ==
    [s EXCEPT !.crc = s.crc /\ ~(s.first /\ ~s.c43), !.send = TRUE]

OnC(s) ==
    IF s.first /\ s.PktNumSent = 0 THEN [s EXCEPT !.crc = TRUE, !.send = TRUE, !.c43 = TRUE] ELSE s

OnByte(s, b) ==
    CASE s.end # "busy" -> s
      [] b = "ACK" -> OnAck(s)
      [] b = "NAK" -> OnNak(s)
      [] b = "C"   -> OnC(s)
      [] b = "CAN" -> [s EXCEPT !.end = "failed"]

\* The next packet of the file, EOT at its end, or the last one once more.  A
\* packet sent again keeps the check it was built with.
NextFrame(s) ==
    IF s.PktNumSent # s.PktNum
      THEN IF s.PktOut.kind = "PKT" THEN [s.PktOut EXCEPT !.crc = s.crc] ELSE s.PktOut
    ELSE IF s.read < Blocks THEN Packet(s.read + 1, s.crc) ELSE Plain("EOT")

Sent(s) ==
    LET f == NextFrame(s)
        isNew == s.PktNumSent = s.PktNum
    IN [s EXCEPT !.PktOut = f,
                 !.PktNumSent = IF isNew THEN (@ + 1) % NumMod ELSE @,
                 !.read = IF isNew /\ f.kind = "PKT" THEN @ + 1 ELSE @,
                 !.FileOpen = @ /\ f.kind # "EOT"]

Lasting(s) == [f \in DOMAIN snd |-> s[f]]

\* k bytes have arrived; those up to j arrive while the packet is made and are
\* thrown away.
XSendPacket ==
    /\ snd.end = "busy"
    /\ \E k \in 1..Len(toSender) :
         LET s == FoldLeft(OnByte, [send |-> FALSE, c43 |-> FALSE] @@ snd, SubSeq(toSender, 1, k)) IN
         IF s.end = "busy" /\ s.send
           THEN \E j \in k..Len(toSender) :
                  /\ snd' = Lasting(Sent(s))
                  /\ toReceiver' = Append(toReceiver, NextFrame(s))
                  /\ toSender' = SubSeq(toSender, j + 1, Len(toSender))
           ELSE /\ snd' = Lasting(s)
                /\ toSender' = SubSeq(toSender, k + 1, Len(toSender))
                /\ UNCHANGED toReceiver
    /\ UNCHANGED <<rcv, faults, early, cancelled>>

-----------------------------------------------------------------------------
(* The receiver.                                                           *)

\* XSendNAK: one try less; from CRC it falls back to the checksum, from the
\* checksum it gives up.  What has arrived is thrown away.  The mutant never
\* counts.
Nakked_KeepsCount(r) ==
    IF r.NAKCount > 0 THEN [r EXCEPT !.PktReadMode = "SOH"]
    ELSE [r EXCEPT !.NAKMode = "NAK", !.crc = FALSE, !.NAKCount = NakLimit - 1, !.PktReadMode = "SOH"]
Nakked(r) ==
    IF r.NAKCount > 0 THEN [r EXCEPT !.NAKCount = @ - 1, !.PktReadMode = "SOH"]
    ELSE IF r.NAKMode = "C"
      THEN [r EXCEPT !.NAKMode = "NAK", !.crc = FALSE, !.NAKCount = NakLimit - 1, !.PktReadMode = "SOH"]
    ELSE [r EXCEPT !.end = "failed"]

SendNAK(was, rest) ==
    LET r == Nakked(was) IN
    /\ rcv' = r
    /\ toSender' = Append(toSender, IF r.end = "busy" THEN r.NAKMode ELSE "CAN")
    /\ \E k \in 0..Len(rest) : toReceiver' = SubSeq(rest, k + 1, Len(rest))

Ahead(m) == (m.num + NumMod - rcv.PktNum) % NumMod

\* XCheckPacket with the check the receiver expects.
XCheckPacket(m) == m.ok = "good" /\ m.built = rcv.crc /\ m.crc = rcv.crc

\* A packet sent with a checksum is one byte short of one with a CRC.
Incomplete(m) == m.ok = "short" \/ (~m.crc /\ rcv.crc)

\* What is written is the next block, or the file is wrong from here on.
Grown(got, data) == IF data = got + 1 THEN data ELSE Blocks + 1

\* A packet already written is only acknowledged.
Written(r, m) ==
    IF Ahead(m) = 0 THEN r
    ELSE [r EXCEPT !.PktNum = m.num, !.first = FALSE, !.got = Grown(@, m.data)]

\* A YMODEM sender's block 0 is asked for again, with a new count of tries.
HeaderBlock(m) == m.num = 0 /\ rcv.first
Restarted == [rcv EXCEPT !.NAKCount = IF rcv.NAKMode = "C" THEN CLimit ELSE NakLimit]

\* A whole packet has been read: it is refused, accepted, or out of step.
GotPacket(m, rest) ==
    IF HeaderBlock(m) \/ ~XCheckPacket(m)
      THEN SendNAK(IF HeaderBlock(m) THEN Restarted ELSE rcv, rest)
      ELSE /\ rcv' = IF Ahead(m) > 1 THEN [rcv EXCEPT !.end = "failed"]
                     ELSE [Written(rcv, m) EXCEPT !.NAKMode = "NAK", !.NAKCount = NakLimit]
           /\ toSender' = Append(toSender, IF Ahead(m) > 1 THEN "CAN" ELSE "ACK")
           /\ toReceiver' = rest

XReadPacket ==
    /\ rcv.end = "busy" /\ toReceiver # <<>>
    /\ LET m == Head(toReceiver)
           rest == Tail(toReceiver)
       IN
         \* in the middle of a packet anything is data: it completes it or not
         \/ rcv.PktReadMode = "DATA" /\ SendNAK(rcv, rest)
         \/ rcv.PktReadMode = "DATA" /\ toReceiver' = rest /\ UNCHANGED <<rcv, toSender>>
         \/ /\ rcv.PktReadMode = "SOH" /\ m.kind = "EOT"
            /\ rcv' = [rcv EXCEPT !.end = "success"]
            /\ toSender' = Append(toSender, "ACK") /\ toReceiver' = rest
         \/ /\ rcv.PktReadMode = "SOH" /\ m.kind = "CAN"
            /\ rcv' = [rcv EXCEPT !.end = "failed"]
            /\ toReceiver' = rest /\ UNCHANGED toSender
         \* without its first byte a packet is thrown away
         \/ /\ rcv.PktReadMode = "SOH" /\ m.kind = "PKT" /\ m.ok = "headless"
            /\ toReceiver' = rest /\ UNCHANGED <<rcv, toSender>>
         \/ /\ rcv.PktReadMode = "SOH" /\ m.kind = "PKT" /\ m.ok # "headless" /\ Incomplete(m)
            /\ rcv' = [rcv EXCEPT !.PktReadMode = "DATA"]
            /\ toReceiver' = rest /\ UNCHANGED toSender
         \/ /\ rcv.PktReadMode = "SOH" /\ m.kind = "PKT" /\ m.ok # "headless" /\ ~Incomplete(m)
            /\ GotPacket(m, rest)
    /\ UNCHANGED <<snd, faults, early, cancelled>>

-----------------------------------------------------------------------------
(* Timers and the user.                                                    *)

Quiet == toSender = <<>> /\ toReceiver = <<>>

\* XTimeOutProc.  The receiver's timers are longer than a round trip, the
\* sender's (60 s) is longer than the receiver's (at most 20 s).
ReceiverTimeOut ==
    /\ rcv.end = "busy" /\ Quiet
    /\ SendNAK(rcv, <<>>)
    /\ UNCHANGED <<snd, faults, early, cancelled>>

SenderTimeOut ==
    /\ snd.end = "busy" /\ Quiet /\ rcv.end # "busy"
    /\ snd' = [snd EXCEPT !.end = "failed"]
    /\ UNCHANGED <<rcv, toReceiver, toSender, faults, early, cancelled>>

\* ProtoDlgCancel, XCancel.
XCancel ==
    /\ ~cancelled /\ cancelled' = TRUE
    /\ \/ /\ snd.end = "busy" /\ snd' = [snd EXCEPT !.end = "failed"]
          /\ toReceiver' = Append(toReceiver, Plain("CAN")) /\ UNCHANGED <<rcv, toSender>>
       \/ /\ rcv.end = "busy" /\ rcv' = [rcv EXCEPT !.end = "failed"]
          /\ toSender' = Append(toSender, "CAN") /\ UNCHANGED <<snd, toReceiver>>
    /\ UNCHANGED <<faults, early>>

-----------------------------------------------------------------------------
(* The line.                                                               *)

\* What an end that has finished still gets is not for the protocol.
Ignored ==
    /\ \/ rcv.end # "busy" /\ toReceiver # <<>> /\ toReceiver' = Tail(toReceiver) /\ UNCHANGED toSender
       \/ snd.end # "busy" /\ toSender # <<>> /\ toSender' = Tail(toSender) /\ UNCHANGED toReceiver
    /\ UNCHANGED <<snd, rcv, faults, early, cancelled>>

Fault ==
    /\ faults < MaxFaults /\ faults' = faults + 1
    /\ early' = (early \/ (snd.first /\ rcv.crc))
    /\ \/ toReceiver # <<>> /\ toReceiver' = Tail(toReceiver) /\ UNCHANGED toSender
       \/ /\ toReceiver # <<>> /\ Head(toReceiver).kind = "PKT"
          /\ \E d \in {"bad", "short", "headless"} : toReceiver' = [toReceiver EXCEPT ![1].ok = d]
          /\ UNCHANGED toSender
       \/ toSender # <<>> /\ toSender' = Tail(toSender) /\ UNCHANGED toReceiver
    /\ UNCHANGED <<snd, rcv, cancelled>>

-----------------------------------------------------------------------------
Timers == ReceiverTimeOut \/ SenderTimeOut

Next == XSendPacket \/ XReadPacket \/ Timers \/ XCancel \/ Ignored \/ Fault

Spec == Init /\ [][Next]_vars
=============================================================================
