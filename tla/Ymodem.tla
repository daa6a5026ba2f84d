------------------------------- MODULE Ymodem -------------------------------
(***************************************************************************)
(* YMODEM batch transfer (ttpfile/ymodem.c): YSendPacket and YReadPacket on *)
(* a line that loses and damages what it carries.                           *)
(*                                                                         *)
(* Block 0 of a file is its header, an all-zero block 0 ends the batch, and *)
(* the end of a file is an EOT that is refused once before it is accepted.  *)
(* Blocks of data are numbered through the batch, whatever file they are    *)
(* of; a packet carries the number of its block in the file modulo NumMod.  *)
(*                                                                         *)
(* The receiver's count of NAKs is not kept: NAKMode is always 'C', and in  *)
(* that mode the count is refilled when it runs out.  So the receiver never *)
(* gives up by itself.                                                      *)
(***************************************************************************)
EXTENDS Naturals, Sequences, SequencesExt

CONSTANTS
    Files,           \* for each file of the batch its number of blocks
    NumMod,          \* packet numbers are modulo this
    OpenFails,       \* a file of the batch cannot be opened by the sender
    Patience,        \* timeouts of the receiver in one of the sender (60 s / 20 s)
    MaxFaults        \* bound: frames and answers the line spoils

VARIABLES
    snd,             \* TYVar and TFileVarProto of the sender
    rcv,             \* of the receiver
    toReceiver,      \* frames on the line, oldest first
    toSender,        \* ACK, NAK, "C" and CAN bytes on the line
    faults,          \* how much the line spoiled
    early,           \* it spoiled something before block 1 of a file was taken
    cancelled        \* a user cancelled an end, or a file could not be opened

vars == <<snd, rcv, toReceiver, toSender, faults, early, cancelled>>

-----------------------------------------------------------------------------
\* The blocks up to the end of file f.
UpTo(f) == FoldLeft(LAMBDA n, k : n + k, 0, SubSeq(Files, 1, f))
Blocks == UpTo(Len(Files))

Frame(kind, num, data) == [kind |-> kind, num |-> num, data |-> data, ok |-> "good"]

\* initialize_file_info of a sender: file f is open, nothing of it is sent.
NewFile(s, f) ==
    [s EXCEPT !.file = f, !.FileOpen = TRUE, !.PktNum = 0, !.wrapped = FALSE, !.PktNumSent = 0,
              !.SendFileInfo = FALSE, !.SendEot = FALSE, !.LastSendEot = FALSE, !.LastMessage = "NONE"]

\* YInit.
SenderInit ==
    [end |-> "busy", file |-> 1, FileOpen |-> TRUE, PktNum |-> 0, wrapped |-> FALSE,
     PktNumSent |-> 0, SendFileInfo |-> FALSE, SendEot |-> FALSE, LastSendEot |-> FALSE,
     LastMessage |-> "NONE", read |-> 0, PktOut |-> Frame("NONE", 0, 0), waits |-> 0]

\* YInit and initialize_file_info of a receiver.
ReceiverInit ==
    [end |-> "busy", FileOpen |-> FALSE, SendFileInfo |-> FALSE, PktNum |-> 0,
     wrapped |-> FALSE, PktReadMode |-> "SOH", file |-> 0, got |-> 0]

Init ==
    /\ snd = SenderInit /\ rcv = ReceiverInit
    /\ toReceiver = <<>> /\ toSender = <<"C">>
    /\ faults = 0 /\ early = FALSE /\ cancelled = FALSE

-----------------------------------------------------------------------------
(* The sender: YSendPacket, byte by byte.                                  *)

\* Before block 1: PktNum and PktNumOffset are both zero.
AtStart(e) == e.PktNum = 0 /\ ~e.wrapped

Advanced(s) ==
    [s EXCEPT !.PktNum = s.PktNumSent, !.wrapped = @ \/ s.PktNumSent = 0, !.go = TRUE]

\* The file's EOT is confirmed: the next file, or the block that ends the batch.
EotConfirmed(s) ==
    IF s.file = Len(Files) THEN [s EXCEPT !.SendEot = FALSE, !.LastSendEot = TRUE]
    ELSE NewFile(s, s.file + 1)

\* The ACK of a header is followed by a 'C', which starts the data.
OnAck(s) ==
    CASE s.SendEot    -> EotConfirmed(s)
      [] ~s.FileOpen  -> [s EXCEPT !.end = "success"]
      [] s.FileOpen /\ ~s.SendEot /\ s.PktNumSent = (s.PktNum + 1) % NumMod
                      -> IF AtStart(s) THEN [s EXCEPT !.SendFileInfo = TRUE] ELSE Advanced(s)
      [] OTHER        -> s

\* After an EOT a NAK asks for the second one.
OnNak(s) == IF s.SendEot THEN Advanced(s) ELSE [s EXCEPT !.go = TRUE]

\* A 'C' right after a 'C' is ignored, and so is one in the middle of a file.
OnC(s) ==
    CASE AtStart(s) /\ s.LastMessage # "C"
           -> IF s.SendFileInfo THEN Advanced(s) ELSE [s EXCEPT !.go = TRUE]
      [] ~(AtStart(s) /\ s.LastMessage # "C")
           -> [s EXCEPT !.go = s.LastSendEot]

OnByte(s, b) ==
    CASE b = "ACK" -> OnAck(s)
      [] b = "NAK" -> OnNak(s)
      [] b = "C"   -> OnC(s)
      [] b = "CAN" -> [s EXCEPT !.end = "failed"]

\* The packet made when PktNumSent = PktNum: header, data, or EOT at the end of
\* the file.
NewFrame(s) ==
    CASE ~s.SendFileInfo                             -> Frame("HDR", s.PktNumSent, s.file)
      [] s.SendFileInfo /\ s.read < UpTo(s.file)     -> Frame("PKT", s.PktNumSent, s.read + 1)
      [] s.SendFileInfo /\ s.read = UpTo(s.file)     -> Frame("EOT", 0, 0)

\* What is sent: the end of the batch, a new packet, or the last one once more.
Sent(s) ==
    LET f == NewFrame(s) IN
    CASE s.LastSendEot
           -> [s EXCEPT !.LastSendEot = FALSE, !.PktOut = Frame("END", 0, 0)]
      [] ~s.LastSendEot /\ s.PktNumSent = s.PktNum
           -> [s EXCEPT !.PktOut = f, !.PktNumSent = (@ + 1) % NumMod,
                        !.read = IF f.kind = "PKT" THEN @ + 1 ELSE @,
                        !.FileOpen = @ /\ f.kind # "EOT",
                        !.SendEot = @ \/ f.kind = "EOT"]
      [] OTHER -> s

Lasting(s) == [f \in DOMAIN snd |-> s[f]]

\* A next file that cannot be opened looks like the end of the batch.
NextFileMissing(s) == [NewFile(s, s.file + 1) EXCEPT !.FileOpen = FALSE, !.end = "success"]

YSendPacket ==
    /\ snd.end = "busy" /\ toSender # <<>>
    /\ toSender' = Tail(toSender)
    /\ LET b == Head(toSender)
           s == [OnByte([go |-> FALSE] @@ snd, b) EXCEPT !.LastMessage = b]
       IN \/ /\ s.end = "busy" /\ s.go
             /\ snd' = [Lasting(Sent(s)) EXCEPT !.waits = 0]
             /\ toReceiver' = Append(toReceiver, Sent(s).PktOut) /\ UNCHANGED cancelled
          \/ /\ ~(s.end = "busy" /\ s.go)
             /\ snd' = Lasting(s) /\ UNCHANGED <<toReceiver, cancelled>>
          \/ /\ OpenFails /\ ~cancelled /\ s.file # snd.file /\ cancelled' = TRUE
             /\ snd' = NextFileMissing(snd) /\ UNCHANGED toReceiver
    /\ UNCHANGED <<rcv, faults, early>>

-----------------------------------------------------------------------------
(* The receiver: YReadPacket.                                              *)

\* YSendNAK and YSendNAKTimeout: what has arrived of the line is thrown away.
Ask(r, byte, before, rest) ==
    /\ rcv' = [r EXCEPT !.PktReadMode = "SOH"]
    /\ toSender' = toSender \o Append(before, byte)
    /\ \E k \in 0..Len(rest) : toReceiver' = SubSeq(rest, k + 1, Len(rest))

YSendNAK(r, before, rest) == Ask(r, "C", before, rest)

Ahead(m) == (m.num + NumMod - rcv.PktNum) % NumMod

\* The first EOT closes the file and is refused, the next one ends it.
GotEot(rest) ==
    \/ /\ rcv.FileOpen
       /\ rcv' = [rcv EXCEPT !.FileOpen = FALSE]
       /\ toSender' = Append(toSender, "NAK") /\ toReceiver' = rest
    \/ /\ ~rcv.FileOpen
       /\ YSendNAK([ReceiverInit EXCEPT !.file = rcv.file, !.got = rcv.got], <<"ACK">>, rest)

\* What is written is the next block, or the file is wrong from here on.
Grown(got, m) == IF m.kind = "PKT" /\ m.data = got + 1 THEN m.data ELSE Blocks + 1

\* An accepted block: the header of a file opens it, a repetition is only
\* acknowledged, anything else is written.
Taken(r, m) ==
    IF m.num = r.PktNum THEN r
    ELSE [r EXCEPT !.PktNum = m.num, !.wrapped = @ \/ m.num = 0, !.got = Grown(@, m)]

GotPacket(m, rest) ==
    \/ /\ m.ok = "bad" /\ YSendNAK(rcv, <<>>, rest) /\ UNCHANGED cancelled
    \/ /\ m.ok = "good" /\ m.kind = "END" /\ ~rcv.SendFileInfo
       /\ rcv' = [rcv EXCEPT !.end = "success"]
       /\ toSender' = Append(toSender, "ACK") /\ toReceiver' = rest /\ UNCHANGED cancelled
    \/ /\ m.ok = "good" /\ ~(m.kind = "END" /\ ~rcv.SendFileInfo) /\ Ahead(m) > 1
       /\ rcv' = [rcv EXCEPT !.end = "failed"]
       /\ toSender' = Append(toSender, "CAN") /\ toReceiver' = rest /\ UNCHANGED cancelled
    \/ /\ m.ok = "good" /\ Ahead(m) = 0 /\ ~rcv.SendFileInfo /\ m.kind # "END"
       /\ \/ /\ YSendNAK([rcv EXCEPT !.FileOpen = TRUE, !.SendFileInfo = TRUE, !.file = m.data],
                         <<"ACK">>, rest)
             /\ UNCHANGED cancelled
          \* FTCreateFile fails
          \/ /\ ~cancelled /\ cancelled' = TRUE
             /\ rcv' = [rcv EXCEPT !.end = "failed"]
             /\ toSender' = Append(toSender, "ACK") /\ toReceiver' = rest
    \/ /\ m.ok = "good" /\ Ahead(m) \in {0, 1} /\ (rcv.SendFileInfo \/ Ahead(m) = 1)
       /\ rcv' = Taken(rcv, m)
       /\ toSender' = Append(toSender, "ACK") /\ toReceiver' = rest /\ UNCHANGED cancelled

YReadPacket ==
    /\ rcv.end = "busy" /\ toReceiver # <<>>
    /\ LET m == Head(toReceiver)
           rest == Tail(toReceiver)
           packet == m.kind \in {"HDR", "PKT", "END"}
       IN
         \* in the middle of a packet anything is data: it completes it or not
         \/ rcv.PktReadMode = "DATA" /\ YSendNAK(rcv, <<>>, rest) /\ UNCHANGED cancelled
         \/ /\ rcv.PktReadMode = "DATA" /\ toReceiver' = rest
            /\ UNCHANGED <<rcv, toSender, cancelled>>
         \/ rcv.PktReadMode = "SOH" /\ m.kind = "EOT" /\ GotEot(rest) /\ UNCHANGED cancelled
         \* anything else is flushed, CAN as well
         \/ /\ rcv.PktReadMode = "SOH" /\ (m.kind = "CAN" \/ m.ok = "headless")
            /\ \E k \in 0..Len(rest) : toReceiver' = SubSeq(rest, k + 1, Len(rest))
            /\ UNCHANGED <<rcv, toSender, cancelled>>
         \/ /\ rcv.PktReadMode = "SOH" /\ packet /\ m.ok = "short"
            /\ rcv' = [rcv EXCEPT !.PktReadMode = "DATA"]
            /\ toReceiver' = rest /\ UNCHANGED <<toSender, cancelled>>
         \/ rcv.PktReadMode = "SOH" /\ packet /\ m.ok \in {"good", "bad"} /\ GotPacket(m, rest)
    /\ UNCHANGED <<snd, faults, early>>

-----------------------------------------------------------------------------
(* Timers and the user.                                                    *)

Quiet == toSender = <<>> /\ toReceiver = <<>>

\* YTimeOutProc of the receiver: 'C' before block 1, NAK after it.  Its timers
\* are longer than a round trip.
ReceiverFirst == rcv.end = "busy" /\ (snd.end = "busy" => snd.waits < Patience)
ReceiverTimeOut ==
    /\ ReceiverFirst /\ Quiet
    /\ Ask(rcv, IF AtStart(rcv) THEN "C" ELSE "NAK", <<>>, <<>>)
    /\ snd' = [snd EXCEPT !.waits = IF @ < Patience THEN @ + 1 ELSE @]
    /\ UNCHANGED <<faults, early, cancelled>>

\* The sender's timer is set when it sends, and runs Patience times as long.
SenderTimeOut ==
    /\ snd.end = "busy" /\ Quiet /\ ~ReceiverFirst
    /\ snd' = [snd EXCEPT !.end = "failed"]
    /\ UNCHANGED <<rcv, toReceiver, toSender, faults, early, cancelled>>

\* ProtoDlgCancel, YCancel.
YCancel ==
    /\ ~cancelled /\ cancelled' = TRUE
    /\ \/ /\ snd.end = "busy" /\ snd' = [snd EXCEPT !.end = "failed"]
          /\ toReceiver' = Append(toReceiver, Frame("CAN", 0, 0)) /\ UNCHANGED <<rcv, toSender>>
       \/ /\ rcv.end = "busy" /\ rcv' = [rcv EXCEPT !.end = "failed"]
          /\ toSender' = Append(toSender, "CAN") /\ UNCHANGED <<snd, toReceiver>>
    /\ UNCHANGED <<faults, early>>

-----------------------------------------------------------------------------
(* The line.                                                               *)

\* What an end that has finished still gets is not for the protocol.
Ignored ==
    /\ \/ rcv.end # "busy" /\ toReceiver # <<>> /\ toReceiver' = Tail(toReceiver) /\ UNCHANGED toSender
       \/ snd.end # "busy" /\ toSender # <<>> /\ toSender' = Tail(toSender) /\ UNCHANGED toReceiver
    /\ UNCHANGED <<snd, rcv, faults, early, cancelled>>

Fault ==
    /\ faults < MaxFaults /\ faults' = faults + 1
    /\ early' = (early \/ AtStart(rcv))
    /\ \/ toReceiver # <<>> /\ toReceiver' = Tail(toReceiver) /\ UNCHANGED toSender
       \/ /\ toReceiver # <<>> /\ Head(toReceiver).kind \in {"HDR", "PKT", "END"}
          /\ \E d \in {"bad", "short", "headless"} : toReceiver' = [toReceiver EXCEPT ![1].ok = d]
          /\ UNCHANGED toSender
       \/ toSender # <<>> /\ toSender' = Tail(toSender) /\ UNCHANGED toReceiver
    /\ UNCHANGED <<snd, rcv, cancelled>>

-----------------------------------------------------------------------------
Timers == ReceiverTimeOut \/ SenderTimeOut

Next == YSendPacket \/ YReadPacket \/ Timers \/ YCancel \/ Ignored \/ Fault

Spec == Init /\ [][Next]_vars
=============================================================================
