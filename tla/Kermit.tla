------------------------------- MODULE Kermit -------------------------------
(***************************************************************************)
(* Kermit (ttpfile/kermit.c): KmtReadPacket of an end that sends a batch    *)
(* and of one that receives it, and KmtTimeOutProc of both.                 *)
(*                                                                         *)
(* Every packet but an ACK and a NAK is answered by one of them.  A NAK of  *)
(* the next packet stands for an ACK of the last one.  Each end has one     *)
(* packet to repeat, PktOut, and whatever it sends goes through it.         *)
(*                                                                         *)
(* Get and Finish, which need a server at the other end, long packets and   *)
(* the quoting of the data are left out: one packet carries one block.      *)
(***************************************************************************)
EXTENDS Integers, Sequences, SequencesExt

CONSTANTS
    Files,           \* for each file of the batch its number of blocks
    SeqNums,          \* sequence numbers are modulo this (64)
    HeaderDamage,    \* a damaged packet may have lost its number or its type too
    MaxFaults        \* bound: packets the line spoils

VARIABLES
    snd,             \* TKmtVar and TFileVarProto of the sender
    rcv,             \* of the receiver
    toReceiver, toSender,  \* packets on the line, oldest first
    faults,          \* how many the line spoiled
    early,           \* one of them while a file's attributes were sent
    cancelled        \* a user cancelled an end, or a file could not be opened

vars == <<snd, rcv, toReceiver, toSender, faults, early, cancelled>>

-----------------------------------------------------------------------------
UpTo(f) == FoldLeft(LAMBDA n, k : n + k, 0, SubSeq(Files, 1, f))
Blocks == UpTo(Len(Files))

\* KmtMakePacket.
Packet(e, type, data) == [type |-> type, seq |-> e.PktNum - e.off, data |-> data, ok |-> TRUE]
Nack(seq) == [type |-> "N", seq |-> seq, data |-> 0, ok |-> TRUE]

\* KmtCalcPktNum: the number nearest to the last one.
KmtCalcPktNum(e, seq) ==
    LET n == seq + e.off IN
    CASE n > e.PktNum + SeqNums \div 2 - 1 -> n - SeqNums
      [] n < e.PktNum - SeqNums \div 2     -> n + SeqNums
      [] OTHER                            -> n

\* KmtIncPacketNum.
Inc(e) ==
    [e EXCEPT !.PktNum = @ + 1, !.off = IF e.PktNum + 1 >= @ + SeqNums THEN @ + SeqNums ELSE @]

\* KmtInit: the sender sends 'S', the receiver waits with its timer running.
SenderInit ==
    [end |-> "busy", st |-> "SendInit", PktNum |-> 0, off |-> 0, file |-> 0, read |-> 0,
     attr |-> FALSE, PktOut |-> [type |-> "S", seq |-> 0, data |-> 0, ok |-> TRUE]]
ReceiverInit(attr) ==
    [end |-> "busy", st |-> "ReceiveInit", PktNum |-> 0, off |-> 0, NextSeq |-> 0, file |-> 0,
     attr |-> attr, got |-> 0]

Init ==
    /\ snd = SenderInit /\ \E attr \in BOOLEAN : rcv = ReceiverInit(attr)
    /\ toReceiver = <<SenderInit.PktOut>> /\ toSender = <<>>
    /\ faults = 0 /\ early = FALSE /\ cancelled = FALSE

-----------------------------------------------------------------------------
(* The sender.                                                             *)

\* What it sends next; the packet of a state is repeated as PktOut.
Send(s, st, type, data) ==
    LET t == Inc(s) IN [t EXCEPT !.st = st, !.PktOut = Packet(t, type, data), !.go = TRUE]
Repeat(s) == [s EXCEPT !.go = TRUE]

\* KmtSendNextFile, KmtSendEOTPacket.
NextFile(s) ==
    IF s.file = Len(Files) THEN Send(s, "SendEOT", "B", 0)
    ELSE Send([s EXCEPT !.file = @ + 1], "SendFile", "F", s.file + 1)

\* KmtSendNextData, KmtSendEOFPacket.
NextData(s) ==
    IF s.read = UpTo(s.file) THEN Send(s, "SendEOF", "Z", 0)
    ELSE Send([s EXCEPT !.read = @ + 1], "SendData", "D", s.read + 1)

\* An 'N' of the last packet, or of the next.  In SendFileAttr it is ignored.
OnNak(s, n) ==
    CASE n = s.PktNum /\ s.st # "SendFileAttr" -> Repeat(s)
      [] n = s.PktNum + 1 /\ s.st \in {"SendFile", "SendData"} -> NextData(s)
      [] n = s.PktNum + 1 /\ s.st = "SendEOF"  -> NextFile(s)
      [] OTHER -> s

\* A 'Y' of the last packet; in SendData one of the packet before repeats it.
OnAck(s, n, attr) ==
    CASE n = s.PktNum /\ s.st = "SendInit"     -> NextFile([s EXCEPT !.attr = attr])
      [] n = s.PktNum /\ s.st = "SendFile"     -> IF s.attr THEN Send(s, "SendFileAttr", "A", 0) ELSE NextData(s)
      [] n = s.PktNum /\ s.st \in {"SendFileAttr", "SendData"} -> NextData(s)
      [] n + 1 = s.PktNum /\ s.st = "SendData" -> Repeat(s)
      [] n = s.PktNum /\ s.st = "SendEOF"      -> NextFile(s)
      [] n = s.PktNum /\ s.st = "SendEOT"      -> [s EXCEPT !.end = "success"]
      [] OTHER -> s

\* A packet that is not an ACK or a NAK, or looks like none of them, is answered
\* by one, and that answer is in PktOut from then on.
Answer(s, m) ==
    LET t == [s EXCEPT !.PktOut = [Nack(m.seq) EXCEPT !.type = IF m.ok THEN "Y" ELSE "N"], !.go = TRUE] IN
    IF m.ok /\ m.type = "E" THEN [t EXCEPT !.end = "failed"] ELSE t

SenderReadPacket ==
    /\ snd.end = "busy" /\ toSender # <<>>
    /\ toSender' = Tail(toSender)
    /\ LET m == Head(toSender)
           n == KmtCalcPktNum(snd, m.seq)
           idle == [go |-> FALSE] @@ snd
           s == CASE m.type \notin {"Y", "N"} -> Answer(idle, m)
                  [] m.type = "N"             -> OnNak(idle, n)
                  [] m.type = "Y"             -> OnAck(idle, n, m.data = 1)
           kept == [f \in DOMAIN snd |-> s[f]]
       IN \/ /\ snd' = kept
             /\ toReceiver' = IF s.go THEN Append(toReceiver, s.PktOut) ELSE toReceiver
             /\ UNCHANGED cancelled
          \* the next file cannot be opened
          \/ /\ s.file # snd.file /\ ~cancelled /\ cancelled' = TRUE
             /\ snd' = [snd EXCEPT !.end = "failed"] /\ UNCHANGED toReceiver
    /\ UNCHANGED <<rcv, faults, early>>

-----------------------------------------------------------------------------
(* The receiver.                                                           *)

\* KmtSendAck: to 'S' the parameters, and the numbers begin again.
Ack(r, m) == [type |-> "Y", seq |-> m.seq, data |-> IF m.type = "S" /\ r.attr THEN 1 ELSE 0, ok |-> TRUE]

\* The end of KmtReadPacket, for every packet that is whole.
Numbered(r, m) ==
    LET n == KmtCalcPktNum(rcv, m.seq) IN
    [r EXCEPT !.NextSeq = (m.seq + 1) % SeqNums, !.PktNum = n,
              !.off = IF n > @ + SeqNums - 1 THEN @ + SeqNums ELSE @]

IsNew(m) == KmtCalcPktNum(rcv, m.seq) > rcv.PktNum

\* What is written is the next block, or the file is wrong from here on.
Grown(got, data) == IF data = got + 1 THEN data ELSE Blocks + 1

\* 'S' when its answer was lost comes again.
Taken(m) ==
    CASE m.type = "S" -> [rcv EXCEPT !.st = IF @ = "ReceiveInit" THEN "ReceiveFile" ELSE @,
                                     !.off = 0, !.PktNum = 0]
      [] m.type = "F" /\ rcv.st = "ReceiveFile" -> [rcv EXCEPT !.file = m.data, !.st = "ReceiveData"]
      [] m.type = "D" /\ rcv.st = "ReceiveData" /\ IsNew(m) -> [rcv EXCEPT !.got = Grown(@, m.data)]
      [] m.type = "Z" /\ rcv.st = "ReceiveData" -> [rcv EXCEPT !.st = "ReceiveFile"]
      [] OTHER -> rcv

ReceiverReadPacket ==
    /\ rcv.end = "busy" /\ toReceiver # <<>>
    /\ toReceiver' = Tail(toReceiver)
    /\ LET m == Head(toReceiver) IN
         \* a damaged packet is refused by the number it seems to have
         \/ ~m.ok /\ toSender' = Append(toSender, Nack(m.seq)) /\ UNCHANGED <<rcv, cancelled>>
         \/ m.ok /\ m.type = "N" /\ rcv' = Numbered(rcv, m) /\ UNCHANGED <<toSender, cancelled>>
         \/ /\ m.ok /\ m.type # "N"
            /\ toSender' = Append(toSender, Ack(rcv, m))
            /\ \/ /\ m.type = "B" /\ rcv.st = "ReceiveFile"
                  /\ rcv' = [rcv EXCEPT !.end = "success"] /\ UNCHANGED cancelled
               \/ m.type = "E" /\ rcv' = [rcv EXCEPT !.end = "failed"] /\ UNCHANGED cancelled
               \* FTCreateFile fails, after the ACK
               \/ /\ m.type = "F" /\ rcv.st = "ReceiveFile" /\ ~cancelled
                  /\ cancelled' = TRUE /\ rcv' = [rcv EXCEPT !.end = "failed"]
               \/ /\ m.type # "E" /\ ~(m.type = "B" /\ rcv.st = "ReceiveFile")
                  /\ rcv' = Numbered(Taken(m), m) /\ UNCHANGED cancelled
    /\ UNCHANGED <<snd, faults, early>>

-----------------------------------------------------------------------------
(* KmtTimeOutProc and KmtCancel.                                           *)

Quiet == toSender = <<>> /\ toReceiver = <<>>

\* SendFileAttr and ReceiveInit are the same number: with the attributes sent, the
\* sender's timeout sends the receiver's NAK of packet 0.
SenderTimeOut ==
    LET out == IF snd.st = "SendFileAttr" THEN Nack(0) ELSE snd.PktOut IN
    /\ snd.end = "busy"
    /\ snd' = [snd EXCEPT !.PktOut = out]
    /\ toReceiver' = Append(toReceiver, out)

ReceiverTimeOut ==
    /\ rcv.end = "busy"
    /\ toSender' = Append(toSender, Nack(IF rcv.st = "ReceiveInit" THEN 0 ELSE rcv.NextSeq))

\* Both timers are longer than a round trip and of the same length: one of them
\* runs out, or both at once.
SenderTimer ==
    /\ Quiet /\ SenderTimeOut
    /\ ReceiverTimeOut \/ UNCHANGED toSender
    /\ UNCHANGED <<rcv, faults, early, cancelled>>
ReceiverTimer ==
    /\ Quiet /\ ReceiverTimeOut
    /\ UNCHANGED <<snd, rcv, toReceiver, faults, early, cancelled>>

KmtCancel ==
    /\ ~cancelled /\ cancelled' = TRUE
    /\ \/ /\ snd.end = "busy" /\ snd' = [snd EXCEPT !.end = "failed"]
          /\ toReceiver' = Append(toReceiver, Packet(Inc(snd), "E", 0)) /\ UNCHANGED <<rcv, toSender>>
       \/ /\ rcv.end = "busy" /\ rcv' = [rcv EXCEPT !.end = "failed"]
          /\ toSender' = Append(toSender, Packet(Inc(rcv), "E", 0)) /\ UNCHANGED <<snd, toReceiver>>
    /\ UNCHANGED <<faults, early>>

-----------------------------------------------------------------------------
(* The line.                                                               *)

\* What an end that has finished still gets is not for the protocol.
Ignored ==
    /\ \/ rcv.end # "busy" /\ toReceiver # <<>> /\ toReceiver' = Tail(toReceiver) /\ UNCHANGED toSender
       \/ snd.end # "busy" /\ toSender # <<>> /\ toSender' = Tail(toSender) /\ UNCHANGED toReceiver
    /\ UNCHANGED <<snd, rcv, faults, early, cancelled>>

\* A packet is lost (a cut one is given up at the next MARK) or damaged.  An
\* ACK or NAK that is damaged but for its type is dropped, as if lost.
Damaged(m) ==
    {[m EXCEPT !.ok = FALSE, !.seq = q] : q \in IF HeaderDamage THEN 0..(SeqNums - 1) ELSE {m.seq}}

Fault ==
    /\ faults < MaxFaults /\ faults' = faults + 1
    /\ early' = (early \/ snd.st = "SendFileAttr")
    /\ \/ toReceiver # <<>> /\ toReceiver' = Tail(toReceiver) /\ UNCHANGED toSender
       \/ /\ toReceiver # <<>> /\ Head(toReceiver).type # "N"
          /\ \E m \in Damaged(Head(toReceiver)) : toReceiver' = [toReceiver EXCEPT ![1] = m]
          /\ UNCHANGED toSender
       \/ toSender # <<>> /\ toSender' = Tail(toSender) /\ UNCHANGED toReceiver
       \/ /\ HeaderDamage /\ toSender # <<>>
          /\ \E m \in Damaged(Head(toSender)) : toSender' = [toSender EXCEPT ![1] = [m EXCEPT !.type = "?"]]
          /\ UNCHANGED toReceiver
    /\ UNCHANGED <<snd, rcv, cancelled>>

-----------------------------------------------------------------------------
Next ==
    \/ SenderReadPacket \/ ReceiverReadPacket \/ SenderTimer \/ ReceiverTimer
    \/ KmtCancel \/ Ignored \/ Fault

Spec == Init /\ [][Next]_vars
=============================================================================
