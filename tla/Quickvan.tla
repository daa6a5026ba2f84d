------------------------------ MODULE Quickvan ------------------------------
(***************************************************************************)
(* Quick-VAN (ttpfile/quickvan.c): QVSendPacket of an end that sends a      *)
(* batch and QVReadPacket of one that receives it.                          *)
(*                                                                         *)
(* The blocks of a file are sent within a window.  The receiver confirms    *)
(* every AValue-th of them with 'A', asks for one with 'N', and answers the *)
(* VENQ that follows the last one with 'T'; only then the next VFILE, or    *)
(* the EOT that ends the batch, is sent.  Blocks carry eight bits of their  *)
(* number, answers seven.                                                   *)
(*                                                                         *)
(* Payload that looks like the start of a frame is left out, and so is an   *)
(* output buffer that takes only a part of a packet.                        *)
(***************************************************************************)
EXTENDS Integers, Sequences, SequencesExt

CONSTANTS
    Files,           \* for each file of the batch its number of blocks
    WinSizes,        \* the window the ends agree on, one of these (ts->QVWinSize)
    NumMod,          \* LOBYTE: numbers of blocks are modulo this, those of answers modulo half of it
    NakByte,         \* the letter 'N' as a block number
    Retries,         \* RetryCount (10)
    Patience,        \* timeouts of the receiver in one of the sender (60 s / 20 s)
    MaxFaults        \* bound: what the line spoils

VARIABLES
    snd,             \* TQVVar and TFileVarProto of the sender
    rcv,             \* of the receiver
    toReceiver, toSender,  \* frames and answers on the line, oldest first
    faults,          \* how much the line spoiled
    early,           \* the sender cancelled because a 'T' came while it repeats blocks
    cancelled        \* a user cancelled an end, or a file could not be opened

vars == <<snd, rcv, toReceiver, toSender, faults, early, cancelled>>

-----------------------------------------------------------------------------
UpTo(f) == FoldLeft(LAMBDA n, k : n + k, 0, SubSeq(Files, 1, f))
Blocks == UpTo(Len(Files))

Lo(n) == n % NumMod
Seven(n) == n % (NumMod \div 2)

Frame(type, num, data) == [type |-> type, num |-> num, data |-> data, ok |-> TRUE]
Answer(type, num) == Frame(type, Seven(num), 0)
Byte(type) == Frame(type, 0, 0)

\* How long an answer is: STX, type, number, data, sum, CR.
Bytes(m) ==
    CASE m.type \in {"A", "N", "P"} -> 5
      [] m.type = "T" -> 6
      [] m.type = "R" -> 11
      [] OTHER -> 1

\* QVInit.
SenderInit(w) ==
    [end |-> "busy", st |-> "Init1", WinSize |-> w, file |-> 0, SeqNum |-> 0, SeqSent |-> 0,
     WinEnd |-> 0, EnqFlag |-> FALSE, RetryCount |-> 0, CanFlag |-> FALSE, timer |-> TRUE, waits |-> 0]
ReceiverInit(w) ==
    [end |-> "busy", st |-> "Init1", WinSize |-> w, SeqNum |-> 0, RetryCount |-> Retries,
     CanFlag |-> FALSE, PktOut |-> Byte("NONE"), pending |-> FALSE, file |-> 0, got |-> 0]

Init ==
    /\ \E w \in WinSizes : snd = SenderInit(w) /\ rcv = ReceiverInit(w)
    /\ toReceiver = <<>> /\ toSender = <<Byte("NAK")>>
    /\ faults = 0 /\ early = FALSE /\ cancelled = FALSE

-----------------------------------------------------------------------------
(* The sender.  s.out is what it writes in the step.                       *)

Sending(s) == s.st \in {"Data", "DataRetry"}
FileEnd(s) == Files[s.file]

\* QVCancel and QVCountRetry; `again` is the state after what is done while retries are left.
SenderCancel(s) ==
    IF s.st = "Cancel" THEN s
    ELSE [s EXCEPT !.st = "Cancel", !.timer = TRUE, !.out = Append(@, Byte("CAN"))]

SenderRetry(s, again) ==
    LET left == s.RetryCount - 1
    IN [(IF left <= 0 THEN SenderCancel(s) ELSE again) EXCEPT !.RetryCount = left]

Put(s, m) == [s EXCEPT !.out = Append(@, m), !.timer = TRUE]

SendSINIT(s) == [Put(s, Frame("SINIT", 0, 0)) EXCEPT !.st = "Init2"]

SendEOT(s) ==
    IF s.st = "End" THEN SenderRetry(s, Put(s, Byte("EOT")))
    ELSE [Put(s, Byte("EOT")) EXCEPT !.st = "End", !.RetryCount = Retries]

\* QVResendPacket of a sender.
ResendVFILE(s) == Put(s, Frame("VFILE", 0, s.file))

SendVFILE(s) ==
    IF s.file = Len(Files) THEN SendEOT(s)
    ELSE ResendVFILE([s EXCEPT !.file = @ + 1, !.st = IF s.file = 0 THEN "Init3" ELSE "Next"])

\* The window opens at block n.
Window(s, n) ==
    [s EXCEPT !.SeqNum = n,
              !.WinEnd = IF n + s.WinSize > FileEnd(s) THEN FileEnd(s) ELSE n + s.WinSize,
              !.timer = FALSE]
Back(s, n) == [Window(s, n) EXCEPT !.SeqSent = n, !.EnqFlag = FALSE]

\* QVCheckWindow7.
Match(s, last, num) == {w \in (s.SeqNum + 1)..last : Seven(w) = num}

ParseVACK(s, num) ==
    LET w == Match(s, s.SeqSent, num) IN
    CASE w = {} -> s
      [] w # {} /\ s.st = "Data" -> Window(s, Min(w))
      [] w # {} /\ s.st # "Data" -> [Window(s, Min(w)) EXCEPT !.st = "Data", !.RetryCount = Retries]

\* A repeated VNAK is recognised by its type, where its number is meant.
ParseVNAK(s, num) ==
    LET w == Match(s, s.SeqSent + 1, num) IN
    CASE s.st = "DataRetry" /\ Lo(s.SeqNum + 1) = NakByte
           -> SenderRetry([s EXCEPT !.timer = FALSE], Back(s, s.SeqNum))
      [] ~(s.st = "DataRetry" /\ Lo(s.SeqNum + 1) = NakByte) /\ w # {}
           -> [Back(s, Min(w) - 1) EXCEPT !.st = "DataRetry", !.RetryCount = Retries]
      [] OTHER -> s

ParseVSTAT(s) ==
    IF s.EnqFlag THEN SendVFILE([s EXCEPT !.EnqFlag = FALSE, !.RetryCount = Retries])
    ELSE SenderCancel(s)

\* 'P' starts the data, and starts it again as long as nothing is confirmed.
ParseVRPOS(s) ==
    CASE s.st \in {"Init3", "Next"}         -> [Back(s, 0) EXCEPT !.st = "Data"]
      [] s.st = "Data" /\ s.SeqNum = 0      -> [Back(s, 0) EXCEPT !.st = "DataRetry", !.RetryCount = Retries]
      [] s.st = "DataRetry" /\ s.SeqNum = 0 -> SenderRetry(s, Back(s, 0))
      [] OTHER -> s

Packet(s, m) ==
    CASE m.type = "R" /\ s.st = "Init2"   -> SendVFILE([s EXCEPT !.RetryCount = Retries])
      [] m.type = "R" /\ s.st = "Init3"   -> SenderRetry(s, ResendVFILE(s))
      [] m.type = "T" /\ s.st = "Next"    -> SenderRetry(s, ResendVFILE(s))
      [] m.type = "P"                     -> ParseVRPOS(s)
      [] m.type = "A" /\ Sending(s)       -> ParseVACK(s, m.num)
      [] m.type = "N" /\ Sending(s)       -> ParseVNAK(s, m.num)
      [] m.type = "T" /\ Sending(s)       -> ParseVSTAT(s)
      [] OTHER -> s

\* After the EOT every byte that is not an ACK has it sent again.
OnAnswer(s, m) ==
    CASE s.st = "End" /\ m.type = "ACK" /\ m.ok -> [s EXCEPT !.end = "success"]
      [] s.st = "End" /\ ~(m.type = "ACK" /\ m.ok)
           -> FoldLeft(LAMBDA t, i : IF t.st = "End" THEN SendEOT(t) ELSE t, s, [i \in 1..Bytes(m) |-> i])
      [] s.st # "End" /\ m.ok /\ m.type = "NAK"
           -> CASE s.st = "Init1" -> SendSINIT([s EXCEPT !.RetryCount = Retries])
                [] s.st = "Init2" -> SenderRetry(s, SendSINIT(s))
                [] OTHER -> s
      [] s.st # "End" /\ m.ok /\ m.type # "NAK" -> Packet(s, m)
      [] s.st # "End" /\ ~m.ok -> s

\* QVSendVDATA, when nothing else is to be sent.
SendVDATA(s) ==
    CASE s.out = <<>> /\ Sending(s) /\ s.SeqSent < s.WinEnd /\ ~s.EnqFlag
           -> [s EXCEPT !.SeqSent = @ + 1, !.timer = @ \/ s.SeqSent + 1 = s.WinEnd,
                        !.out = <<Frame("VDAT", Lo(s.SeqSent + 1), UpTo(s.file - 1) + s.SeqSent + 1)>>]
      [] s.out = <<>> /\ Sending(s) /\ s.SeqSent = FileEnd(s) /\ ~s.EnqFlag
           -> [Put(s, Frame("VENQ", Lo(FileEnd(s)), 0)) EXCEPT !.EnqFlag = TRUE]
      [] OTHER -> s

Out(s) == [out |-> <<>>] @@ s
Lasting(e, r) == [f \in DOMAIN e |-> r[f]]

\* One call: what has arrived, if anything, and then the next packet.
Writes(step) ==
    \E s \in {step} : /\ snd' = [Lasting(snd, s) EXCEPT !.waits = 0]
                      /\ toReceiver' = toReceiver \o s.out

SenderReads ==
    /\ toSender # <<>> /\ toSender' = Tail(toSender)
    /\ LET m == Head(toSender) IN
       \E s \in {OnAnswer(Out([snd EXCEPT !.CanFlag = (m.type = "CAN" /\ m.ok)]), m)} :
          \/ Writes(SendVDATA(s)) /\ UNCHANGED cancelled
          \* QVSendVFILE finds no size, or cannot open the file
          \/ /\ s.file # snd.file /\ ~cancelled /\ cancelled' = TRUE
             /\ Writes(SenderCancel([s EXCEPT !.file = snd.file, !.st = snd.st, !.out = <<>>]))
    /\ early' = (early \/ (Head(toSender).type = "T" /\ Sending(snd) /\ ~snd.EnqFlag))

\* Nothing has arrived: a CAN before it is meant.
SenderIdle ==
    /\ \/ /\ snd.CanFlag
          /\ Writes([Out(snd) EXCEPT !.end = "failed", !.out = IF Sending(snd) THEN <<Byte("EOT")>> ELSE <<>>])
       \/ /\ ~snd.CanFlag /\ SendVDATA(Out(snd)).out # <<>>
          /\ Writes(SendVDATA(Out(snd)))
    /\ UNCHANGED <<toSender, early, cancelled>>

QVSendPacket ==
    /\ snd.end = "busy"
    /\ SenderReads \/ SenderIdle
    /\ UNCHANGED <<rcv, faults>>

-----------------------------------------------------------------------------
(* The receiver.  r.byte is what it writes at once; PktOut is written when  *)
(* QVReadPacket is called next.                                            *)

Receiving(r) == r.st \in {"Data", "DataRetry"}
AValue(r) == IF r.WinSize < 2 THEN 1 ELSE r.WinSize \div 2

SetResPacket(r, m) == [r EXCEPT !.PktOut = m, !.pending = TRUE]
Resend(r) == [r EXCEPT !.pending = TRUE]

ReceiverCancel(r) ==
    IF r.st \in {"EOT", "Cancel"} THEN r
    ELSE [r EXCEPT !.st = IF Receiving(r) THEN "EOT" ELSE "Cancel",
                   !.pending = FALSE, !.byte = <<Byte("CAN")>>]

ReceiverRetry(r, again) ==
    LET left == r.RetryCount - 1
    IN [(IF left <= 0 THEN ReceiverCancel(r) ELSE again) EXCEPT !.RetryCount = left]

SendNAK(r) == [r EXCEPT !.byte = <<Byte("NAK")>>]

SendVACK(r, num) ==
    LET t == [r EXCEPT !.st = "Data", !.RetryCount = Retries]
    IN IF r.SeqNum % AValue(r) = 0 THEN SetResPacket(t, Answer("A", num)) ELSE t

SendVNAK(r) ==
    LET t == SetResPacket(r, Answer("N", r.SeqNum + 1))
    IN IF r.st = "Data" THEN [t EXCEPT !.st = "DataRetry", !.RetryCount = Retries] ELSE t

SendVSTAT(r) == [SetResPacket(r, Answer("T", r.SeqNum)) EXCEPT !.st = "Next", !.RetryCount = Retries]

IsNext(r, m) == m.num = Lo(r.SeqNum + 1)

\* The numbers that QVReadPacket accepts: QVCheckWindow8, or the next one only.
InWindow(r, m) ==
    CASE r.st = "DataRetry" \/ r.SeqNum = 0 -> IsNext(r, m)
      [] r.st = "Data" /\ r.SeqNum > 0
           -> \E i \in (IF r.SeqNum + 1 < r.WinSize THEN 0 ELSE r.SeqNum + 1 - r.WinSize)..(r.SeqNum + 1) :
                 Lo(i) = m.num

\* What is written is the next block, or the file is wrong from here on.
Written(got, data) == IF data = got + 1 THEN data ELSE Blocks + 1

OnVDAT(r, m) ==
    CASE ~IsNext(r, m) -> SendVACK(r, m.num)
      [] IsNext(r, m) /\ m.ok
           -> [SendVACK(r, m.num) EXCEPT !.SeqNum = @ + 1, !.got = Written(@, m.data)]
      [] IsNext(r, m) /\ ~m.ok -> SendVNAK(r)

OnVENQ(r, m) ==
    CASE m.num = Lo(r.SeqNum) -> SendVSTAT(r)
      [] m.num # Lo(r.SeqNum) /\ r.st = "Data" -> SendVNAK(r)
      [] m.num # Lo(r.SeqNum) /\ r.st = "DataRetry"
           -> LET t == [r EXCEPT !.RetryCount = @ - 1]
              IN IF t.RetryCount < 0 THEN ReceiverCancel(t) ELSE SendVNAK(t)

BadFunction(r, m) ==
    CASE m.type = "SINIT" /\ r.st = "Init1"            -> ReceiverRetry(r, SendNAK(r))
      [] m.type = "VFILE" /\ r.st \in {"Init2", "Next"} -> ReceiverRetry(r, Resend(r))
      [] m.type = "VENQ" /\ r.st = "Data"              -> SendVNAK(r)
      [] m.type = "VENQ" /\ r.st = "DataRetry"         -> ReceiverRetry(r, SendVNAK(r))
      [] OTHER -> r

Function(r, m) ==
    CASE m.type = "SINIT" /\ r.st = "Init1"
           -> [SetResPacket(r, Answer("R", 0)) EXCEPT !.st = "Init2", !.RetryCount = Retries]
      [] m.type = "VFILE" /\ r.st \in {"Init2", "Next"}
           -> [SetResPacket(r, Answer("P", 0)) EXCEPT !.st = "Data", !.SeqNum = 0, !.RetryCount = Retries,
                                                      !.file = m.data]
      [] m.type = "VENQ" /\ Receiving(r) -> OnVENQ(r, m)
      [] OTHER -> r

OnFrame(r, m) ==
    CASE m.type = "VDAT" /\ Receiving(r) /\ InWindow(r, m) -> OnVDAT(r, m)
      \* refused by its header: the call goes on with what follows
      [] m.type = "VDAT" /\ r.st = "Data" /\ ~InWindow(r, m) -> SendVNAK(r)
      [] m.type = "EOT" /\ r.st \in {"Init2", "Next"}
           -> [r EXCEPT !.end = "success", !.byte = <<Byte("ACK")>>]
      [] m.type = "EOT" /\ r.st = "EOT"  -> [r EXCEPT !.end = "failed"]
      [] m.type = "CAN"                  -> [r EXCEPT !.CanFlag = TRUE]
      [] m.type \in {"SINIT", "VFILE", "VENQ"} -> IF m.ok THEN Function(r, m) ELSE BadFunction(r, m)
      [] OTHER -> r

\* PktOut as it is before the step, when the call begins with it.
Before(first) == IF first THEN <<rcv.PktOut>> ELSE <<>>

\* While the call goes on its PktOut may still be replaced.
GoesOn(r, m) == m.type = "VDAT" /\ rcv.st = "Data" /\ ~InWindow(rcv, m)

Replies(step, first, goesOn) ==
    \E r \in {step} :
       /\ rcv' = [Lasting(rcv, r) EXCEPT !.pending = @ /\ goesOn]
       /\ toSender' = toSender \o Before(first) \o r.byte
                               \o (IF r.pending /\ ~goesOn THEN <<r.PktOut>> ELSE <<>>)

ReceiverReads ==
    \E first \in IF rcv.pending THEN BOOLEAN ELSE {FALSE} :
       LET m == Head(toReceiver)
           r == [byte |-> <<>>] @@ [rcv EXCEPT !.CanFlag = FALSE, !.pending = @ /\ ~first]
       IN \/ /\ toReceiver # <<>> /\ toReceiver' = Tail(toReceiver)
             /\ Replies(OnFrame(r, m), first, GoesOn(r, m)) /\ UNCHANGED cancelled
          \* an EOT is seen as the last byte of a call only
          \/ /\ Len(toReceiver) > 1 /\ m.type = "EOT" /\ toReceiver[2].type = "CAN"
             /\ toReceiver' = SubSeq(toReceiver, 3, Len(toReceiver))
             /\ Replies(OnFrame(r, toReceiver[2]), first, FALSE) /\ UNCHANGED cancelled
          \* FTCreateFile fails
          \/ /\ toReceiver # <<>> /\ toReceiver' = Tail(toReceiver)
             /\ m.type = "VFILE" /\ m.ok /\ r.st \in {"Init2", "Next"} /\ ~cancelled
             /\ cancelled' = TRUE /\ Replies(ReceiverCancel(r), first, FALSE)

\* A call that finds nothing to read.
ReceiverWrites == rcv.pending /\ Replies([byte |-> <<>>] @@ rcv, FALSE, FALSE) /\ UNCHANGED <<toReceiver, cancelled>>

QVReadPacket ==
    /\ rcv.end = "busy"
    /\ ReceiverReads \/ ReceiverWrites
    /\ UNCHANGED <<snd, faults, early>>

-----------------------------------------------------------------------------
(* Timers and the user.  A timer is longer than a round trip.              *)

Quiet ==
    /\ toSender = <<>> /\ toReceiver = <<>> /\ ~rcv.pending
    /\ snd.end = "busy" => ~snd.CanFlag /\ SendVDATA(Out(snd)).out = <<>>

\* QVTimeOutProc of a receiver.
TimedOut(r) ==
    CASE r.st \in {"Cancel", "EOT"} \/ r.CanFlag -> [r EXCEPT !.end = "failed"]
      [] ~r.CanFlag /\ r.st = "Init1"            -> ReceiverRetry(r, SendNAK(r))
      [] ~r.CanFlag /\ r.st \in {"Init2", "Next"} -> ReceiverRetry(r, Resend(r))
      [] ~r.CanFlag /\ r.st = "DataRetry"
           -> ReceiverRetry(r, IF r.SeqNum = 0 THEN Resend(r) ELSE SendVNAK(r))
      [] ~r.CanFlag /\ r.st = "Data" -> IF r.SeqNum = 0 THEN Resend(r) ELSE SendVNAK(r)

ReceiverFirst == rcv.end = "busy" /\ (snd.end = "busy" /\ snd.timer => snd.waits < Patience)

ReceiverTimeOut ==
    /\ Quiet /\ ReceiverFirst
    /\ Replies(TimedOut([byte |-> <<>>] @@ rcv), FALSE, FALSE)
    /\ snd' = [snd EXCEPT !.waits = IF @ < Patience THEN @ + 1 ELSE @]
    /\ UNCHANGED <<toReceiver, faults, early, cancelled>>

SenderTimeOut ==
    /\ Quiet /\ ~ReceiverFirst /\ snd.end = "busy" /\ snd.timer
    /\ IF snd.st = "Cancel" THEN Writes([Out(snd) EXCEPT !.end = "failed"])
       ELSE Writes(SenderCancel(Out(snd)))
    /\ UNCHANGED <<rcv, toSender, faults, early, cancelled>>

Timers == ReceiverTimeOut \/ SenderTimeOut

\* ProtoDlgCancel: QVCancel, and the end is over.
QVCancel ==
    /\ ~cancelled /\ cancelled' = TRUE
    /\ \/ /\ snd.end = "busy" /\ Writes([SenderCancel(Out(snd)) EXCEPT !.end = "failed"])
          /\ UNCHANGED <<rcv, toSender>>
       \/ /\ rcv.end = "busy"
          /\ Replies([ReceiverCancel([byte |-> <<>>] @@ rcv) EXCEPT !.end = "failed", !.pending = FALSE],
                     FALSE, FALSE)
          /\ UNCHANGED <<snd, toReceiver>>
    /\ UNCHANGED <<faults, early>>

-----------------------------------------------------------------------------
(* The line.                                                               *)

Ignored ==
    /\ \/ rcv.end # "busy" /\ toReceiver # <<>> /\ toReceiver' = Tail(toReceiver) /\ UNCHANGED toSender
       \/ snd.end # "busy" /\ toSender # <<>> /\ toSender' = Tail(toSender) /\ UNCHANGED toReceiver
    /\ UNCHANGED <<snd, rcv, faults, early, cancelled>>

\* A frame or an answer is lost or damaged.  A block whose header is damaged is as lost.
Fault ==
    /\ faults < MaxFaults /\ faults' = faults + 1
    /\ \/ toReceiver # <<>> /\ toReceiver' = Tail(toReceiver) /\ UNCHANGED toSender
       \/ /\ toReceiver # <<>> /\ Head(toReceiver).type \in {"SINIT", "VFILE", "VDAT", "VENQ"}
          /\ toReceiver' = [toReceiver EXCEPT ![1].ok = FALSE] /\ UNCHANGED toSender
       \/ toSender # <<>> /\ toSender' = Tail(toSender) /\ UNCHANGED toReceiver
       \/ toSender # <<>> /\ toSender' = [toSender EXCEPT ![1].ok = FALSE] /\ UNCHANGED toReceiver
    /\ UNCHANGED <<snd, rcv, early, cancelled>>

-----------------------------------------------------------------------------
Next == QVSendPacket \/ QVReadPacket \/ Timers \/ QVCancel \/ Ignored \/ Fault

Spec == Init /\ [][Next]_vars

-----------------------------------------------------------------------------
(* Properties.                                                             *)

\* Both ends are over, or one has lost the CAN of the other where nothing counts:
\* a sender waits for 'T' with its timer off (an 'A' stopped it), a receiver asks for
\* block 1 for ever.
Ended ==
    /\ \/ snd.end # "busy"
       \/ snd.EnqFlag /\ ~snd.timer /\ rcv.end # "busy"
    /\ \/ rcv.end # "busy"
       \/ rcv.st = "Data" /\ rcv.SeqNum = 0 /\ snd.end # "busy"
=============================================================================
