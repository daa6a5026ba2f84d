------------------------------- MODULE Zmodem -------------------------------
(***************************************************************************)
(* ZMODEM batch transfer (ttpfile/zmodem.c), the same ZParse at both ends,  *)
(* on a serial line that damages and loses what it carries.                 *)
(*                                                                         *)
(* On the line are headers and the data subpackets that follow three of     *)
(* them.  A subpacket has no number of its own: where it belongs follows    *)
(* from the header before it.  One subpacket carries one block; Pos counts  *)
(* blocks.  Each end has one packet to send, out: PktOut while Sending.     *)
(* Whatever is sent next overwrites it, even when a part of it has gone.    *)
(*                                                                         *)
(* The sender has no timer, and a cancel of the user fills out but ends     *)
(* the transfer before anything of it is sent.                              *)
(***************************************************************************)
EXTENDS Naturals, Sequences, SequencesExt

CONSTANTS
    Files,           \* for each file of the batch its number of blocks
    WinSize,         \* blocks sent without an answer (ts.ZmodemWinSize)
    Room,            \* headers that fit into PktIn when they are read as data
    MaxFaults        \* bound: what the line spoils and the packets cut short

VARIABLES
    snd,             \* TZVar and TFileVarProto of the sender
    rcv,             \* of the receiver
    toReceiver,      \* headers and subpackets on the line, oldest first
    toSender,        \* headers on the line
    faults,          \* how much was spoiled
    early,           \* some of it outside of the data of a file
    cancelled        \* a user cancelled an end, or a file could not be opened

vars == <<snd, rcv, toReceiver, toSender, faults, early, cancelled>>

-----------------------------------------------------------------------------
UpTo(f) == FoldLeft(LAMBDA n, k : n + k, 0, SubSeq(Files, 1, f))
Blocks == UpTo(Len(Files))

\* ZShHdr, ZSbHdr: a header and the position, or the flag ESCCTL, it carries.
Hdr(type, pos) == [type |-> type, pos |-> pos, term |-> "none", ok |-> TRUE]
\* A subpacket with a file's name or a block, and what is to follow it.
Sub(what, term) == [type |-> "SUB", pos |-> what, term |-> term, ok |-> TRUE]
None == Hdr("none", 0)
\* What is left of a packet whose end did not arrive.
Cut == Hdr("CUT", 0)

SenderInit(esc) ==
    [st |-> "SendInit", Success |-> FALSE, file |-> 0, FileOpen |-> FALSE, CtlEsc |-> esc,
     Pos |-> 0, LastPos |-> 0, out |-> Hdr("RQINIT", 0)]

ReceiverInit ==
    [st |-> "RecvInit", Success |-> FALSE, pkt |-> "PAD", dirty |-> 0, RxType |-> "none",
     file |-> 0, CtlEsc |-> FALSE, Pos |-> 0, timer |-> TRUE, asked |-> "no", got |-> 0,
     out |-> Hdr("RINIT", 0)]

\* ZInit of both ends.
Init ==
    /\ \E esc \in BOOLEAN : snd = SenderInit(esc)
    /\ rcv = ReceiverInit
    /\ toReceiver = <<>> /\ toSender = <<>>
    /\ faults = 0 /\ early = FALSE /\ cancelled = FALSE

-----------------------------------------------------------------------------
(* The sender: what a header does (ZParseHdr), and what is sent next.       *)

\* ZParseRInit: the next file, after it ZFIN.  The file is opened here.
ParseRInit(s, esc) ==
    CASE s.st \notin {"SendInit", "SendEOF"} -> s
      [] s.st \in {"SendInit", "SendEOF"} /\ s.file = Len(Files) ->
           [s EXCEPT !.FileOpen = FALSE, !.st = "SendFIN", !.out = Hdr("FIN", 0)]
      [] s.st \in {"SendInit", "SendEOF"} /\ s.file < Len(Files) ->
           LET t == [s EXCEPT !.file = @ + 1, !.FileOpen = TRUE] IN
           IF t.CtlEsc /\ ~esc THEN [t EXCEPT !.st = "SendInitHdr", !.out = Hdr("SINIT", 0)]
           ELSE [t EXCEPT !.CtlEsc = @ \/ esc, !.st = "SendFileHdr", !.out = Hdr("FILE", 0)]

DataHdr(s, pos) == [s EXCEPT !.Pos = pos, !.st = "SendDataHdr", !.out = Hdr("DATA", pos)]

\* ZSendDataDat: a block, or ZEOF at the end of the file.  After more than
\* WinSize blocks without an answer the receiver is asked for one.
DataDat(s) ==
    LET last == s.Pos + 1 >= Files[s.file]
        wait == s.Pos + 1 - s.LastPos > WinSize
    IN IF s.Pos >= Files[s.file]
         THEN [s EXCEPT !.Pos = Files[s.file], !.st = "SendEOF", !.out = Hdr("EOF", Files[s.file])]
         ELSE [s EXCEPT !.Pos = @ + 1,
                        !.out = Sub(UpTo(s.file - 1) + s.Pos + 1,
                                    IF last THEN "E" ELSE IF wait THEN "Q" ELSE "G"),
                        !.st = IF wait /\ ~last THEN "SendDataDat2" ELSE "SendDataDat"]

\* The answer to a subpacket that asked for one.
OnAck(s, pos) ==
    CASE s.st = "SendInitDat"  -> [s EXCEPT !.st = "SendFileHdr", !.out = Hdr("FILE", 0)]
      [] s.st = "SendDataDat2" ->
           IF s.Pos = pos THEN DataDat([s EXCEPT !.LastPos = pos])
           ELSE DataHdr([s EXCEPT !.LastPos = pos], pos)
      [] OTHER -> s

OnNak(s) ==
    CASE s.st \in {"SendInitHdr", "SendInitDat"} -> [s EXCEPT !.st = "SendInitHdr", !.out = Hdr("SINIT", 0)]
      [] s.st \in {"SendFileHdr", "SendFileDat"} -> [s EXCEPT !.st = "SendFileHdr", !.out = Hdr("FILE", 0)]
      [] OTHER -> s

\* The receiver asks for the data from pos.
OnRpos(s, pos) ==
    IF s.st \in {"SendFileDat", "SendDataHdr", "SendDataDat", "SendDataDat2", "SendEOF"}
      THEN DataHdr([s EXCEPT !.LastPos = pos], pos)
      ELSE s

SenderParseHdr(s, m) ==
    CASE m.type = "RINIT" -> ParseRInit(s, m.pos = 1)
      [] m.type = "ACK"   -> OnAck(s, m.pos)
      [] m.type = "NAK"   -> OnNak(s)
      [] m.type = "RPOS"  -> OnRpos(s, m.pos)
      [] m.type = "FIN"   -> [s EXCEPT !.Success = TRUE, !.st = "End", !.out = Hdr("OO", 0)]

SenderLive == snd.st # "End"

\* A damaged header has no effect on a sender.  A packet that was waiting for
\* room in the output buffer is overwritten, and may have gone in part.
SenderReads ==
    /\ SenderLive /\ toSender # <<>>
    /\ LET m == Head(toSender)
           s == IF m.ok THEN SenderParseHdr(snd, m) ELSE snd
       IN /\ snd' = s
          /\ \/ UNCHANGED <<toReceiver, faults>>
             \/ /\ snd.out.type # "none" /\ s.out # snd.out /\ faults < MaxFaults
                /\ faults' = faults + 1 /\ toReceiver' = Append(toReceiver, Cut)
    /\ toSender' = Tail(toSender)
    /\ UNCHANGED <<rcv, early, cancelled>>

\* The packet goes to the line.
SenderWrites ==
    /\ snd.out.type # "none"
    /\ toReceiver' = Append(toReceiver, snd.out)
    /\ snd' = [snd EXCEPT !.out = None]
    /\ UNCHANGED <<rcv, toSender, faults, early, cancelled>>

\* ZParse, nothing to send: what follows what was sent last.  ZSendFileDat
\* cancels the transfer when the file could not be opened.
SenderGoesOn ==
    /\ SenderLive /\ snd.out.type = "none"
    /\ \/ /\ snd.st = "SendInitHdr"
          /\ snd' = [snd EXCEPT !.st = "SendInitDat", !.out = Sub(0, "W")]
          /\ UNCHANGED cancelled
       \/ /\ snd.st = "SendFileHdr"
          /\ \/ /\ snd' = [snd EXCEPT !.st = "SendFileDat", !.out = Sub(snd.file, "W")]
                /\ UNCHANGED cancelled
             \/ /\ ~cancelled /\ cancelled' = TRUE
                /\ snd' = [snd EXCEPT !.st = "Cancel", !.out = Hdr("CAN", 0)]
       \/ snd.st \in {"SendDataHdr", "SendDataDat"} /\ snd' = DataDat(snd) /\ UNCHANGED cancelled
       \/ snd.st = "Cancel" /\ snd' = [snd EXCEPT !.st = "End"] /\ UNCHANGED cancelled
    /\ UNCHANGED <<rcv, toReceiver, toSender, faults, early>>

-----------------------------------------------------------------------------
(* The receiver.                                                           *)

\* ZSendRInit, ZSendRPOS.
SendRInit(r) == [r EXCEPT !.Pos = 0, !.timer = TRUE, !.out = Hdr("RINIT", IF r.CtlEsc THEN 1 ELSE 0)]
Ask(r) == [r EXCEPT !.timer = TRUE, !.out = Hdr("RPOS", r.Pos)]
\* asked is not a variable of the code: it tells that a ZRPOS was sent before the
\* answer to another one had come.
SendRPOS(r) == [Ask(r) EXCEPT !.asked = IF @ = "no" THEN "once" ELSE "again"]
Answered(r) == [r EXCEPT !.asked = IF @ = "once" THEN "no" ELSE @]

\* ZCheckHdr fails.
BadHdr(r) ==
    CASE r.st = "RecvInit" -> SendRInit(r)
      [] r.st = "RecvData" -> SendRPOS(r)
      [] OTHER             -> r

WantData(r, type) == [r EXCEPT !.pkt = "DATA", !.dirty = 0, !.RxType = type]

\* ZParseHdr of a receiver.
OnEof(r, pos) == IF r.Pos # pos THEN SendRPOS(r) ELSE SendRInit([r EXCEPT !.st = "RecvInit"])

ReceiverParseHdr(r, m) ==
    CASE m.type = "RQINIT"          -> IF r.st = "RecvInit" THEN SendRInit(r) ELSE r
      [] m.type \in {"SINIT", "FILE"} -> WantData(r, m.type)
      [] m.type = "DATA"            -> IF r.Pos # m.pos THEN SendRPOS(r) ELSE WantData(Answered([r EXCEPT !.timer = TRUE]), "DATA")
      [] m.type = "EOF"             -> OnEof(r, m.pos)
      [] m.type = "FIN"             -> [r EXCEPT !.Success = TRUE, !.st = "RecvFIN", !.timer = TRUE, !.out = Hdr("FIN", 0)]

\* ZCheckData fails: the header is asked for again, or the data from Pos.
BadData(r) ==
    LET t == [r EXCEPT !.pkt = "PAD"] IN
    CASE r.st \in {"RecvInit", "RecvInit2"} -> [t EXCEPT !.out = Hdr("NAK", 0)]
      [] r.st = "RecvData"                  -> SendRPOS(t)
      [] OTHER                              -> t

\* What is written is the next block, or the file is wrong from here on.
Grown(got, data) == IF data = got + 1 THEN data ELSE Blocks + 1

\* ZParseSInit, ZParseFile and ZWriteData of a subpacket, then the answer its
\* terminator asks for.
ParseSInit(r) ==
    IF r.st = "RecvInit" THEN [r EXCEPT !.st = "RecvInit2", !.CtlEsc = TRUE, !.pkt = "PAD", !.out = Hdr("ACK", 0)]
    ELSE [r EXCEPT !.pkt = "PAD"]
ParseFile(r, f) ==
    IF r.st \in {"RecvInit", "RecvInit2"}
      THEN [r EXCEPT !.st = "RecvData", !.file = f, !.Pos = 0, !.pkt = "PAD", !.out = Hdr("RPOS", 0)]
      ELSE [r EXCEPT !.pkt = "PAD"]
WriteData(r, m) ==
    IF r.st # "RecvData" THEN [r EXCEPT !.pkt = "PAD"]
    ELSE LET t == [r EXCEPT !.got = Grown(@, m.pos), !.Pos = @ + 1] IN
         CASE m.term = "E" -> [t EXCEPT !.pkt = "PAD"]
           [] m.term = "G" -> t
           [] m.term = "Q" -> [t EXCEPT !.out = Hdr("ACK", t.Pos)]

ReceiverLive == rcv.st # "End"

\* Headers are read between packets.  Where a subpacket is expected their bytes are
\* data, which spoils it: its end is answered with a ZRPOS, and when PktIn is full
\* it ends unanswered.
ReceiverReads ==
    /\ ReceiverLive /\ toReceiver # <<>>
    /\ toReceiver' = Tail(toReceiver)
    /\ LET m == Head(toReceiver)
           header == m.type \notin {"SUB", "CUT", "CAN", "OO"}
           payload == rcv.pkt = "DATA" /\ m.type = "SUB"
           broken == rcv.dirty > 0 \/ ~m.ok
       IN
         \/ m.type = "CAN" /\ rcv' = [rcv EXCEPT !.st = "End"] /\ UNCHANGED cancelled
         \/ m.type = "OO" /\ rcv' = [rcv EXCEPT !.st = IF @ = "RecvFIN" THEN "End" ELSE @] /\ UNCHANGED cancelled
         \* ZFIN has been answered: only "OO" is looked for
         \/ rcv.st = "RecvFIN" /\ m.type \notin {"CAN", "OO"} /\ UNCHANGED <<rcv, cancelled>>
         \/ /\ rcv.st # "RecvFIN" /\ rcv.pkt = "PAD" /\ header
            /\ rcv' = IF m.ok THEN ReceiverParseHdr(rcv, m) ELSE BadHdr(rcv)
            /\ UNCHANGED cancelled
         \* the rest of a packet is skipped or read as a header
         \/ /\ rcv.st # "RecvFIN" /\ rcv.pkt = "PAD" /\ m.type \in {"SUB", "CUT"}
            /\ rcv' \in IF m.type = "CUT" THEN {BadHdr(rcv), rcv} ELSE {rcv}
            /\ UNCHANGED cancelled
         \/ /\ rcv.st # "RecvFIN" /\ rcv.pkt = "DATA" /\ (header \/ m.type = "CUT")
            /\ rcv' = IF rcv.dirty < Room THEN [rcv EXCEPT !.dirty = @ + 1] ELSE [rcv EXCEPT !.pkt = "PAD"]
            /\ UNCHANGED cancelled
         \/ /\ rcv.st # "RecvFIN" /\ payload /\ broken
            /\ rcv' \in {BadData(rcv), [rcv EXCEPT !.pkt = "PAD"]}
            /\ UNCHANGED cancelled
         \/ /\ rcv.st # "RecvFIN" /\ payload /\ ~broken
            /\ \/ rcv.RxType = "SINIT" /\ rcv' = ParseSInit(rcv) /\ UNCHANGED cancelled
               \/ rcv.RxType = "FILE" /\ rcv' = ParseFile(rcv, m.pos) /\ UNCHANGED cancelled
               \* FTCreateFile fails, with the timer stopped and nothing said
               \/ /\ rcv.RxType = "FILE" /\ rcv.st \in {"RecvInit", "RecvInit2"}
                  /\ ~cancelled /\ cancelled' = TRUE
                  /\ rcv' = [rcv EXCEPT !.pkt = "PAD", !.timer = FALSE]
               \/ rcv.RxType = "DATA" /\ rcv' = WriteData(rcv, m) /\ UNCHANGED cancelled
    /\ UNCHANGED <<snd, toSender, faults, early>>

ReceiverWrites ==
    /\ rcv.out.type # "none"
    /\ toSender' = Append(toSender, rcv.out)
    /\ rcv' = [rcv EXCEPT !.out = None]
    /\ UNCHANGED <<snd, toReceiver, faults, early, cancelled>>

-----------------------------------------------------------------------------
(* Timers and the user.                                                    *)

Quiet == toSender = <<>> /\ toReceiver = <<>> /\ rcv.out.type = "none" /\ snd.out.type = "none"

\* ZTimeOutProc.  The timers are longer than a round trip.  The
\* mutant does not ask for the data again.
TimeOutProc_NoRPOS(r) ==
    CASE r.st = "RecvInit"  -> SendRInit(r)
      [] r.st = "RecvInit2" -> [r EXCEPT !.out = Hdr("ACK", 0)]
      [] r.st = "RecvData"  -> r
      [] r.st = "RecvFIN"   -> [r EXCEPT !.st = "End"]
TimeOutProc(r) ==
    CASE r.st = "RecvInit"  -> SendRInit(r)
      [] r.st = "RecvInit2" -> [r EXCEPT !.out = Hdr("ACK", 0)]
      [] r.st = "RecvData"  -> Ask(r)
      [] r.st = "RecvFIN"   -> [r EXCEPT !.st = "End"]

ReceiverTimeOut ==
    /\ ReceiverLive /\ rcv.timer /\ Quiet
    /\ snd.st \notin {"SendInitHdr", "SendFileHdr", "SendDataHdr", "SendDataDat", "Cancel"}
    /\ rcv' = TimeOutProc(rcv)
    /\ UNCHANGED <<snd, toReceiver, toSender, faults, early, cancelled>>

\* ProtoDlgCancel: ZSendCancel only fills out, and ProtoEnd is next.
ZCancel ==
    /\ ~cancelled /\ cancelled' = TRUE
    /\ \/ SenderLive /\ snd' = [snd EXCEPT !.st = "End", !.out = None] /\ UNCHANGED rcv
       \/ ReceiverLive /\ rcv' = [rcv EXCEPT !.st = "End", !.out = None] /\ UNCHANGED snd
    /\ UNCHANGED <<toReceiver, toSender, faults, early>>

-----------------------------------------------------------------------------
(* The line.                                                               *)

Ignored ==
    /\ \/ ~ReceiverLive /\ toReceiver # <<>> /\ toReceiver' = Tail(toReceiver) /\ UNCHANGED toSender
       \/ ~SenderLive /\ toSender # <<>> /\ toSender' = Tail(toSender) /\ UNCHANGED toReceiver
    /\ UNCHANGED <<snd, rcv, faults, early, cancelled>>

\* A packet is damaged, or lost up to a rest that spoils a packet it is read as a
\* part of.  That one vanishes between two subpackets without a trace is left
\* out: nothing in the protocol would notice.
Fault ==
    /\ faults < MaxFaults /\ faults' = faults + 1
    /\ early' = (\/ early \/ rcv.st # "RecvData"
                 \/ toReceiver # <<>> /\ Head(toReceiver).type \notin {"SUB", "DATA", "EOF", "CUT"})
    /\ \/ /\ toReceiver # <<>>
          /\ \E m \in {Cut, [Head(toReceiver) EXCEPT !.ok = FALSE]} : toReceiver' = [toReceiver EXCEPT ![1] = m]
          /\ UNCHANGED toSender
       \/ toSender # <<>> /\ toSender' = Tail(toSender) /\ UNCHANGED toReceiver
    /\ UNCHANGED <<snd, rcv, cancelled>>

-----------------------------------------------------------------------------
SenderSteps == SenderReads \/ SenderWrites \/ SenderGoesOn
ReceiverSteps == ReceiverReads \/ ReceiverWrites

Next == SenderSteps \/ ReceiverSteps \/ ReceiverTimeOut \/ ZCancel \/ Ignored \/ Fault

Spec == Init /\ [][Next]_vars

-----------------------------------------------------------------------------
(* Properties.                                                             *)

\* fv->Success of an end that has ended.
Outcome(e) == IF e.Success THEN "success" ELSE IF e.st = "End" THEN "failed" ELSE "busy"
=============================================================================
