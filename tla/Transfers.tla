------------------------------ MODULE Transfers ------------------------------
(***************************************************************************)
(* File transfers (teraterm/filesys_proto.cpp over ttpfile): two ends that  *)
(* were started with the same protocol.  OpenProtoDlg creates the one       *)
(* protocol of an end; ProtoDlgParse, ProtoDlgTimeOut and ProtoDlgCancel    *)
(* call it through FileVar until ProtoEnd.                                  *)
(*                                                                         *)
(* The protocols are the modules named below; all of them have the          *)
(* variables of this one, each with the fields of its own protocol.         *)
(***************************************************************************)
EXTENDS Integers, Sequences, SequencesExt

CONSTANTS
    Protocols,       \* those the ends may be started with
    Files,           \* for each file of a batch its number of blocks
    NumMod,          \* XMODEM, YMODEM: packet numbers are modulo this
    NakLimit,        \* XMODEM: NAKs the receiver sends for one packet
    CLimit,          \* XMODEM: requests for CRC before it falls back
    Patience,        \* YMODEM, Quick-VAN: timeouts of the receiver in one of the sender
    OpenFails,       \* YMODEM: a later file of the batch cannot be opened
    WinSize, Room,   \* ZMODEM: see Zmodem
    SeqNums,         \* Kermit: packet numbers are modulo this
    HeaderDamage,    \* Kermit: damage may hit the number and type of a packet
    WinSizes, Lows, NakByte, Retries,  \* Quick-VAN: see Quickvan, Lows is its NumMod
    Faults           \* bound: for each protocol, what the line spoils

ASSUME TransfersAssumption ==
    /\ Protocols \subseteq {"X", "Y", "Z", "K", "Q"}
    /\ Files \in Seq(Nat \ {0}) /\ Files # <<>>
    /\ NumMod \in Nat \ {0, 1} /\ NakLimit \in Nat /\ CLimit \in Nat
    /\ Patience \in Nat /\ WinSize \in Nat /\ Room \in Nat
    /\ SeqNums \in Nat \ {0, 1} /\ HeaderDamage \in BOOLEAN /\ OpenFails \in BOOLEAN
    /\ WinSizes \subseteq Nat \ {0} /\ Lows \in Nat \ {0, 1} /\ NakByte \in Nat /\ Retries \in Nat
    /\ Faults \in [{"X", "Y", "Z", "K", "Q"} -> Nat]

VARIABLES
    proto,           \* the protocol of both ends
    snd, rcv,        \* TFileVarProto and the protocol's variables of each end
    toReceiver, toSender,  \* the line
    faults,          \* what the line spoiled
    early,           \* it spoiled something before the protocol can repair it
    cancelled        \* a user cancelled an end, or a file could not be opened

vars == <<proto, snd, rcv, toReceiver, toSender, faults, early, cancelled>>

\* XMODEM sends one file.
Blocks == FoldLeft(LAMBDA n, k : n + k, 0, Files)

X == INSTANCE Xmodem WITH MaxFaults <- Faults.X
Y == INSTANCE Ymodem WITH MaxFaults <- Faults.Y
Z == INSTANCE Zmodem WITH MaxFaults <- Faults.Z
K == INSTANCE Kermit WITH MaxFaults <- Faults.K
Q == INSTANCE Quickvan WITH MaxFaults <- Faults.Q, NumMod <- Lows

-----------------------------------------------------------------------------
\* OpenProtoDlg and the protocol's Init.
Init ==
    /\ proto \in Protocols
    /\ CASE proto = "X" -> X!Init
         [] proto = "Y" -> Y!Init
         [] proto = "Z" -> Z!Init
         [] proto = "K" -> K!Init
         [] proto = "Q" -> Q!Init

\* ProtoDlgParse of the sender's end and of the receiver's.
SenderParse ==
    \/ proto = "X" /\ X!XSendPacket
    \/ proto = "Y" /\ Y!YSendPacket
    \/ proto = "Z" /\ Z!SenderSteps
    \/ proto = "K" /\ K!SenderReadPacket
    \/ proto = "Q" /\ Q!QVSendPacket

ReceiverParse ==
    \/ proto = "X" /\ X!XReadPacket
    \/ proto = "Y" /\ Y!YReadPacket
    \/ proto = "Z" /\ Z!ReceiverSteps
    \/ proto = "K" /\ K!ReceiverReadPacket
    \/ proto = "Q" /\ Q!QVReadPacket

ProtoDlgTimeOut ==
    \/ proto = "X" /\ X!Timers
    \/ proto = "Y" /\ Y!Timers
    \/ proto = "Z" /\ Z!ReceiverTimeOut
    \/ proto = "Q" /\ Q!Timers

\* In Kermit each end starts its own timer again whatever the other's does.
KmtSenderTimeOut == proto = "K" /\ K!SenderTimer
KmtReceiverTimeOut == proto = "K" /\ K!ReceiverTimer

ProtoDlgCancel ==
    \/ proto = "X" /\ X!XCancel
    \/ proto = "Y" /\ Y!YCancel
    \/ proto = "Z" /\ Z!ZCancel
    \/ proto = "K" /\ K!KmtCancel
    \/ proto = "Q" /\ Q!QVCancel

\* What comes for an end after its ProtoEnd.
Ignored ==
    \/ proto = "X" /\ X!Ignored
    \/ proto = "Y" /\ Y!Ignored
    \/ proto = "Z" /\ Z!Ignored
    \/ proto = "K" /\ K!Ignored
    \/ proto = "Q" /\ Q!Ignored

Fault ==
    \/ proto = "X" /\ X!Fault
    \/ proto = "Y" /\ Y!Fault
    \/ proto = "Z" /\ Z!Fault
    \/ proto = "K" /\ K!Fault
    \/ proto = "Q" /\ Q!Fault

Next ==
    /\ UNCHANGED proto
    /\ \/ SenderParse \/ ReceiverParse \/ ProtoDlgTimeOut \/ ProtoDlgCancel \/ Ignored \/ Fault
       \/ KmtSenderTimeOut \/ KmtReceiverTimeOut

Spec == Init /\ [][Next]_vars

\* OnIdle calls ProtoDlgParse while a transfer's dialog is open, WM_TIMER comes,
\* and the line delivers what it does not lose.
FairSpec ==
    /\ Spec
    /\ WF_vars(SenderParse /\ UNCHANGED proto) /\ WF_vars(ReceiverParse /\ UNCHANGED proto)
    /\ WF_vars(ProtoDlgTimeOut /\ UNCHANGED proto) /\ WF_vars(Ignored /\ UNCHANGED proto)
    /\ SF_vars(KmtSenderTimeOut /\ UNCHANGED proto)
    /\ SF_vars(KmtReceiverTimeOut /\ UNCHANGED proto)

-----------------------------------------------------------------------------
(* Properties: those of the protocol that runs.                            *)

\* ProtoEnd tells the macro fv->Success of its end.
Outcome(e) == IF proto = "Z" THEN Z!Outcome(e) ELSE e.end

\* Both ends implement the transfer of all the blocks: what is written is a prefix
\* of what is sent, the receiver reports success only when it has all of it, the
\* sender only after the receiver (see FileTransfer).
Transfer == INSTANCE FileTransfer WITH
    got <- rcv.got, receiver <- Outcome(rcv), sender <- Outcome(snd)
ImplementsTransfer == Transfer!Spec

\* However much is lost, no end waits for ever: in XMODEM none, in YMODEM
\* not the sender.  A YMODEM receiver asks for ever; in ZMODEM and Kermit both ends may hang.
Ends ==
    <>(CASE proto = "X" -> Outcome(rcv) # "busy" /\ Outcome(snd) # "busy"
         [] proto = "Y" -> Outcome(snd) # "busy"
         [] proto = "Q" -> Q!Ended
         [] proto \in {"Z", "K"} -> TRUE)

\* What the line spoils is repaired: without a cancel the receiver gets the whole
\* batch.  Each protocol has something it cannot repair, see its Repaired.
Repaired ==
    <>(\/ cancelled \/ early \/ Outcome(rcv) = "success"
       \/ proto = "Z" /\ rcv.asked = "again")

\* "If the file is transferred successfully, the system variable "result" is set to
\* 1" (doc/en/html/macro/command/kmtrecv.html:28): fv->Success, at either end, means all the blocks.  Kermit's
\* code does not keep this with two files: see README.
SuccessIsWhole == "success" \in {Outcome(rcv), Outcome(snd)} => rcv.got = Blocks
=============================================================================
