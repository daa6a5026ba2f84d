---------------------------- MODULE FileTransfer ----------------------------
(***************************************************************************)
(* What a file transfer protocol of ttpfile/ promises, whatever the line    *)
(* does: the receiver writes the file's blocks in order, it reports success *)
(* (fv->Success) for a whole file only, and the sender only for a file the  *)
(* receiver reported.                                                       *)
(***************************************************************************)
EXTENDS Naturals

CONSTANT Blocks      \* the length of the file

VARIABLES
    got,             \* how many blocks the receiver has written
    receiver, sender \* "busy", "success" or "failed"

vars == <<got, receiver, sender>>

Init == got = 0 /\ receiver = "busy" /\ sender = "busy"

Write == receiver = "busy" /\ got < Blocks /\ got' = got + 1 /\ UNCHANGED <<receiver, sender>>

ReceiverEnds ==
    /\ receiver = "busy"
    /\ receiver' = "failed" \/ (receiver' = "success" /\ got = Blocks)
    /\ UNCHANGED <<got, sender>>

SenderEnds ==
    /\ sender = "busy"
    /\ sender' = "failed" \/ (sender' = "success" /\ receiver = "success")
    /\ UNCHANGED <<got, receiver>>

Next == Write \/ ReceiverEnds \/ SenderEnds

Spec == Init /\ [][Next]_vars
=============================================================================
