----------------------------- MODULE MCTransfers -----------------------------
(* Instances of Transfers: the batch and what the line may spoil.            *)
EXTENDS Transfers

\* Packet numbers come round within the first file; the second is one packet.
MCFiles == <<3, 1>>

\* In ZMODEM a second fault may spoil the answer to the first, see README.
MCFaults == [X |-> 4, Y |-> 3, Z |-> 1, K |-> 4, Q |-> 2]

\* One damaged packet is enough, or none.
MCOneFault == [X |-> 1, Y |-> 0, Z |-> 1, K |-> 1, Q |-> 1]
=============================================================================
