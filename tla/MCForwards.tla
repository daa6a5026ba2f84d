------------------------------ MODULE MCForwards ------------------------------
(***************************************************************************)
(* Two parts of TTSSH's forwarding for TLC, which share no state; a run        *)
(* follows one of them from its start: "buffer", the write buffer of a          *)
(* forwarded socket, and "tables", the channels and forwards that come and go.   *)
(***************************************************************************)
EXTENDS SockWriteBuf, SshChannelTable, TLC

VARIABLE part

MCvars == <<part, vars, tableVars>>

-----------------------------------------------------------------------------
(* Two uses of the tables.                                                  *)

Local(p, h)   == [type |-> "LOCAL_TO_REMOTE", port |-> p, host |-> h]
Dynamic(p)    == [type |-> "LOCAL_DYNAMIC", port |-> p, host |-> 0]
Remote(p, h)  == [type |-> "REMOTE_TO_LOCAL", port |-> p, host |-> h]

\* Two local forwards, and another host for the first port.
LocalForwards ==
    [specs |-> {Local(1, 1), Local(1, 2), Local(2, 1)},
     init |-> (1 :> Local(1, 1)) @@ (2 :> Local(2, 1)), edits |-> 2, others |-> FALSE]

\* A remote and a dynamic forward, and another host for the remote one.
MixedForwards ==
    [specs |-> {Remote(1, 1), Remote(1, 2), Dynamic(2)},
     init |-> (1 :> Remote(1, 1)) @@ (2 :> Dynamic(2)), edits |-> 1, others |-> TRUE]

MCSetups == {LocalForwards, MixedForwards}

-----------------------------------------------------------------------------
MCInit ==
    /\ Init /\ part \in {"buffer", "tables"}
    /\ TableInit /\ (part = "buffer" => setup = LocalForwards)

MCNext ==
    /\ UNCHANGED part
    /\ \/ part = "buffer" /\ Next /\ UNCHANGED tableVars
       \/ part = "tables" /\ TableNext /\ UNCHANGED vars

MCSpec == MCInit /\ [][MCNext]_MCvars
=============================================================================
