------------------------------ MODULE MCCommPort ------------------------------
(* Uses of CommPort: each kind of port, with and without a time limit for TCP and  *)
(* with another window that reads a pipe too.                                   *)
EXTENDS CommPort

Use(kind, timeout, another) == [kind |-> kind, timeout |-> timeout, other |-> another]

MCSetups ==
    {Use("tcp", FALSE, FALSE), Use("tcp", TRUE, FALSE), Use("serial", FALSE, FALSE),
     Use("pipe", FALSE, FALSE), Use("pipe", FALSE, TRUE)}

MCLimited == {Use("tcp", TRUE, FALSE)}
=============================================================================
