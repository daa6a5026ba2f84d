------------------------------ MODULE MCSession ------------------------------
(***************************************************************************)
(* Two parts of an SSH2 connection for TLC, which share no state; a run follows *)
(* one of them from its start: "login", up to the user's authentication and a    *)
(* later key exchange, and "scp", an upload and a download, each alone with a    *)
(* file that is longer than the windows or empty, and both at once.             *)
(***************************************************************************)
EXTENDS SshLogin

CONSTANTS sent_file, got_file

VARIABLES part, chan, thr, disk, closed, sending, up, deleting, remote, toScp, fromScp

scpVars == <<chan, thr, disk, closed, sending, up, deleting, remote, toScp, fromScp>>
MCvars == <<part, vars, scpVars>>

MCPlans ==
    {[t \in {sent_file} |-> n] : n \in {0, 4}} \cup {[t \in {got_file} |-> n] : n \in {0, 4}}
    \cup {[t \in {sent_file, got_file} |-> IF t = sent_file THEN 1 ELSE 0]}

Copies == INSTANCE Scp WITH
    Uploads <- {sent_file}, Downloads <- {got_file}, Dropped <- {sent_file}, Plans <- MCPlans, ServerWindow <- 2, LocalWindow <- 2,
    srv <- remote, toServer <- toScp, toClient <- fromScp

ASSUME CopiesAssumption == Copies!ScpAssumption

FilesWhole == Copies!FilesWhole
Ends == Copies!Ends
MCLoginEnds == part = "login" => LoginEnds

-----------------------------------------------------------------------------
MCInit ==
    /\ part \in {"login", "scp"} /\ Init /\ Copies!Init
    /\ IF part = "scp" THEN ~c.listFirst /\ toClient[1].what = "none"
       ELSE disk[got_file].file = "none" /\ disk[sent_file].len = 0

Logging(A) == part = "login" /\ A /\ UNCHANGED <<part, scpVars>>
Copying(A) == part = "scp" /\ A /\ UNCHANGED <<part, vars>>

MCNext == Logging(Next) \/ Copying(Copies!Next)

MCFairness ==
    /\ WF_MCvars(Logging(HandlePacket)) /\ WF_MCvars(Logging(ShowHostDialog \/ ShowAuthDialog))
    /\ WF_MCvars(Logging(HostContinue \/ HostCancel))
    /\ WF_MCvars(Logging(AskList \/ AuthOK \/ TISOK \/ AuthCancel))
    /\ WF_MCvars(Logging(CloseTCP)) /\ WF_MCvars(Logging(Serve))
    /\ WF_MCvars(Logging(PeerCloses /\ srv.left))
    /\ \A t \in {sent_file, got_file} :
         /\ WF_MCvars(Copying(Copies!ClientStep(t))) /\ WF_MCvars(Copying(Copies!ThreadStep(t)))
         /\ WF_MCvars(Copying(Copies!ServerStep(t)))
MCSpec == MCInit /\ [][MCNext]_MCvars /\ MCFairness
=============================================================================
