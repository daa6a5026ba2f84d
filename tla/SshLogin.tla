------------------------------ MODULE SshLogin ------------------------------
(***************************************************************************)
(* How an SSH2 connection starts (ttxssh: ssh.c, auth.c, hosts.c): the key  *)
(* exchange, the check of the host's key, the user's authentication, and a  *)
(* later key exchange that the server asks for.                             *)
(*                                                                         *)
(* One thread runs everything of the client, driven by window messages: a   *)
(* packet that arrived, a dialog that is to be shown, a button in it.  The  *)
(* dialogs for an unknown host and for the user are posted by a handler     *)
(* and shown later, so packets are handled before and while they are open.  *)
(* The server keeps to the protocol and is free in what the protocol leaves *)
(* open.  Keys are counted: 0 is none, n are those of exchange n.           *)
(***************************************************************************)
EXTENDS Integers, Sequences, FiniteSets

CONSTANTS
    Methods,          \* what a user chooses from in the dialog
    KeyCount,         \* keys in the agent (pageant_keycount)
    Prompts,          \* prompts a keyboard-interactive request may have
    CheckAuthListFirst,   \* the values of the setting of that name
    ServerMay,        \* which liberties the server takes, and the agent
    MaxFailures,      \* bound: requests the server refuses before it leaves
    MaxKeys           \* bound: key exchanges

ASSUME SettingAssumption == CheckAuthListFirst \subseteq BOOLEAN

VARIABLES
    c,                \* PTInstVar: the state of the client
    srv,              \* the server
    toServer,         \* packets on their way, oldest first
    toClient

vars == <<c, srv, toServer, toClient>>

-----------------------------------------------------------------------------
Always == {"IGNORE", "DISCONNECT"}
Transfer == {"KEXINIT", "DATA"}
Types == Always \cup Transfer \cup {"31", "33", "NEWKEYS", "EXT_INFO", "SERVICE_ACCEPT",
                                    "60", "SUCCESS", "FAILURE", "BANNER"}

\* A packet: its number, what it carries and the keys it is written with.
\* joined: it came in one segment with the packet before it.
Packet(t, what, n, keys, joined) == [t |-> t, what |-> what, n |-> n, keys |-> keys, joined |-> joined]

Send(s, t, what, n) == [s EXCEPT !.out = Append(@, Packet(t, what, n, s.outKeys, FALSE))]

\* SSH2_dispatch_init and SSH2_dispatch_add_message.
Dispatch(s, msgs) == [s EXCEPT !.enabled = Always \cup msgs]
Enabling(s, msgs) == [s EXCEPT !.enabled = @ \cup msgs]

\* notify_fatal_error and notify_closed_connection: an open dialog is told to
\* close, and the window to close the connection.
Leaving(s, why) ==
    IF s.why # "none" THEN s
    ELSE [Send(s, "DISCONNECT", "", 0) EXCEPT !.why = why, !.link = "closing",
             !.authDlg = IF @ = "open" THEN "none" ELSE @,
             !.hostDlg = IF @ = "open" THEN "none" ELSE @]

-----------------------------------------------------------------------------
(* Authentication.                                                          *)

\* AUTH_advance_to_next_cred: the dialog is shown by a message to the window.
AdvanceToNextCred(s) ==
    [s EXCEPT !.authDlg = IF @ = "open" THEN "open" ELSE "posted", !.method = "none"]

\* do_SSH2_authrequest
AuthRequest_Only60AtStart(s) ==
    CASE ~s.tryed -> Send(s, "AUTH", "none", 0)
      [] s.tryed /\ s.method = "keyboard" -> Send(s, "AUTH", "keyboard", 0)
      [] s.tryed /\ s.method = "pageant" ->
           Send([s EXCEPT !.keyAt = @ + 1], "AUTH", "query", 0)
      [] s.tryed /\ s.method = "publickey" -> Send(s, "AUTH", "signed", 0)
      [] s.tryed /\ s.method = "password" -> Send(s, "AUTH", "password", 0)
      [] OTHER -> s
AuthRequest(s) ==
    CASE ~s.tryed -> Send(s, "AUTH", "none", 0)
      [] s.tryed /\ s.method = "keyboard" -> Send(Enabling(s, {"60"}), "AUTH", "keyboard", 0)
      [] s.tryed /\ s.method = "pageant" ->
           Send(Enabling([s EXCEPT !.keyAt = @ + 1], {"60"}), "AUTH", "query", 0)
      [] s.tryed /\ s.method = "publickey" -> Send(s, "AUTH", "signed", 0)
      [] s.tryed /\ s.method = "password" -> Send(s, "AUTH", "password", 0)
      [] OTHER -> s

\* do_SSH2_userauth
Userauth(s) ==
    LET u == [s EXCEPT !.typed = FALSE] IN
    IF s.retried > 0 \/ s.tryed THEN AuthRequest(u)
    ELSE Dispatch(Send(u, "SERVICE_REQUEST", "", 0), {"SERVICE_ACCEPT"})

ServiceAccept(s) ==
    AuthRequest(Dispatch(s, {"SUCCESS", "FAILURE", "BANNER"} \cup
                            (IF s.method \in {"keyboard", "pageant", "password"} THEN {"60"} ELSE {})))

\* The first failure answers "none" and brings the list of methods; a later one
\* goes on with the next key of the agent, or asks the user again.
UserauthFailure(s) ==
    CASE ~s.tryed -> AuthRequest([s EXCEPT !.tryed = TRUE])
      [] s.tryed /\ s.method = "pageant" /\ s.keyAt < KeyCount /\ ~s.keyFinal -> AuthRequest(s)
      [] OTHER -> AdvanceToNextCred([s EXCEPT !.retried = @ + 1, !.tis = FALSE])

UserauthSuccess(s) ==
    Send(Dispatch([s EXCEPT !.success = TRUE, !.kex = {"done"}], Transfer), "OPEN", "session", 0)

\* handle_SSH2_userauth_inforeq: a prompt that nothing was typed for opens the
\* dialog.  What was typed answers the first prompt that is met.
InfoReq(s) ==
    LET n == s.payload.n IN
    IF n = 0 \/ (n = 1 /\ s.typed)
      THEN Send([s EXCEPT !.typed = FALSE], "INFO_RESPONSE", "", n)
      ELSE AdvanceToNextCred([s EXCEPT !.typed = FALSE, !.tis = TRUE])

\* The user in the dialog of handle_SSH2_userauth_passwd_changereq, or the
\* agent in handle_SSH2_userauth_pkok, agrees or does not.
ChangeReq(s, agrees) ==
    IF agrees THEN Send(s, "AUTH", "newpassword", 0)
    ELSE [Leaving(s, "user") EXCEPT !.handles60 = FALSE]

PkOk(s, agrees) ==
    IF agrees THEN [Send(s, "AUTH", "signed", 0) EXCEPT !.keyFinal = TRUE]
    ELSE [s EXCEPT !.handles60 = FALSE]

\* handle_SSH2_userauth_msg60: the method says what packet 60 is.
Msg60(s, agrees) ==
    CASE s.method = "keyboard" -> InfoReq(s)
      [] s.method = "pageant"  -> PkOk(s, agrees)
      [] s.method = "password" -> ChangeReq(s, agrees)
      [] OTHER -> [s EXCEPT !.handles60 = FALSE]

-----------------------------------------------------------------------------
(* Key exchange.                                                            *)

\* handle_SSH2_kexinit: choice of the algorithms, and the first packet of the
\* method that was chosen.  Outside of an exchange a new one starts here.
KexInit(s, kind) ==
    LET r == IF s.kex = {"done"} THEN Send([s EXCEPT !.kex = {"rekeying"}], "KEXINIT", "", 0) ELSE s
    IN CASE kind = "none" -> Leaving(r, "kex")
         [] kind = "gex"  -> Dispatch([Send(r, "GEX_REQUEST", "", 0) EXCEPT !.kind = kind], {"31"})
         [] kind = "dh"   -> Dispatch([Send(r, "INIT", "", 0) EXCEPT !.kind = kind], {"31"})

\* handle_SSH2_dh_gex_group
GexGroup(s) == Dispatch(Send(s, "GEX_INIT", "", 0), {"33"})

\* Both NEWKEYS have passed.
KexDone(s) ==
    [IF "rekeying" \in s.kex THEN Dispatch(s, Transfer)
     ELSE AdvanceToNextCred([s EXCEPT !.nameOK = TRUE]) EXCEPT !.kex = {"done"}]

\* ssh2_send_newkeys
SendNewKeys_NeverLast(s) ==
    [Send(s, "NEWKEYS", "", 0) EXCEPT !.outKeys = s.derived, !.kex = @ \cup {"sent"}]
SendNewKeys(s) ==
    LET t == [Send(s, "NEWKEYS", "", 0) EXCEPT !.outKeys = s.derived, !.kex = @ \cup {"sent"}]
    IN IF "received" \in t.kex THEN KexDone(t) ELSE t

\* SSH_notify_host_OK
NotifyHostOK(s) ==
    IF s.hostOK THEN s
    ELSE LET t == [s EXCEPT !.hostOK = TRUE] IN
         IF "sent" \in s.kex THEN t ELSE SendNewKeys(t)

\* ssh2_kex_finish
KexFinish(s, good) ==
    IF good THEN Dispatch([s EXCEPT !.derived = @ + 1], {"NEWKEYS"}) ELSE Leaving(s, "kex")

\* The reply with the host's key: the key is looked up whether or not the
\* signature was good.
KexReply_DoesNotWait(s, good, known) ==
    LET t == NotifyHostOK(KexFinish(s, good)) IN
    IF known THEN t ELSE [t EXCEPT !.hostDlg = "posted"]
KexReply(s, good, known) ==
    LET t == KexFinish(s, good) IN
    IF known THEN NotifyHostOK(t) ELSE [t EXCEPT !.hostDlg = "posted"]

\* handle_SSH2_newkeys
NewKeys_OutToo(s) ==
    LET t == Enabling([s EXCEPT !.kex = @ \cup {"received"}, !.inKeys = s.derived, !.outKeys = s.derived],
                      {"EXT_INFO"})
    IN IF "sent" \in t.kex THEN KexDone(t) ELSE t
NewKeys(s) ==
    LET t == Enabling([s EXCEPT !.kex = @ \cup {"received"}, !.inKeys = s.derived], {"EXT_INFO"})
    IN IF "sent" \in t.kex THEN KexDone(t) ELSE t

-----------------------------------------------------------------------------
(* SSH2_handle_packet.                                                      *)

\* known: the host's key is in a file.  agrees: see Msg60.
Handle(s, m, known, agrees) ==
    CASE m.t = "KEXINIT" -> KexInit(s, m.what)
      [] m.t = "31" /\ s.kind = "gex" -> GexGroup(s)
      [] m.t = "33" \/ (m.t = "31" /\ s.kind = "dh") -> KexReply(s, m.what = "good", known)
      [] m.t = "NEWKEYS" -> NewKeys(s)
      [] m.t = "SERVICE_ACCEPT" -> ServiceAccept(s)
      [] m.t = "FAILURE" -> UserauthFailure(s)
      [] m.t = "SUCCESS" -> UserauthSuccess(s)
      [] m.t = "60" -> Msg60(s, agrees)
      [] m.t = "DISCONNECT" -> Leaving(s, "server")
      [] OTHER -> s

Expected(s, m) == m.t \in s.enabled /\ (m.t = "60" => s.handles60)

\* A step of the client: its packets go out.
Client(s) == /\ c' = [s EXCEPT !.out = <<>>]
             /\ toServer' = toServer \o s.out

HandlePacket ==
    /\ c.link # "closed" /\ toClient # <<>>
    /\ toClient' = Tail(toClient)
    /\ LET m == Head(toClient)
           s == [c EXCEPT !.payload = m]
       IN \E known \in BOOLEAN, agrees \in {TRUE} \cup (IF "refuse" \in ServerMay THEN {FALSE} ELSE {}) :
            Client(IF Expected(c, m) THEN Handle(s, m, known, agrees) ELSE Leaving(s, "unexpected"))
    /\ UNCHANGED srv

\* PKT_recv handles all it has before another message of the window is looked at.
AtRest == c.link # "closed" /\ (toClient # <<>> => ~Head(toClient).joined)

Dialog(s) == AtRest /\ Client(s) /\ UNCHANGED <<srv, toClient>>

\* TTXProcessCommand
ShowHostDialog == c.hostDlg = "posted" /\ Dialog([c EXCEPT !.hostDlg = "open"])
ShowAuthDialog == c.authDlg = "posted" /\ Dialog([c EXCEPT !.authDlg = "open"])

\* hosts_add_dlg_proc
HostContinue == c.hostDlg = "open" /\ Dialog(NotifyHostOK([c EXCEPT !.hostDlg = "none"]))
HostCancel == c.hostDlg = "open" /\ Dialog(Leaving(c, "user"))

\* auth_dlg_proc, the timers and EN_KILLFOCUS: "none" is sent to get the list.
AskList_Again ==
    /\ c.authDlg = "open" /\ ~c.tis /\ c.listFirst /\ ~c.tryed
    /\ c.nameOK /\ c.hostOK
    /\ Dialog(Userauth([c EXCEPT !.listAsked = TRUE]))
AskList ==
    /\ c.authDlg = "open" /\ ~c.tis /\ c.listFirst /\ ~c.tryed /\ ~c.listAsked
    /\ c.nameOK /\ c.hostOK
    /\ Dialog(Userauth([c EXCEPT !.listAsked = TRUE]))

\* end_auth_dlg
AuthOK ==
    /\ c.authDlg = "open" /\ ~c.tis
    /\ c.retried = 0 => c.nameOK /\ c.hostOK
    /\ c.listFirst => c.tryed
    /\ \E m \in Methods :
         Dialog(Userauth([c EXCEPT !.authDlg = "none", !.method = m,
                            !.keyAt = IF m = "pageant" THEN 0 ELSE @,
                            !.keyFinal = IF m = "pageant" THEN FALSE ELSE @]))

\* end_TIS_dlg: the request is read again from the last packet's payload.
TISOK ==
    /\ c.authDlg = "open" /\ c.tis
    /\ Dialog(InfoReq([c EXCEPT !.authDlg = "none", !.method = "keyboard", !.typed = TRUE]))

AuthCancel == c.authDlg = "open" /\ Dialog(Leaving(c, "user"))

\* TTXCloseTCP: everything of the connection is released, dialogs are closed.
CloseTCP ==
    /\ c.link = "closing"
    /\ Client([c EXCEPT !.link = "closed", !.authDlg = "none", !.hostDlg = "none", !.out = <<>>])
    /\ UNCHANGED <<srv, toClient>>

-----------------------------------------------------------------------------
(* The server.                                                              *)

\* Its packets, written with the keys it has.  Those of one step are one segment.
Replies(s, kinds) ==
    toClient' = toClient \o [i \in 1..Len(kinds) |->
                   Packet(kinds[i][1], kinds[i][2], kinds[i][3],
                          IF \E j \in 1..(i - 1) : kinds[j][1] = "NEWKEYS" THEN s.out + 1 ELSE s.out,
                          i > 1)]

Serves(next, kinds) ==
    /\ srv' = next /\ Replies(srv, kinds)
    /\ toServer' = Tail(toServer)
    /\ UNCHANGED c

\* The reply of the exchange, NEWKEYS and what may follow it.
Concludes(t) ==
    \E what \in {"good"} \cup (ServerMay \cap {"bad"}), ext \in BOOLEAN :
       Serves([srv EXCEPT !.kex = "newkeys", !.out = @ + 1],
              <<<<t, what, 0>>, <<"NEWKEYS", "", 0>>>> \o
              IF ext /\ srv.out = 0 THEN <<<<"EXT_INFO", "", 0>>>> ELSE <<>>)

\* A request is refused, up to a number of times; then the server leaves.
Refuses ==
    IF srv.fails < MaxFailures
      THEN Serves([srv EXCEPT !.fails = @ + 1, !.asked = -1], <<<<"FAILURE", "", 0>>>>)
      ELSE Serves([srv EXCEPT !.left = TRUE, !.asked = -1], <<<<"DISCONNECT", "", 0>>>>)

Accepts == Serves([srv EXCEPT !.auth = TRUE, !.asked = -1], <<<<"SUCCESS", "", 0>>>>)

Asks == /\ srv.fails < MaxFailures
        /\ \E n \in Prompts : Serves([srv EXCEPT !.asked = n, !.fails = @ + 1], <<<<"60", "prompts", n>>>>)

ServeAuth(what) ==
    CASE what = "none"  -> Refuses \/ Serves(srv, <<<<"BANNER", "", 0>>, <<"FAILURE", "", 0>>>>)
      [] what = "query" -> Refuses \/ Serves(srv, <<<<"60", "pk_ok", 0>>>>)
      [] what = "keyboard" -> Refuses \/ Asks
      [] what = "password" ->
           \/ Refuses \/ Accepts
           \/ "changereq" \in ServerMay /\ Serves(srv, <<<<"60", "changereq", 0>>>>)
      [] OTHER -> Refuses \/ Accepts

Serve ==
    /\ ~srv.left /\ toServer # <<>>
    /\ LET m == Head(toServer) IN
       CASE m.t = "KEXINIT" -> Serves([srv EXCEPT !.kex = "init"], <<>>)
         [] m.t = "GEX_REQUEST" -> Serves(srv, <<<<"31", "group", 0>>>>)
         [] m.t = "INIT" -> Concludes("31")
         [] m.t = "GEX_INIT" -> Concludes("33")
         [] m.t = "NEWKEYS" -> Serves([srv EXCEPT !.kex = "idle", !.in = @ + 1], <<>>)
         [] m.t = "SERVICE_REQUEST" -> Serves(srv, <<<<"SERVICE_ACCEPT", "", 0>>>>)
         [] m.t = "AUTH" -> ServeAuth(m.what)
         [] m.t = "INFO_RESPONSE" -> Refuses \/ Accepts \/ Asks
         [] m.t = "OPEN" -> Serves(srv, IF srv.kex = "idle" THEN <<<<"DATA", "", 0>>>> ELSE <<>>)
         [] m.t = "DISCONNECT" -> Serves([srv EXCEPT !.left = TRUE], <<>>)

\* New keys are wanted.  Until its NEWKEYS the server sends nothing else.
Rekey ==
    /\ "rekey" \in ServerMay /\ ~srv.left
    /\ srv.kex = "idle" /\ srv.in = srv.out /\ srv.out < MaxKeys /\ srv.auth
    /\ srv' = [srv EXCEPT !.kex = "kexinit"]
    /\ \E kind \in {"dh", "gex"} : Replies(srv, <<<<"KEXINIT", kind, 0>>>>)
    /\ UNCHANGED <<c, toServer>>

\* SSH2_MSG_IGNORE
Noise ==
    /\ "ignore" \in ServerMay /\ ~srv.left /\ ~srv.noisy /\ c.link = "up"
    /\ srv' = [srv EXCEPT !.noisy = TRUE]
    /\ Replies(srv, <<<<"IGNORE", "", 0>>>>)
    /\ UNCHANGED <<c, toServer>>

\* The server closes the connection: FD_CLOSE.
PeerCloses ==
    /\ c.link = "up" /\ (srv.left \/ "close" \in ServerMay)
    /\ c' = [c EXCEPT !.link = "closing"]
    /\ srv' = [srv EXCEPT !.left = TRUE]
    /\ UNCHANGED <<toServer, toClient>>

-----------------------------------------------------------------------------
\* SSH_handle_server_ID: the identification strings have been exchanged and
\* both sides have sent KEXINIT.
ClientInit(first) ==
    [listFirst |-> first, kex |-> {},
     enabled |-> Always \cup {"KEXINIT"}, kind |-> "none",
     derived |-> 0, inKeys |-> 0, outKeys |-> 0,
     hostOK |-> FALSE, hostDlg |-> "none", nameOK |-> FALSE,
     method |-> "none", tryed |-> FALSE, retried |-> 0, tis |-> FALSE, typed |-> FALSE,
     listAsked |-> FALSE, authDlg |-> "none", keyAt |-> 0, keyFinal |-> FALSE,
     handles60 |-> TRUE, payload |-> Packet("IGNORE", "", 0, 0, FALSE), success |-> FALSE,
     link |-> "up", why |-> "none", out |-> <<>>]

ServerInit ==
    [kex |-> "kexinit", in |-> 0, out |-> 0, auth |-> FALSE, fails |-> 0, asked |-> -1,
     left |-> FALSE, noisy |-> FALSE]

Init ==
    /\ \E first \in CheckAuthListFirst : c = ClientInit(first)
    /\ srv = ServerInit
    /\ toServer = <<Packet("KEXINIT", "", 0, 0, FALSE)>>
    /\ \E kind \in {"dh", "gex", "none"} : toClient = <<Packet("KEXINIT", kind, 0, 0, FALSE)>>

Next ==
    \/ HandlePacket \/ ShowHostDialog \/ ShowAuthDialog
    \/ HostContinue \/ HostCancel \/ AskList \/ AuthOK \/ TISOK \/ AuthCancel \/ CloseTCP
    \/ Serve \/ Rekey \/ Noise \/ PeerCloses

Spec == Init /\ [][Next]_vars

\* Windows messages are delivered, a user answers a dialog that is open, and
\* the server answers what it was asked.
Fairness ==
    /\ WF_vars(HandlePacket) /\ WF_vars(ShowHostDialog \/ ShowAuthDialog)
    /\ WF_vars(HostContinue \/ HostCancel)
    /\ WF_vars(AskList \/ AuthOK \/ TISOK \/ AuthCancel)
    /\ WF_vars(CloseTCP) /\ WF_vars(Serve) /\ WF_vars(PeerCloses /\ srv.left)

FairSpec == Spec /\ Fairness

-----------------------------------------------------------------------------
\* Whatever is read is read with the keys it was written with, in both
\* directions and across the change of the keys: the client turns to its new
\* keys for writing when it sends NEWKEYS, which the user's look at the host's
\* key may delay, and for reading when NEWKEYS arrives (ssh2_send_newkeys,
\* handle_SSH2_newkeys).
KeysAgree ==
    /\ toClient # <<>> /\ c.link = "up" => Head(toClient).keys = c.inKeys
    /\ toServer # <<>> /\ ~srv.left => Head(toServer).keys = srv.in

\* A server that keeps to the protocol is never left for a packet that the
\* client did not expect just then (SSH2_handle_packet).
NothingUnexpected == c.why # "unexpected"

\* Nothing about the user goes out before the host's key was accepted and the
\* exchange's keys are in use (HOSTS_check_host_key, NewKeys, end_auth_dlg).
NothingBeforeHostOK ==
    \A i \in DOMAIN toServer :
        toServer[i].t \in {"SERVICE_REQUEST", "AUTH", "INFO_RESPONSE"} =>
            toServer[i].keys > 0 /\ c.hostOK /\ c.hostDlg = "none"

Requests == {i \in DOMAIN toServer : toServer[i].t \in {"SERVICE_REQUEST", "AUTH", "INFO_RESPONSE"}}
Answers == {i \in DOMAIN toClient : toClient[i].t \in {"SERVICE_ACCEPT", "FAILURE", "SUCCESS", "60"}}
Underway == Cardinality(Requests) + Cardinality(Answers)

\* Requests and answers take turns: while the server has a request, or its answer is on
\* the way, the dialog's timers and buttons send no other (AskList, end_auth_dlg); and
\* the server gets as many responses as it asked for (InfoReq, end_TIS_dlg), if no
\* other packet came while the dialog was open.
RequestsInTurn ==
    /\ Underway <= 1
    /\ ~srv.noisy /\ toServer # <<>> /\ ~srv.left /\ Head(toServer).t = "INFO_RESPONSE" => Head(toServer).n = srv.asked

\* A connection is logged in or closed in the end, however the user answers.
LoginEnds == <>(c.success \/ c.link = "closed")

\* A key exchange that the server asks for later ends: the keys are made anew
\* (handle_SSH2_kexinit).
RekeyEnds == "rekeying" \in c.kex ~> ("rekeying" \notin c.kex \/ c.link = "closed")

=============================================================================
