------------------------------- MODULE Telnet -------------------------------
(***************************************************************************)
(* Telnet option negotiation and what hangs on it                           *)
(* (teraterm/teraterm/telnet.c): MyOpt and HisOpt with their queue bits,    *)
(* the local echo, the binary and line modes, the window size.              *)
(*                                                                         *)
(* The user, the host's escape sequences and the macro language change the  *)
(* echo and the terminal's size between any two messages; the server, which *)
(* is external and follows RFC 1143, asks for options on its own too, so    *)
(* requests cross.  A message is one whole command: ParseTel collects its   *)
(* bytes and acts on the last one.                                          *)
(***************************************************************************)
EXTENDS Integers, Sequences

CONSTANTS
    MyOptions,       \* the options of this side that the run follows
    HisOptions,      \* the options of the server that the run follows
    Sizes,           \* the terminal sizes there are
    MaxChanges,      \* bound: changes of the local echo and the terminal's size
    MaxOffers        \* bound: changes of mind of the server

Options == {"BINARY", "ECHO", "SGA", "TERMTYPE", "TERMSPEED", "NAWS", "OTHER"}

ASSUME TelnetAssumption ==
    /\ MyOptions \subseteq Options /\ HisOptions \subseteq Options
    /\ "NAWS" \in MyOptions /\ "ECHO" \in HisOptions    \* TelInformWinSize and TelChangeEcho name them
    /\ Sizes # {} /\ 0 \notin Sizes
    /\ MaxChanges \in Nat /\ MaxOffers \in Nat

VARIABLES
    MyOpt,           \* tr.MyOpt: Status and Que of what this side does
    HisOpt,          \* tr.HisOpt: Status and Que of what the server does
    TelEcho,         \* ts.TelEcho: the local echo follows the ECHO option
    LocalEcho,       \* ts.LocalEcho
    TelBinRecv, TelBinSend, TelLineMode,    \* the fields of cv
    WinSize,         \* tr.WinSize
    Terminal,        \* the terminal's size, NumOfColumns x NumOfLines
    active,          \* this side opened the negotiation (port 23)
    toServer, toClient,  \* commands on their way, oldest first
    srv,             \* the server: its options, its view of ours, the size it knows
    changes, offers  \* counters of the bounds

optVars    == <<MyOpt, HisOpt>>
modeVars   == <<TelEcho, LocalEcho, TelBinRecv, TelBinSend, TelLineMode>>
sizeVars   == <<WinSize, Terminal>>
counters   == <<changes, offers>>
clientVars == <<optVars, modeVars, sizeVars, active>>
vars       == <<clientVars, toServer, toClient, srv, counters>>

-----------------------------------------------------------------------------
(* TelOpt and InitTelnet.                                                  *)

Off == [Status |-> "No", Que |-> "Empty"]
Asked == [Status |-> "WantYes", Que |-> "Empty"]

MyAccept  == {"BINARY", "SGA", "TERMTYPE", "TERMSPEED", "NAWS"}
HisAccept == {"BINARY", "SGA", "ECHO", "NAWS"}

Cmd(c, b) == [cmd |-> c, opt |-> b]
Size(s)   == [cmd |-> "SB", opt |-> "NAWS", size |-> s]

\* The options OnCommOpen asks for on the default telnet port, in its order.
\* BINARY is asked for when ts.TelBin is set; the echo when TelChangeEcho does
\* so or, without ts.TelEcho, always.
Ask(c, b, wanted) ==
    IF b \in (IF c = "WILL" THEN MyOptions ELSE HisOptions) /\ wanted THEN <<Cmd(c, b)>> ELSE <<>>

Opening(bin, echo) ==
    Ask("WILL", "TERMTYPE", TRUE) \o Ask("DO", "SGA", TRUE) \o Ask("WILL", "SGA", TRUE)
    \o Ask("DO", "ECHO", echo) \o Ask("WILL", "NAWS", TRUE) \o Ask("WILL", "BINARY", bin)
    \o Ask("DO", "BINARY", bin) \o Ask("WILL", "TERMSPEED", TRUE)

AskedFor(sent, c, b) == \E i \in DOMAIN sent : sent[i] = Cmd(c, b)

Init ==
    /\ active \in BOOLEAN /\ TelEcho \in BOOLEAN /\ LocalEcho \in 0..1
    /\ TelLineMode = TRUE                 \* ts.EnableLineMode
    /\ \E bin \in BOOLEAN :
         toServer = IF active THEN Opening(bin, ~TelEcho \/ LocalEcho = 0) ELSE <<>>
    /\ MyOpt  = [b \in MyOptions  |-> IF AskedFor(toServer, "WILL", b) THEN Asked ELSE Off]
    /\ HisOpt = [b \in HisOptions |-> IF AskedFor(toServer, "DO", b) THEN Asked ELSE Off]
    /\ TelBinRecv = FALSE /\ TelBinSend = FALSE
    /\ WinSize = CHOOSE s \in Sizes : TRUE
    /\ Terminal = WinSize
    /\ toClient = <<>>
    /\ srv = [his  |-> [b \in HisOptions |-> Off],
              mine |-> [b \in MyOptions  |-> Off],
              size |-> 0]
    /\ changes = 0 /\ offers = 0

-----------------------------------------------------------------------------
(* One option, as ParseTelWill and ParseTelDo (the peer says yes),          *)
(* ParseTelWont and ParseTelDont (it says no), and the Enable and Disable   *)
(* routines change it.  Each gives the option's new state and the answer,   *)
(* "yes", "no" or "none".                                                   *)

Answer(status, que, reply) == [opt |-> [Status |-> status, Que |-> que], reply |-> reply]

SaidYes(o, accept) ==
    CASE o.Status = "No"                            -> IF accept THEN Answer("Yes", o.Que, "yes")
                                                                 ELSE Answer("No", o.Que, "no")
      [] o.Status = "WantNo" /\ o.Que = "Empty"     -> Answer("No", "Empty", "none")
      [] o.Status = "WantNo" /\ o.Que = "Opposite"  -> Answer("Yes", "Opposite", "none")
      [] o.Status = "WantYes" /\ o.Que = "Empty"    -> Answer("Yes", "Empty", "none")
      [] o.Status = "WantYes" /\ o.Que = "Opposite" -> Answer("WantNo", "Empty", "no")
      [] OTHER                                      -> Answer("Yes", o.Que, "none")

\* A request that was refused is made again.
SaidNo_AsksAgain(o) ==
    CASE o.Status = "Yes"                           -> Answer("No", o.Que, "no")
      [] o.Status = "WantNo" /\ o.Que = "Empty"     -> Answer("No", "Empty", "none")
      [] o.Status = "WantNo" /\ o.Que = "Opposite"  -> Answer("WantYes", "Empty", "yes")
      [] o.Status = "WantYes"                       -> Answer("WantYes", o.Que, "yes")
      [] OTHER                                      -> Answer("No", o.Que, "none")
\* The queued wish is left behind when the pending request is refused.
SaidNo_KeepsQueue(o) ==
    CASE o.Status = "Yes"                           -> Answer("No", o.Que, "no")
      [] o.Status = "WantNo" /\ o.Que = "Empty"     -> Answer("No", "Empty", "none")
      [] o.Status = "WantNo" /\ o.Que = "Opposite"  -> Answer("WantYes", "Opposite", "yes")
      [] o.Status = "WantYes"                       -> Answer("No", o.Que, "none")
      [] OTHER                                      -> Answer("No", o.Que, "none")
SaidNo(o) ==
    CASE o.Status = "Yes"                           -> Answer("No", o.Que, "no")
      [] o.Status = "WantNo" /\ o.Que = "Empty"     -> Answer("No", "Empty", "none")
      [] o.Status = "WantNo" /\ o.Que = "Opposite"  -> Answer("WantYes", "Empty", "yes")
      [] o.Status = "WantYes"                       -> Answer("No", "Empty", "none")
      [] OTHER                                      -> Answer("No", o.Que, "none")

Enable(o) ==
    CASE o.Status = "No"      -> Answer("WantYes", o.Que, "yes")
      [] o.Status = "WantNo"  -> Answer("WantNo", "Opposite", "none")
      [] o.Status = "WantYes" -> Answer("WantYes", "Empty", "none")
      [] OTHER                -> Answer("Yes", o.Que, "none")

Disable(o) ==
    CASE o.Status = "Yes"     -> Answer("WantNo", o.Que, "no")
      [] o.Status = "WantNo"  -> Answer("WantNo", "Empty", "none")
      [] o.Status = "WantYes" -> Answer("WantYes", "Opposite", "none")
      [] OTHER                -> Answer("No", o.Que, "none")

Reply(r, yes, no, b) ==
    CASE r = "yes" -> <<Cmd(yes, b)>>
      [] r = "no"  -> <<Cmd(no, b)>>
      [] OTHER     -> <<>>

-----------------------------------------------------------------------------
(* The client.                                                             *)

Done(o, was) == CASE o.Status = "Yes" -> TRUE [] o.Status = "No" -> FALSE [] OTHER -> was

\* What ParseTelWill and ParseTelWont do after an option of the server moved.
\* The local echo is left alone when the option goes off.
AfterHis_EchoStays(b, o) ==
    /\ LocalEcho' = IF b = "ECHO" /\ TelEcho /\ o.Status = "Yes" THEN 0 ELSE LocalEcho
    /\ TelBinRecv' = IF b = "BINARY" THEN Done(o, TelBinRecv) ELSE TelBinRecv
    /\ UNCHANGED <<TelEcho, TelBinSend>>
AfterHis(b, o) ==
    /\ LocalEcho' = IF b = "ECHO" /\ TelEcho
                      THEN CASE o.Status = "Yes" -> 0 [] o.Status = "No" -> 1
                             [] OTHER -> LocalEcho
                      ELSE LocalEcho
    /\ TelBinRecv' = IF b = "BINARY" THEN Done(o, TelBinRecv) ELSE TelBinRecv
    /\ UNCHANGED <<TelEcho, TelBinSend>>

\* Line mode ends when the server echoes (seen on WILL and WONT), and when either
\* side suppresses go-ahead (seen on WILL and DO).
LineModeAfter(b, o, seen) ==
    TelLineMode' = (TelLineMode /\ ~(b \in seen /\ o.Status = "Yes"))

ParseTelWill(b) ==
    LET a == SaidYes(HisOpt[b], b \in HisAccept) IN
    /\ HisOpt' = [HisOpt EXCEPT ![b] = a.opt]
    /\ toServer' = toServer \o Reply(a.reply, "DO", "DONT", b)
    /\ AfterHis(b, a.opt)
    /\ LineModeAfter(b, a.opt, {"ECHO", "SGA"})
    /\ UNCHANGED <<MyOpt, WinSize>>

ParseTelWont(b) ==
    LET a == SaidNo(HisOpt[b]) IN
    /\ HisOpt' = [HisOpt EXCEPT ![b] = a.opt]
    /\ toServer' = toServer \o Reply(a.reply, "DO", "DONT", b)
    /\ AfterHis(b, a.opt)
    /\ LineModeAfter(b, a.opt, {"ECHO"})
    /\ UNCHANGED <<MyOpt, WinSize>>

AfterMine(b, o) ==
    /\ TelBinSend' = IF b = "BINARY" THEN Done(o, TelBinSend) ELSE TelBinSend
    /\ UNCHANGED <<TelEcho, LocalEcho, TelBinRecv>>

\* The size goes out with the agreement to NAWS.
SizeAfterDo(b, o) == IF b = "NAWS" /\ o.Status = "Yes" THEN <<Size(WinSize)>> ELSE <<>>

ParseTelDo(b) ==
    LET a == SaidYes(MyOpt[b], b \in MyAccept) IN
    /\ MyOpt' = [MyOpt EXCEPT ![b] = a.opt]
    /\ toServer' = toServer \o Reply(a.reply, "WILL", "WONT", b) \o SizeAfterDo(b, a.opt)
    /\ AfterMine(b, a.opt)
    /\ LineModeAfter(b, a.opt, {"SGA"})
    /\ UNCHANGED <<HisOpt, WinSize>>

ParseTelDont(b) ==
    LET a == SaidNo(MyOpt[b]) IN
    /\ MyOpt' = [MyOpt EXCEPT ![b] = a.opt]
    /\ toServer' = toServer \o Reply(a.reply, "WILL", "WONT", b)
    /\ AfterMine(b, a.opt)
    /\ UNCHANGED <<HisOpt, WinSize, TelLineMode>>

ParseTel ==
    /\ toClient # <<>>
    /\ toClient' = Tail(toClient)
    /\ LET m == Head(toClient) IN
         \/ m.cmd = "WILL" /\ ParseTelWill(m.opt)
         \/ m.cmd = "WONT" /\ ParseTelWont(m.opt)
         \/ m.cmd = "DO"   /\ ParseTelDo(m.opt)
         \/ m.cmd = "DONT" /\ ParseTelDont(m.opt)
    /\ UNCHANGED <<Terminal, active, srv, counters>>

\* Each caller sets ts.LocalEcho and, with ts.TelEcho, tells the server
\* (the shortcut, SRM of the host, setecho of a macro).
TelChangeEcho ==
    /\ changes < MaxChanges /\ changes' = changes + 1
    /\ LocalEcho' \in 0..1
    /\ IF TelEcho
         THEN LET a == IF LocalEcho' = 0 THEN Enable(HisOpt["ECHO"]) ELSE Disable(HisOpt["ECHO"]) IN
              /\ HisOpt' = [HisOpt EXCEPT !["ECHO"] = a.opt]
              /\ toServer' = toServer \o Reply(a.reply, "DO", "DONT", "ECHO")
         ELSE UNCHANGED <<HisOpt, toServer>>
    /\ UNCHANGED <<MyOpt, TelEcho, TelBinRecv, TelBinSend, TelLineMode, sizeVars,
                   active, toClient, srv, offers>>

Informed(s) ==
    IF MyOpt["NAWS"].Status = "Yes" /\ s # WinSize
      THEN toServer' = Append(toServer, Size(s)) /\ WinSize' = s
      ELSE UNCHANGED <<toServer, WinSize>>

ChangeTerminalSize ==
    /\ changes < MaxChanges /\ changes' = changes + 1
    /\ \E s \in Sizes \ {Terminal} : Terminal' = s /\ Informed(s)
    /\ UNCHANGED <<optVars, modeVars, active, toClient, srv, offers>>

-----------------------------------------------------------------------------
(* The server, as RFC 1143 has it: its own options, its view of the         *)
(* client's, and the freedom to refuse what it is asked for.                *)

SrvSaidYes(o, accept) ==
    LET a == SaidYes(o, accept) IN
    IF a.opt.Status = "Yes" THEN [a EXCEPT !.opt.Que = "Empty"] ELSE a

SrvReceive ==
    /\ toServer # <<>>
    /\ toServer' = Tail(toServer)
    /\ LET m == Head(toServer) IN
         \/ /\ m.cmd \in {"DO", "DONT"}
            /\ \E accept \in BOOLEAN :
                 LET a == IF m.cmd = "DO" THEN SrvSaidYes(srv.his[m.opt], accept)
                                          ELSE SaidNo(srv.his[m.opt]) IN
                 /\ srv' = [srv EXCEPT !.his[m.opt] = a.opt]
                 /\ toClient' = toClient \o Reply(a.reply, "WILL", "WONT", m.opt)
         \/ /\ m.cmd \in {"WILL", "WONT"}
            /\ \E accept \in BOOLEAN :
                 LET a == IF m.cmd = "WILL" THEN SrvSaidYes(srv.mine[m.opt], accept)
                                            ELSE SaidNo(srv.mine[m.opt]) IN
                 /\ srv' = [srv EXCEPT !.mine[m.opt] = a.opt]
                 /\ toClient' = toClient \o Reply(a.reply, "DO", "DONT", m.opt)
         \/ m.cmd = "SB" /\ srv' = [srv EXCEPT !.size = m.size] /\ UNCHANGED toClient
    /\ UNCHANGED <<clientVars, counters>>

\* It turns one of its options on or off, or asks for one of the client's.
SrvChangesHis(b, on) ==
    LET a == IF on THEN Enable(srv.his[b]) ELSE Disable(srv.his[b]) IN
    /\ a.opt # srv.his[b]
    /\ srv' = [srv EXCEPT !.his[b] = a.opt]
    /\ toClient' = toClient \o Reply(a.reply, "WILL", "WONT", b)

SrvChangesMine(b, on) ==
    LET a == IF on THEN Enable(srv.mine[b]) ELSE Disable(srv.mine[b]) IN
    /\ a.opt # srv.mine[b]
    /\ srv' = [srv EXCEPT !.mine[b] = a.opt]
    /\ toClient' = toClient \o Reply(a.reply, "DO", "DONT", b)

SrvOffers ==
    /\ offers < MaxOffers /\ offers' = offers + 1
    /\ \E on \in BOOLEAN :
         \/ \E b \in HisOptions : SrvChangesHis(b, on)
         \/ \E b \in MyOptions  : SrvChangesMine(b, on)
    /\ UNCHANGED <<clientVars, toServer, changes>>

-----------------------------------------------------------------------------
Next == ParseTel \/ TelChangeEcho \/ ChangeTerminalSize \/ SrvReceive \/ SrvOffers

Spec == Init /\ [][Next]_vars

\* OnIdle calls ParseTel whenever a command is there; the network delivers.
FairSpec == Spec /\ WF_vars(ParseTel) /\ WF_vars(SrvReceive)

-----------------------------------------------------------------------------
(* Properties.                                                             *)

Quiet == toServer = <<>> /\ toClient = <<>>

\* cv's binary flags are the server's view of the BINARY option: the two ends mean
\* the same by a carriage return in both directions.
BinaryAgreed ==
    /\ "BINARY" \in HisOptions => TelBinRecv = (srv.his["BINARY"].Status = "Yes")
    /\ "BINARY" \in MyOptions  => TelBinSend = (srv.mine["BINARY"].Status = "Yes")

\* The server knows the size in tr.WinSize whenever NAWS is on.
SizeKnown == MyOpt["NAWS"].Status = "Yes" => srv.size = WinSize

\* With ts.TelEcho a typed character is echoed once, by the terminal or by the
\* server (LocalEcho against HisOpt[ECHO]); and the line mode, which buffers and
\* echoes whole lines here, is over before a server that echoes or takes single
\* characters is waited for (TelChangeEcho, cv.TelLineMode).
EchoedOnce ==
    /\ active /\ TelEcho => (LocalEcho = 0 <=> srv.his["ECHO"].Status = "Yes")
    /\ TelLineMode => \A b \in HisOptions \cap {"ECHO", "SGA"} : srv.his[b].Status = "No"

\* Once nothing is on its way the two ends agree on every option and on what hangs
\* on it, no request is left pending and no wish queued, whatever crossed before
\* (ParseTelWill, ParseTelWont, ParseTelDo, ParseTelDont against TelEnable and TelDisable).
EndsAgree ==
    Quiet =>
        /\ BinaryAgreed /\ SizeKnown /\ EchoedOnce
        /\ \A b \in HisOptions : HisOpt[b] = srv.his[b] /\ HisOpt[b].Status \in {"No", "Yes"}
        /\ \A b \in MyOptions  : MyOpt[b] = srv.mine[b] /\ MyOpt[b].Status \in {"No", "Yes"}

\* Answering never goes round in circles: the negotiation comes to an end.
NegotiationEnds == <>[]Quiet

=============================================================================
