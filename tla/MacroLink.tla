------------------------------ MODULE MacroLink ------------------------------
(***************************************************************************)
(* The link between a terminal and the macro program that drives it          *)
(* (teraterm/ttdde.c, ttermpro's side; ttpmacro/ttmdde.c, ttmmain.cpp and     *)
(* ttl.cpp, the macro's): what the host sends is passed on to the macro,      *)
(* with back-pressure in the synchronous mode, and the macro's commands wait  *)
(* for the terminal to be done with them.                                     *)
(*                                                                         *)
(* The two are processes with a message queue each.  The terminal posts; the  *)
(* macro's transactions are synchronous and a step of both.  Bytes carry the  *)
(* number of their place in what the host sends.  "wait" stands for every     *)
(* command that reads from the host and "transfer" for the ten file-transfer  *)
(* commands; quoting of 0 and 1 is left out.                                  *)
(***************************************************************************)
EXTENDS Naturals, SequencesExt

CONSTANTS
    HostMax,        \* bound: bytes the host sends
    InMax,          \* InBuffSize of cv.InBuff
    LogSize,        \* InBuffSize of cv_LogBuf
    Margin,         \* 10 in the code: CommRead1Byte_ stops that far from LogSize
    RingSize,       \* RingBufSize
    Reserve,        \* 10 in the code: what DDEAdv leaves of the free space
    Program,        \* the kinds of command the macro uses
    Events,         \* sets of events that "waitevent" waits for
    MaxCommands,    \* bound: commands of a macro
    MaxMacros       \* bound: macros started

Commands == {"wait", "waitevent", "transfer", "sendfile", "send", "pause", "setsync",
             "flushrecv", "connect", "unlink", "closett"}
Wakeups == {"timeout", "unlink", "disconn", "conn", "init"}

ASSUME LinkAssumption ==
    /\ HostMax \in Nat /\ InMax \in Nat \ {0} /\ LogSize \in Nat /\ Margin \in Nat
    /\ RingSize \in Nat /\ Reserve \in Nat \ {0}
    /\ MaxCommands \in Nat /\ MaxMacros \in Nat
    /\ Program \subseteq Commands /\ Events \subseteq SUBSET Wakeups

Limit == RingSize \div 2                                    \* RCountLimit

VARIABLES tt,       \* the terminal
          mac,      \* the macro
          mq,       \* messages posted to the macro
          sent,     \* bytes the host has sent
          gone,     \* history: bytes that arrived, or that nobody waits for
          spent     \* counters of the bounds

vars == <<tt, mac, mq, sent, gone, spent>>

Message(kind, v, bytes) == [kind |-> kind, v |-> v, bytes |-> bytes]
Posted(kind, v) == <<Message(kind, v, <<>>)>>

NoMacro == [status |-> "None", ring |-> <<>>, sync |-> FALSE, sent |-> FALSE, clean |-> FALSE,
            linked |-> FALSE, ready |-> 0, timer |-> FALSE, wake |-> {}, target |-> 0,
            out |-> FALSE, loop |-> "peek"]

Init ==
    /\ tt = [port |-> "open", wire |-> <<>>, inb |-> <<>>, rrq |-> FALSE, log |-> <<>>, ddeLog |-> FALSE,
             conv |-> FALSE, cli |-> FALSE, adv |-> FALSE, sync |-> FALSE, recv |-> FALSE,
             free |-> 0, cmnd |-> FALSE, closeTT |-> FALSE, ddeEnd |-> FALSE,
             proto |-> FALSE, mem |-> FALSE, talk |-> "keyb"]
    /\ mac = NoMacro /\ mq = <<>> /\ sent = 0 /\ gone = {}
    /\ spent = [commands |-> 0, macros |-> 0]

Ready(t) == t.port \in {"open", "closing"}                   \* cv.Ready

-----------------------------------------------------------------------------
(* The terminal: reading from the host.                                     *)

Taken(s, n) == SubSeq(s, 1, n)
Rest(s, n) == SubSeq(s, n + 1, Len(s))

\* CommReceive: what fits of what is there, and no request left if nothing was.
CommReceive(t) ==
    LET n == IF t.rrq THEN Min({Len(t.wire), InMax - Len(t.inb)}) ELSE 0
    IN  [t EXCEPT !.inb = @ \o Taken(t.wire, n), !.wire = Rest(@, n),
                  !.rrq = @ /\ t.inb \o Taken(t.wire, n) # <<>>]

\* A conversation that ended with text in the log (EndDDE) leaves the terminal with a
\* request and nothing to parse: if the connection closes before the next OnIdle, it
\* does so without reading, whoever has come to wait for it meanwhile.
Stranded(t) == t.rrq /\ t.inb = <<>> /\ t.log = <<>>

HostSend ==
    /\ tt.port = "open" /\ sent < HostMax /\ sent' = sent + 1
    /\ tt' = [tt EXCEPT !.wire = Append(@, sent')]
    /\ gone' = gone \cup IF Stranded(tt) THEN {sent'} ELSE {}
    /\ UNCHANGED <<mac, mq, spent>>

\* FD_READ, which is asked for again when everything was read (CommProcRRQ).
FdRead ==
    /\ tt.port = "open" /\ ~tt.rrq /\ tt.wire # <<>>
    /\ tt' = CommReceive([tt EXCEPT !.rrq = TRUE])
    /\ UNCHANGED <<mac, mq, sent, gone, spent>>

\* FD_CLOSE comes after the FD_READ of what was sent before it.
FdClose ==
    /\ tt.port = "open" /\ (tt.wire = <<>> \/ tt.rrq)
    /\ tt' = [tt EXCEPT !.port = "closing"]
    /\ UNCHANGED <<mac, mq, sent, gone, spent>>

\* SetDdeComReady, EndDdeCmnd: what they post.
SetDdeComReady(t, v) == IF t.cli THEN Posted("ready", v) ELSE <<>>
Ends_InFocus(t) == t.conv /\ t.cli /\ t.cmnd /\ ~t.mem
Ends(t) == t.conv /\ t.cli /\ t.cmnd
EndDdeCmnd(t, r) == IF Ends(t) THEN Posted("cmndend", r) ELSE <<>>

\* IdComEndTimer, which is set again until CommCanClose.
CommCanClose_ForgetsLog(t) == t.inb = <<>>
CommCanClose(t) == t.inb = <<>> /\ ~(t.ddeLog /\ t.log # <<>>)
ComEnd ==
    /\ tt.port = "closing" /\ CommCanClose(tt)
    /\ tt' = [tt EXCEPT !.port = "closed", !.rrq = FALSE, !.inb = <<>>, !.wire = <<>>]
    /\ mq' = mq \o SetDdeComReady(tt, 0)
    /\ gone' = gone \cup IF tt.ddeLog THEN {} ELSE ToSet(tt.wire)
    /\ UNCHANGED <<mac, sent, spent>>

\* The end of the opening that "connect" asked for (OnCommOpen, or FD_CLOSE).
OnCommOpen ==
    /\ tt.port = "opening"
    /\ \E ok \in BOOLEAN :
         /\ tt' = [tt EXCEPT !.port = IF ok THEN "open" ELSE "closed"]
         /\ mq' = mq \o SetDdeComReady(tt, IF ok THEN 1 ELSE 0)
    /\ UNCHANGED <<mac, sent, gone, spent>>

\* VTParse with CommRead1Byte_ and DDEPut1: bytes are read while the log has room.
LogRoom(t) == IF Len(t.log) >= LogSize - Margin THEN 0 ELSE LogSize - Margin - Len(t.log)
Newest(s, size) == Rest(s, IF Len(s) > size THEN Len(s) - size ELSE 0)
VTParse(t) ==
    LET n == IF t.ddeLog THEN Min({Len(t.inb), LogRoom(t)}) ELSE Len(t.inb)
    IN  [t EXCEPT !.inb = Rest(@, n),
                  !.log = IF t.ddeLog THEN Newest(@ \o Taken(t.inb, n), LogSize) ELSE @]

\* DDEAdv and the AcceptRequest it calls.
Advises(t) == t.ddeLog /\ t.conv /\ t.adv /\ t.log # <<>> /\ (t.sync => t.recv)
FreeLeft(t) == IF t.free < Reserve THEN 0 ELSE t.free - Reserve
Share(t) == IF t.sync THEN Min({Len(t.log), FreeLeft(t)}) ELSE Len(t.log)
DDEAdv(t) ==
    IF Advises(t)
    THEN [t EXCEPT !.free = FreeLeft(t), !.recv = FALSE, !.log = Rest(@, Share(t))]
    ELSE t
Advised(t) == IF Advises(t) THEN <<Message("data", 0, Taken(t.log, Share(t)))>> ELSE <<>>

\* EndPaste; ProtoEnd, which also ends the macro's command.
EndPaste(t) == [t EXCEPT !.mem = FALSE, !.talk = "keyb"]
ProtoEnd(t) == [t EXCEPT !.proto = FALSE, !.talk = "keyb", !.cmnd = @ /\ ~Ends(t)]

\* ProtoDlgParse: a transfer reads everything itself.
ProtoDlgParse(t) == [CommReceive(t) EXCEPT !.inb = <<>>]
Eaten(t) == IF t.proto THEN ToSet(CommReceive(t).inb) ELSE IF t.ddeLog THEN {} ELSE ToSet(t.inb)

\* OnIdle: the parser, DDEAdv, the talker and the receiver.  "over" are the results of
\* a transfer that is over, "empty" says that the text was sent to its end.
OnIdle(over, empty) ==
    /\ Ready(tt)
    /\ over # {} => tt.proto
    /\ empty => tt.mem
    /\ \E read   \in {IF tt.proto THEN ProtoDlgParse(tt) ELSE VTParse(tt)} :
       \E parsed \in {IF over = {} THEN read ELSE ProtoEnd(read)} :
       \E talked \in {IF empty THEN EndPaste(DDEAdv(parsed)) ELSE DDEAdv(parsed)} :
         /\ empty => parsed.talk = "mem"
         /\ tt' = IF talked.ddeLog /\ talked.log # <<>> THEN talked ELSE CommReceive(talked)
         /\ \/ over = {} /\ mq' = mq \o Advised(parsed)
            \/ \E ok \in over : mq' = mq \o EndDdeCmnd(read, ok) \o Advised(parsed)
    /\ gone' = gone \cup Eaten(tt)
    /\ UNCHANGED <<mac, sent, spent>>

Parses     == OnIdle({}, FALSE) \/ OnIdle({}, TRUE)
ParsesOver == OnIdle({0, 1}, FALSE)

\* The user: starts or cancels a transfer, connects, or closes the terminal.
StartsProto(t) == [t EXCEPT !.proto = TRUE, !.talk = "quiet"]
UserTransfers ==
    /\ tt.port = "open" /\ ~tt.proto /\ spent.commands < MaxCommands
    /\ tt' = StartsProto(tt)
    /\ spent' = [spent EXCEPT !.commands = @ + 1]
    /\ UNCHANGED <<mac, mq, sent, gone>>

ProtoDlgCancel ==
    /\ tt.proto /\ tt' = ProtoEnd(tt)
    /\ mq' = mq \o EndDdeCmnd(tt, 0)
    /\ UNCHANGED <<mac, sent, gone, spent>>

\* EndDDE: what is in the log is freed with it.
EndDDE(t) ==
    [t EXCEPT !.conv = FALSE, !.cli = FALSE, !.adv = FALSE, !.sync = FALSE,
              !.ddeLog = FALSE, !.log = <<>>, !.ddeEnd = FALSE]

\* WM_USER_DDEEND after XTYP_DISCONNECT, and OnClose if "closett" asked for it.
OnDdeEnd ==
    /\ tt.ddeEnd
    /\ tt' = [EndDDE(tt) EXCEPT !.port = IF tt.closeTT THEN "closed" ELSE @,
                                !.wire = IF tt.closeTT THEN <<>> ELSE @,
                                !.inb = IF tt.closeTT THEN <<>> ELSE @,
                                !.proto = @ /\ ~tt.closeTT]
    /\ mq' = mq \o (IF tt.cli THEN Posted("cmndend", 0) ELSE <<>>)
    /\ gone' = gone \cup ToSet(tt.log) \cup (IF tt.closeTT THEN ToSet(tt.inb \o tt.wire) ELSE {})
    /\ UNCHANGED <<mac, sent, spent>>

\* OnDestroy: the conversation ends from this side.
UserCloses ==
    /\ ~tt.closeTT /\ ~tt.ddeEnd
    /\ tt' = [EndDDE(tt) EXCEPT !.port = "closed", !.wire = <<>>, !.inb = <<>>,
                                !.closeTT = TRUE, !.proto = FALSE, !.mem = FALSE, !.talk = "keyb"]
    /\ mq' = mq \o (IF tt.conv THEN Posted("terminate", 0) ELSE <<>>)
                \o (IF tt.cli THEN Posted("cmndend", 0) ELSE <<>>)
    /\ gone' = gone \cup ToSet(tt.log \o tt.inb \o tt.wire)
    /\ UNCHANGED <<mac, sent, spent>>

-----------------------------------------------------------------------------
(* The macro starts.                                                        *)

\* RunMacro, with the InitDDE that makes the log.
RunMacro ==
    /\ mac.status = "None" /\ ~tt.conv /\ ~tt.ddeEnd /\ ~tt.closeTT
    /\ spent.macros < MaxMacros
    /\ spent' = [commands |-> 0, macros |-> spent.macros + 1]
    /\ mac' = [NoMacro EXCEPT !.status = "Starting"]
    /\ tt' = [tt EXCEPT !.ddeLog = TRUE, !.log = <<>>, !.sync = FALSE]
    /\ mq' = <<>>
    /\ gone' = gone \cup IF Stranded(tt) THEN ToSet(tt.wire) ELSE {}
    /\ UNCHANGED sent

\* The macro's InitDDE: DdeConnect, CmdSetHWnd and XTYP_ADVSTART.
InitDDE ==
    /\ mac.status = "Starting" /\ tt.ddeLog
    /\ mac' = [mac EXCEPT !.status = "Run", !.linked = TRUE]
    /\ tt' = [tt EXCEPT !.conv = TRUE, !.cli = TRUE, !.adv = TRUE]
    /\ mq' = IF Ready(tt) THEN Posted("ready", 1) ELSE <<>>
    /\ UNCHANGED <<sent, gone, spent>>

\* DdeConnect fails: the macro runs without a link.
InitDDE_NoServer ==
    /\ mac.status = "Starting" /\ ~tt.ddeLog
    /\ mac' = [mac EXCEPT !.status = "Run"]
    /\ UNCHANGED <<tt, mq, sent, gone, spent>>

-----------------------------------------------------------------------------
(* The macro: the handlers of its messages.                                 *)

Waits(m) == m.status = "Wait"
InCommand(m) == m.status \in {"WaitCmndEnd", "WaitCmndResult"}

\* AcceptData, Put1Byte.
AcceptData(m, bytes) == [m EXCEPT !.ring = Newest(@ \o bytes, RingSize), !.sent = FALSE]
Overwritten(m, bytes) == ToSet(m.ring \o bytes) \ ToSet(Newest(m.ring \o bytes, RingSize))

OnDdeCmndEnd(m) == [m EXCEPT !.status = IF InCommand(m) THEN "Run" ELSE @]

Wakes(m, v) ==
    /\ m.status = "Sleep"
    /\ "init" \in m.wake \/ (v = 1 /\ "conn" \in m.wake) \/ (v = 0 /\ "disconn" \in m.wake)
OnDdeComReady(m, v) ==
    [m EXCEPT !.ready = v, !.timer = @ \/ (Waits(m) /\ v = 0),
              !.status = IF Wakes(m, v) THEN "Run" ELSE @]

\* OnDdeEnd of the macro, with its EndDDE.
MacroEndDDE(m) == [m EXCEPT !.linked = FALSE, !.sync = FALSE]
MacroOnDdeEnd(m) ==
    [MacroEndDDE(m) EXCEPT
        !.timer = @ \/ Waits(m),
        !.status = IF InCommand(m) \/ (m.status = "Sleep" /\ m.wake \cap {"init", "unlink"} # {})
                   THEN "Run" ELSE @]

Handled(m, msg) ==
    CASE msg.kind = "data"    -> IF m.linked THEN AcceptData(m, msg.bytes) ELSE m
      [] msg.kind = "ready"   -> OnDdeComReady(m, msg.v)
      [] msg.kind = "cmndend" -> OnDdeCmndEnd(m)
      [] msg.kind = "ddeend"  -> MacroOnDdeEnd(m)
      [] OTHER                -> [m EXCEPT !.linked = FALSE]

Dispatch ==
    /\ mac.status \notin {"None", "Starting"} /\ mac.loop # "idle" /\ mq # <<>>
    /\ LET msg == Head(mq) IN
         /\ mac' = [Handled(mac, msg) EXCEPT !.loop = "peek"]
         /\ mq' = Tail(mq) \o (IF msg.kind = "terminate" THEN Posted("ddeend", 0) ELSE <<>>)
         /\ gone' = gone \cup
              IF msg.kind # "data" THEN {}
              ELSE IF ~mac.linked THEN ToSet(msg.bytes)
              ELSE IF mac.sync /\ mac.clean THEN {} ELSE Overwritten(mac, msg.bytes)
    /\ UNCHANGED <<tt, sent, spent>>

\* OnTimer, whose message comes when no other is there.
Expired(m) == ~m.linked \/ m.ready = 0
OnTimer ==
    /\ mac.timer /\ mac.loop # "idle" /\ mq = <<>>
    /\ \E timeOut \in BOOLEAN :
         LET over == \/ mac.status = "Wait" /\ (Expired(mac) \/ timeOut)
                     \/ mac.status = "Pause" /\ timeOut
                     \/ mac.status = "Sleep" /\ timeOut /\ "timeout" \in mac.wake
                     \/ InCommand(mac) \/ mac.status = "End"
         IN  mac' = [mac EXCEPT
                       !.status = IF over THEN "Run" ELSE @, !.loop = "peek",
                       !.timer = ~(timeOut \/ over \/ mac.status = "Run")]
    /\ UNCHANGED <<tt, mq, sent, gone, spent>>

\* PeekMessage finds nothing: OnIdle is next.
Peek ==
    /\ mac.status \notin {"None", "Starting"} /\ mac.loop = "peek" /\ mq = <<>>
    /\ mac' = [mac EXCEPT !.loop = "idle"]
    /\ UNCHANGED <<tt, mq, sent, gone, spent>>

-----------------------------------------------------------------------------
(* The macro: OnIdle, and the commands.  A step is a pair of both sides.     *)

Both == [m |-> mac, t |-> tt, q |-> mq, g |-> gone]
Step(b) == mac' = b.m /\ tt' = b.t /\ mq' = b.q /\ gone' = b.g /\ sent' = sent

SyncDue(b) == b.m.linked /\ b.m.sync /\ ~b.m.sent /\ Len(b.m.ring) < Limit
Room(m) == Max({1, RingSize - Len(m.ring)})

\* CmdSetSync in AcceptExecute.
CmdSetSync(t, free) == [t EXCEPT !.free = free, !.sync = free > 0, !.recv = TRUE]
Told(b, free) == IF b.t.conv THEN [b EXCEPT !.t = CmdSetSync(@, free)] ELSE b
SendSync(b) ==
    IF SyncDue(b) THEN Told([b EXCEPT !.m.sent = TRUE], Room(b.m)) ELSE b

SetSync(b, on) ==
    IF on THEN Told([b EXCEPT !.m = [@ EXCEPT !.sync = TRUE, !.sent = TRUE,
                                              !.clean = \A i \in 1..Len(b.q) : b.q[i].kind # "data"]],
                    Room(b.m))
          ELSE Told([b EXCEPT !.m.sync = FALSE], 0)

\* DDESend: AcceptPoke starts a SendMem unless the terminal is talking; after ten
\* tries the text is dropped.  Without a link nothing happens to it, for good.
SendMemStart(t) == IF t.mem THEN t ELSE [t EXCEPT !.mem = TRUE, !.talk = "mem"]
DDESend(b) ==
    IF ~b.m.linked THEN {b}
    ELSE {[b EXCEPT !.m = [@ EXCEPT !.out = FALSE], !.t = IF b.t.conv /\ b.t.talk = "keyb" THEN SendMemStart(@) ELSE @]}
         \cup (IF b.t.conv /\ b.t.talk # "keyb" THEN {b} ELSE {})

\* SendCmnd: the state changes first; a refusal changes it back.
SendCmnd(b, status, accepted, t) ==
    IF b.t.conv /\ accepted THEN [b EXCEPT !.m = [@ EXCEPT !.status = status], !.t = t]
                            ELSE [b EXCEPT !.m.status = "Run"]

Sleeps(b, events) == [b EXCEPT !.m = [@ EXCEPT !.status = "Sleep", !.wake = events]]

\* CmdConnect: nothing new if a connection is open.
CmdConnect(b) ==
    LET asleep == Sleeps(b, {"init"})
    IN  IF ~b.t.conv THEN asleep
        ELSE IF b.t.port = "closed" THEN [asleep EXCEPT !.t.port = "opening"]
        ELSE IF Ready(b.t) THEN [asleep EXCEPT !.q = @ \o SetDdeComReady(b.t, 1)]
        ELSE asleep

\* The macro leaves the conversation: XTYP_DISCONNECT at the terminal.
Disconnect(t) == [t EXCEPT !.conv = FALSE, !.ddeEnd = t.ddeEnd \/ t.conv]
Leaves(b) == [b EXCEPT !.m = MacroEndDDE(@), !.t = Disconnect(@)]

Timed(b, on) == [b EXCEPT !.m.timer = @ \/ on]

\* What one line of the macro does (ExecCmnd).
Executed(b, c) ==
    CASE c = "wait"      -> {Timed([b EXCEPT !.m = [@ EXCEPT !.status = "Wait", !.target = x]], on)
                               : x \in {0, HostMax}, on \in BOOLEAN}
      [] c = "waitevent" -> {Timed(Sleeps(b, e), on) : e \in Events, on \in BOOLEAN}
      [] c = "transfer"  -> {SendCmnd(b, "WaitCmndResult", ~b.t.proto,
                                      [StartsProto(b.t) EXCEPT !.cmnd = TRUE])}
      [] c = "sendfile"  -> {SendCmnd(b, "WaitCmndEnd", TRUE,
                                      [SendMemStart(b.t) EXCEPT !.cmnd = TRUE])}
      [] c = "send"      -> {[b EXCEPT !.m.out = TRUE]}
      [] c = "pause"     -> {Timed([b EXCEPT !.m.status = "Pause"], TRUE)}
      [] c = "setsync"   -> {SetSync(b, ~b.m.sync)}
      [] c = "flushrecv" -> {[b EXCEPT !.m = [@ EXCEPT !.ring = <<>>], !.g = @ \cup ToSet(b.m.ring)]}
      [] c = "connect"   -> {IF b.m.ready = 1 THEN b ELSE CmdConnect(b)}
      [] c = "unlink"    -> {Leaves(b)}
      [] c = "closett"   -> {Leaves(SendCmnd(b, "WaitCmndEnd", TRUE, [b.t EXCEPT !.closeTT = TRUE]))}

Loop(b, next) == [b EXCEPT !.m.loop = next]
OnIdleOf(P) == \E b \in P : Step(b)

\* The commands of a macro that has no link are the ones that need none.
Exec ==
    /\ mac.loop = "idle" /\ mac.status = "Run" /\ ~mac.out /\ spent.commands < MaxCommands
    /\ \E c \in Program :
         /\ mac.linked \/ c \in {"pause", "waitevent", "flushrecv"}
         /\ OnIdleOf({Loop(b, "peek") : b \in Executed(SendSync(Both), c)})
    /\ spent' = [spent EXCEPT !.commands = @ + 1]

\* The end of the macro: TTLEnd, then DestroyWindow.
ExecEnd ==
    /\ mac.loop = "idle" /\ mac.status = "Run" /\ ~mac.out
    /\ OnIdleOf({Loop([SendSync(Both) EXCEPT !.m.status = "End"], "peek")})
    /\ UNCHANGED spent
Destroyed ==
    /\ mac.loop = "idle" /\ mac.status = "End"
    /\ OnIdleOf({[Leaves(Both) EXCEPT !.m = NoMacro, !.q = <<>>,
                    !.g = @ \cup ToSet(mac.ring)
                            \cup UNION {ToSet(mq[i].bytes) : i \in 1..Len(mq)}]})
    /\ UNCHANGED spent

Sends ==
    /\ mac.loop = "idle" /\ mac.status # "End" /\ mac.out
    /\ OnIdleOf({Loop(b, "peek") : b \in DDESend(SendSync(Both))})
    /\ UNCHANGED spent

\* Wait: reads up to what it waits for, 0 standing for any byte; SendSync at the end.
Found(ring, x) == {i \in 1..Len(ring) : x \in {0, ring[i]}}
Wait(b) ==
    LET f == Found(b.m.ring, b.m.target)
        n == IF f = {} THEN Len(b.m.ring) ELSE Min(f)
        read == SendSync([b EXCEPT !.m = [@ EXCEPT !.ring = Rest(b.m.ring, n)], !.g = @ \cup ToSet(Taken(b.m.ring, n))])
    IN  IF f = {} THEN [Loop(read, "get") EXCEPT !.m.timer = @ \/ b.m.ready = 0]
                  ELSE [Loop(read, "peek") EXCEPT !.m = [@ EXCEPT !.timer = FALSE, !.status = "Run"]]
Reads ==
    /\ mac.loop = "idle" /\ mac.status = "Wait" /\ ~mac.out
    /\ OnIdleOf({Wait(SendSync(Both))})
    /\ UNCHANGED spent

Rests ==
    /\ mac.loop = "idle" /\ mac.status \in {"WaitCmndEnd", "WaitCmndResult", "Sleep", "Pause"} /\ ~mac.out
    /\ OnIdleOf({Loop(SendSync(Both), "get")})
    /\ UNCHANGED spent

MacroIdle == Exec \/ ExecEnd \/ Destroyed \/ Sends \/ Reads \/ Rests

-----------------------------------------------------------------------------
Next ==
    \/ HostSend \/ FdRead \/ FdClose \/ ComEnd \/ OnCommOpen \/ Parses \/ ParsesOver
    \/ UserTransfers \/ ProtoDlgCancel \/ OnDdeEnd \/ UserCloses
    \/ RunMacro \/ InitDDE \/ InitDDE_NoServer
    \/ Dispatch \/ OnTimer \/ Peek \/ MacroIdle

Spec == Init /\ [][Next]_vars

MacroLoop == Dispatch \/ Peek \/ MacroIdle \/ InitDDE \/ InitDDE_NoServer
TerminalLoop == FdRead \/ ComEnd \/ OnCommOpen \/ OnDdeEnd

\* Both processes run their message loops and their idle work, and a transfer comes
\* to an end.  Nothing is assumed of the host, of the user and of timers.
Fairness ==
    /\ WF_vars(MacroLoop) /\ WF_vars(TerminalLoop) /\ WF_vars(Parses)
    /\ WF_vars(ParsesOver)
FairSpec == Spec /\ Fairness

-----------------------------------------------------------------------------
\* Every byte between the host and the macro's commands, nearest the macro first.
Between == <<mac.ring>> \o [i \in 1..Len(mq) |-> mq[i].bytes] \o <<tt.log \o tt.inb \o tt.wire>>

Rising(s) == \A i, j \in 1..Len(s) : i < j => s[i] < s[j]
Precedes(s, t) == \A x \in ToSet(s), y \in ToSet(t) : x < y

\* setsync.html: "In the synchronous mode, the buffer never overflows": what the host
\* sent is read, or underway in its order, whenever connections close (CommCanClose),
\* the modes change (SendSync, SetSync) and the log fills (CommRead1Byte_, DDEAdv).
\* A switch to the synchronous mode with data in flight, and the asynchronous mode,
\* may lose the oldest bytes.
NothingLost ==
    /\ \A p \in 1..Len(Between) :
         /\ Rising(Between[p])
         /\ \A q \in p + 1..Len(Between) : Precedes(Between[p], Between[q])
    /\ (1..sent) \ UNION {ToSet(Between[p]) : p \in 1..Len(Between)} \subseteq gone

\* zmodemrecv.html and the others: "Pauses until the end of the file transfer": only
\* the terminal's message ends the wait.  The code does not keep this: the timer that an
\* earlier "waitevent" left (OnDdeComReady, no KillTimer) ends it too (OnTimer).
Pauses == [][
    mac.status = "WaitCmndResult" /\ mac'.status = "Run" =>
        mq # <<>> /\ Head(mq).kind \in {"cmndend", "ddeend"}]_vars

\* A file-transfer command and "connect" come to their end whoever ends what they
\* wait for (EndDdeCmnd, EndDDE, SetDdeComReady), if the connection stays.
CommandEnds ==
    (mac.status = "WaitCmndResult" \/ (mac.status = "Sleep" /\ "init" \in mac.wake)) ~>
        \/ mac.status \notin {"WaitCmndResult", "Sleep"}
        \/ mac.status = "WaitCmndResult" /\ ~Ready(tt)
=============================================================================
