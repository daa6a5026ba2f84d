------------------------------ MODULE CommPort ------------------------------
(***************************************************************************)
(* The terminal's communication port (teraterm/teraterm/commlib.c and its     *)
(* handlers in vtwin.cpp): opening, starting, reading and closing a TCP        *)
(* connection, a serial port or a named pipe.                                *)
(*                                                                         *)
(* The window's thread handles its posted messages in order, then its timers, *)
(* then OnIdle.  A serial port or a pipe has a reader thread, which reads cv    *)
(* without a lock, tells the window of data with FD_READ and then waits for an  *)
(* event that CommReceive sets.  The event has a name, made of the port's      *)
(* number: the next connection to the port finds the same event, with the       *)
(* threads that still wait for it, and every pipe is number 0 - also in another  *)
(* Tera Term's window.                                                       *)
(***************************************************************************)
EXTENDS Integers, Sequences

CONSTANTS
    TcpPorts, SerialPorts, PipePorts,    \* the ports; a behaviour uses one kind
    InMax,        \* InBuffSize
    Setups,       \* [kind, timeout, other]: the kind of port, whether ts.ConnectingTimeout is set,
                  \* whether another Tera Term has a pipe open
    MaxAddrs,     \* addresses of a host
    MaxOpens,     \* bound: connections
    MaxBytes,     \* bound: what the host sends, over all connections
    MaxResets     \* bound: resets of a serial port

ASSUME CommPortAssumption ==
    /\ InMax \in Nat \ {0} /\ MaxAddrs \in Nat \ {0}
    /\ Setups \subseteq [kind : {"tcp", "serial", "pipe"}, timeout : BOOLEAN, other : BOOLEAN]
    /\ \A s \in Setups : s.other => s.kind = "pipe"
    /\ MaxOpens \in Nat /\ MaxBytes \in Nat /\ MaxResets \in Nat

VARIABLES
    setup,        \* one of Setups
    cv,           \* TComVar, and the number of its connection
    at,           \* where the window's thread is
    Connecting, TCPIPClosed,
    timers,       \* the timers that run
    wm,           \* the window's posted messages
    dev,          \* the port: what waits there, and what the driver tells of it
    threads,      \* the reader threads, in the order of their start
    event,        \* ReadEnd of each port: it is signalled
    other,        \* the reader thread of the other window
    sent, resets  \* counters of the bounds

counters == <<sent, resets>>
window   == <<at, Connecting, TCPIPClosed, timers>>
port     == <<cv, wm, dev, event>>
vars     == <<setup, port, window, threads, other, counters>>

Kind == setup.kind
Ports == CASE Kind = "tcp" -> TcpPorts [] Kind = "serial" -> SerialPorts [] Kind = "pipe" -> PipePorts
Least(i, j) == IF i < j THEN i ELSE j
Msg(type, err) == [type |-> type, err |-> err]
Posted(type) == \E i \in DOMAIN wm : wm[i].type = type
Post(type) == Append(wm, Msg(type, FALSE))

-----------------------------------------------------------------------------
(* Reading: operators from one state of the port to the next.               *)

State == [cv |-> cv, wm |-> wm, dev |-> dev, event |-> event, stuck |-> FALSE]
Tells(s, type) == [s EXCEPT !.wm = Append(@, Msg(type, FALSE))]

Taken(s) == Least(s.dev.rx, InMax - s.cv.in)
Read(s) == [s EXCEPT !.cv.in = @ + Taken(s), !.dev.rx = @ - Taken(s)]

\* A recv lets winsock tell of data again, and so does WSAAsyncSelect with FD_READ.
Rearmed(s) ==
    IF s.dev.mask /\ s.dev.rx > 0 THEN [Tells(s, "FD_READ") EXCEPT !.dev.told = FALSE]
    ELSE [s EXCEPT !.dev.told = s.dev.mask]
Select(s) == Rearmed([s EXCEPT !.dev.mask = TRUE])

Over(s) == [s EXCEPT !.cv.rrq = FALSE]
SetEvent(s) == [s EXCEPT !.event[s.cv.port] = TRUE]

ReceiveTCP_NoSelect(s) ==
    LET r == Rearmed(Read(s)) IN IF r.cv.in > 0 THEN r ELSE Over(r)
ReceiveTCP(s) ==
    LET r == Rearmed(Read(s)) IN
    IF r.cv.in > 0 THEN r ELSE Over(IF TCPIPClosed THEN r ELSE Select(r))

ReceiveSerial(s) ==
    LET r == Read(s) IN IF r.cv.in > 0 THEN r ELSE SetEvent(Over(r))

\* A pipe is read in blocking mode: ReadFile waits for a byte or for the pipe's end.
ReceivePipe(s) ==
    IF s.dev.rx = 0 /\ ~s.dev.broken THEN [s EXCEPT !.stuck = TRUE]
    ELSE LET r == SetEvent(Over(Read(s))) IN
         IF r.cv.in > 0 THEN r ELSE Tells(r, "FD_CLOSE")

CommReceive(s) ==
    CASE ~s.cv.ready \/ ~s.cv.rrq \/ s.cv.in >= InMax -> s
      [] OTHER -> CASE Kind = "tcp" -> ReceiveTCP(s) [] Kind = "serial" -> ReceiveSerial(s)
                    [] Kind = "pipe" -> ReceivePipe(s)

CommProcRRQ(s) ==
    IF ~s.cv.ready THEN s
    ELSE CommReceive([s EXCEPT !.cv.rrq = TRUE,
                               !.dev.mask = IF Kind = "tcp" /\ ~TCPIPClosed THEN FALSE ELSE @])

Becomes(s) ==
    /\ cv' = s.cv /\ wm' = s.wm /\ dev' = s.dev /\ event' = s.event
    /\ at' = IF s.stuck THEN "reading" ELSE IF at = "reading" THEN "loop" ELSE at
    /\ UNCHANGED <<setup, Connecting, TCPIPClosed, timers, threads, other, counters>>

-----------------------------------------------------------------------------
(* Opening and closing.                                                    *)

Dispatching == at \in {"loop", "lookup"}

NewDev == [rx |-> 0, told |-> FALSE, mask |-> FALSE, broken |-> FALSE, dialled |-> FALSE]
Fresh(p) ==
    [conn |-> cv.conn + 1, open |-> FALSE, ready |-> FALSE, rrq |-> FALSE, port |-> p,
     valid |-> FALSE, in |-> 0, addr |-> 0, retry |-> TRUE]

\* CommOpen.  A host's name is looked up; CreateFile may fail.  A serial port that is
\* not cleared (ts.ClearComBuffOnOpen) may have data that the driver does not tell of.
CommOpen(p) ==
    /\ cv.conn < MaxOpens
    /\ \/ /\ Kind = "tcp" /\ at' = "lookup"
          /\ cv' = [Fresh(p) EXCEPT !.open = TRUE] /\ dev' = NewDev /\ UNCHANGED wm
       \/ /\ Kind # "tcp" /\ UNCHANGED at
          /\ cv' = Fresh(p) /\ wm' = Post("FD_CLOSE") /\ dev' = NewDev
       \/ /\ Kind # "tcp" /\ UNCHANGED at
          /\ \E rrq \in {Kind = "serial", FALSE}, rx \in 0..1 :
               /\ rx > 0 => rrq
               /\ cv' = [Fresh(p) EXCEPT !.open = TRUE, !.valid = TRUE, !.rrq = rrq]
               /\ dev' = [NewDev EXCEPT !.rx = rx]
          /\ wm' = Post("COMMOPEN")

\* SetCommMask ends a WaitCommEvent, with success.
MaskChanged ==
    [t \in DOMAIN threads |->
       IF threads[t].at = "pending" THEN [threads[t] EXCEPT !.at = "seen"] ELSE threads[t]]

CommClose ==
    /\ cv' = IF cv.open THEN [cv EXCEPT !.open = FALSE, !.ready = FALSE, !.rrq = FALSE,
                                        !.in = 0, !.valid = FALSE]
             ELSE [cv EXCEPT !.ready = FALSE]
    /\ dev' = IF cv.open THEN NewDev ELSE dev
    /\ threads' = IF cv.valid THEN MaskChanged ELSE threads

-----------------------------------------------------------------------------
(* The user and the macro.                                                 *)

\* OnFileNewConnection, or OnCommStart for the macro's "connect".
NewConnection ==
    /\ Dispatching /\ ~Connecting /\ ~cv.open
    /\ \E p \in Ports : CommOpen(p)
    /\ Connecting' = TRUE
    /\ UNCHANGED <<setup, TCPIPClosed, timers, threads, event, other, counters>>

\* One is on its way at a time.
Disconnect ==
    /\ Dispatching /\ cv.ready /\ ~Posted("FD_CLOSE") /\ "ComEnd" \notin timers
    /\ wm' = Post("FD_CLOSE")
    /\ UNCHANGED <<setup, cv, dev, event, window, threads, other, counters>>

\* OnSetupSerialPort with another port: CommClose and CommOpen.
OnSetupSerialPort ==
    /\ Dispatching /\ Kind = "serial" /\ ~Connecting /\ cv.open
    /\ \E p \in Ports \ {cv.port} : CommOpen(p)
    /\ threads' = MaskChanged
    /\ UNCHANGED <<setup, Connecting, TCPIPClosed, timers, event, other, counters>>

\* CommResetSerial empties the driver's buffer and InBuff.
CommResetSerial ==
    /\ Dispatching /\ Kind = "serial" /\ cv.ready /\ resets < MaxResets
    /\ resets' = resets + 1
    /\ cv' = [cv EXCEPT !.in = 0]
    /\ dev' = [dev EXCEPT !.rx = 0, !.told = FALSE]
    /\ threads' = MaskChanged
    /\ UNCHANGED <<setup, wm, event, window, other, sent>>

-----------------------------------------------------------------------------
(* The window's messages, timers and OnIdle.                                *)

Handles(type) == Dispatching /\ wm # <<>> /\ Head(wm).type = type

\* AsyncConnect; OpenSocket succeeds.
AsyncConnect(c, a) ==
    /\ cv' = [c EXCEPT !.addr = a, !.valid = TRUE]
    /\ dev' = [NewDev EXCEPT !.dialled = TRUE]
    /\ timers' = timers \cup (IF setup.timeout THEN {"CancelConnect"} ELSE {})

\* WM_USER_GETHOST: CommOpen goes on, or fails.
GotHost ==
    /\ Handles("GETHOST") /\ at' = "loop"
    /\ \/ Head(wm).err /\ wm' = Append(Tail(wm), Msg("FD_CLOSE", FALSE)) /\ UNCHANGED <<cv, dev, timers>>
       \/ ~Head(wm).err /\ wm' = Tail(wm) /\ AsyncConnect(cv, 1)
    /\ UNCHANGED <<setup, event, Connecting, TCPIPClosed, threads, other, counters>>

\* WM_USER_COMMOPEN: OnCommOpen with CommStart.
StartIgnored ==
    /\ ~cv.open \/ cv.ready
    /\ wm' = Tail(wm) /\ UNCHANGED <<cv, dev, at, TCPIPClosed, timers, threads>>

Starts == cv.open /\ ~cv.ready

NextAddress ==
    /\ Starts /\ Kind = "tcp" /\ Head(wm).err /\ cv.addr < MaxAddrs
    /\ AsyncConnect(cv, cv.addr + 1)
    /\ wm' = Tail(wm) /\ UNCHANGED <<at, TCPIPClosed, threads>>

ConnectFails ==
    /\ Starts /\ Kind = "tcp" /\ Head(wm).err /\ cv.addr = MaxAddrs
    /\ cv' = [cv EXCEPT !.retry = FALSE]
    /\ timers' = timers \ {"CancelConnect"}
    /\ wm' = Append(Tail(wm), Msg("FD_CLOSE", FALSE)) /\ UNCHANGED <<dev, at, TCPIPClosed, threads>>

Connected_RetryKept ==
    /\ Starts /\ Kind = "tcp" /\ ~Head(wm).err
    /\ LET s == Select([State EXCEPT !.wm = Tail(@)])
       IN  wm' = s.wm /\ dev' = s.dev /\ cv' = [s.cv EXCEPT !.ready = TRUE]
    /\ TCPIPClosed' = FALSE
    /\ timers' = timers \ {"CancelConnect"} /\ UNCHANGED <<at, threads>>
Connected ==
    /\ Starts /\ Kind = "tcp" /\ ~Head(wm).err
    /\ LET s == Select([State EXCEPT !.wm = Tail(@)])
       IN  wm' = s.wm /\ dev' = s.dev /\ cv' = [s.cv EXCEPT !.retry = FALSE, !.ready = TRUE]
    /\ TCPIPClosed' = FALSE
    /\ timers' = timers \ {"CancelConnect"} /\ UNCHANGED <<at, threads>>

\* The thread is created before cv.Ready is set.
CreatesThread ==
    /\ Starts /\ Kind # "tcp"
    /\ threads' = Append(threads, [conn |-> cv.conn, at |-> "start", ev |-> cv.port, data |-> FALSE])
    /\ at' = "starting" /\ wm' = Tail(wm)
    /\ UNCHANGED <<cv, dev, TCPIPClosed, timers>>

OnCommOpen ==
    /\ Handles("COMMOPEN")
    /\ StartIgnored \/ NextAddress \/ ConnectFails \/ Connected \/ CreatesThread
    /\ Connecting' = IF at' = "starting" THEN Connecting ELSE (Kind = "tcp" /\ cv'.retry)
    /\ UNCHANGED <<setup, event, other, counters>>

Started ==
    /\ at = "starting" /\ at' = "loop"
    /\ cv' = [cv EXCEPT !.ready = TRUE] /\ Connecting' = FALSE
    /\ UNCHANGED <<setup, wm, dev, event, TCPIPClosed, timers, threads, other, counters>>

FdRead == Handles("FD_READ") /\ Becomes(CommProcRRQ([State EXCEPT !.wm = Tail(@)]))

FdClose ==
    /\ Handles("FD_CLOSE") /\ wm' = Tail(wm)
    /\ Connecting' = FALSE /\ TCPIPClosed' = TRUE /\ timers' = timers \cup {"ComEnd"}
    /\ UNCHANGED <<setup, cv, dev, event, at, threads, other, counters>>

\* IdComEndTimer with CommCanClose: it waits as long as received data remains.
ComEnd ==
    /\ Dispatching /\ wm = <<>> /\ "ComEnd" \in timers /\ (cv.open => cv.in = 0)
    /\ timers' = timers \ {"ComEnd"} /\ CommClose
    /\ UNCHANGED <<setup, wm, event, at, Connecting, TCPIPClosed, other, counters>>

\* IdCancelConnectTimer closes the socket; a closed socket tells nothing more.
CancelConnect ==
    /\ Dispatching /\ wm = <<>> /\ "CancelConnect" \in timers
    /\ timers' = timers \ {"CancelConnect"}
    /\ IF cv.ready THEN UNCHANGED <<cv, dev>> ELSE cv' = [cv EXCEPT !.valid = FALSE] /\ dev' = NewDev
    /\ UNCHANGED <<setup, wm, event, at, Connecting, TCPIPClosed, threads, other, counters>>

\* OnIdle: VTParse takes from InBuff, then CommReceive.
OnIdle ==
    /\ at = "loop" /\ wm = <<>> /\ cv.ready /\ (cv.in > 0 \/ cv.rrq)
    /\ \E left \in 0..cv.in :
         /\ cv.in > 0 => left < cv.in
         /\ Becomes(CommReceive([State EXCEPT !.cv.in = left]))

\* The ReadFile of a pipe ends.
ReadEnds ==
    /\ at = "reading" /\ (dev.rx > 0 \/ dev.broken)
    /\ Becomes(ReceivePipe(State))

-----------------------------------------------------------------------------
(* The reader threads.                                                     *)

Goes(t, to) == threads' = [threads EXCEPT ![t].at = to]
Ends(t) == Goes(t, "over")
Asks == IF Kind = "serial" THEN "call" ELSE "peek"

\* WaitCommEvent allows one thread at a time.
CallsWait(t) ==
    /\ threads[t].at = "call"
    /\ \/ cv.valid /\ dev.told /\ Goes(t, "seen") /\ dev' = [dev EXCEPT !.told = FALSE]
       \/ /\ cv.valid /\ ~dev.told /\ \A u \in DOMAIN threads : threads[u].at # "pending"
          /\ Goes(t, "pending") /\ UNCHANGED dev
       \/ ~cv.valid /\ ~cv.ready /\ Ends(t) /\ UNCHANGED dev
    /\ UNCHANGED <<wm, event>>

CommEvent(t) ==
    /\ threads[t].at = "pending" /\ dev.told
    /\ Goes(t, "seen") /\ dev' = [dev EXCEPT !.told = FALSE] /\ UNCHANGED <<wm, event>>

\* PeekNamedPipe fails for a closed handle and for a broken pipe that is empty.
Peeks(t) ==
    /\ threads[t].at = "peek"
    /\ threads' = [threads EXCEPT
         ![t].at = CASE ~cv.valid -> "failed" [] cv.valid /\ dev.broken /\ dev.rx = 0 -> "broken" [] OTHER -> "seen",
         ![t].data = cv.valid /\ dev.rx > 0]
    /\ UNCHANGED <<wm, dev, event>>

PeekFailed(t) ==
    /\ \/ threads[t].at = "failed" /\ cv.ready /\ Goes(t, "peek") /\ UNCHANGED wm
       \/ threads[t].at = "failed" /\ ~cv.ready /\ Ends(t) /\ wm' = Post("FD_CLOSE")
       \/ threads[t].at = "broken" /\ Ends(t) /\ wm' = Post("FD_CLOSE")
    /\ UNCHANGED <<dev, event>>

\* The name of ReadEnd is that of cv's port as the thread begins to run.
Begins(t) ==
    /\ threads[t].at = "start"
    /\ threads' = [threads EXCEPT ![t].at = Asks, ![t].ev = cv.port]
    /\ UNCHANGED <<wm, dev, event>>

\* A thread that finds the port not ready ends.
Checks(t) ==
    /\ threads[t].at = "seen"
    /\ CASE ~cv.ready -> Ends(t)
         [] cv.ready /\ ~threads[t].data /\ Kind = "pipe" -> Goes(t, Asks)
         [] OTHER -> Goes(t, "post")
    /\ UNCHANGED <<wm, dev, event>>

PostsRead(t) ==
    /\ threads[t].at = "post" /\ Goes(t, "wait")
    /\ wm' = IF cv.rrq THEN wm ELSE Post("FD_READ")
    /\ UNCHANGED <<dev, event>>

Wakes(t) ==
    /\ threads[t].at = "wait" /\ event[threads[t].ev] /\ Goes(t, Asks)
    /\ event' = [event EXCEPT ![threads[t].ev] = FALSE] /\ UNCHANGED <<wm, dev>>

ReaderThread(t) ==
    /\ \/ Begins(t) \/ CallsWait(t) \/ CommEvent(t) \/ Peeks(t) \/ PeekFailed(t)
       \/ Checks(t) \/ PostsRead(t) \/ Wakes(t)
    /\ UNCHANGED <<setup, cv, window, other, counters>>

-----------------------------------------------------------------------------
(* The other side: the lookup's thread, winsock, the driver, the host, and the *)
(* other window, whose thread and window do the same with the event.          *)

LookupEnds ==
    /\ at = "lookup" /\ ~Posted("GETHOST")
    /\ \E err \in BOOLEAN : wm' = Append(wm, Msg("GETHOST", err))
    /\ UNCHANGED <<setup, cv, dev, event, window, threads, other, counters>>

\* FD_CONNECT: the address answers, or does not.
ConnectAnswers ==
    /\ dev.dialled /\ dev' = [dev EXCEPT !.dialled = FALSE]
    /\ \E err \in BOOLEAN : wm' = Append(wm, Msg("COMMOPEN", err))
    /\ UNCHANGED <<setup, cv, event, window, threads, other, counters>>

Up == cv.valid /\ ~dev.broken /\ (Kind = "tcp" => cv.ready)
HostSends ==
    /\ Up /\ sent < MaxBytes /\ sent' = sent + 1
    /\ IF Kind = "tcp" /\ dev.told
       THEN dev' = [dev EXCEPT !.rx = @ + 1, !.told = FALSE] /\ wm' = Post("FD_READ")
       ELSE dev' = [dev EXCEPT !.rx = @ + 1, !.told = Kind = "serial"] /\ UNCHANGED wm
    /\ UNCHANGED <<setup, cv, event, window, threads, other, resets>>

HostCloses ==
    /\ Up /\ Kind # "serial"
    /\ dev' = [dev EXCEPT !.broken = TRUE]
    /\ wm' = IF Kind = "tcp" THEN Post("FD_CLOSE") ELSE wm
    /\ UNCHANGED <<setup, cv, event, window, threads, other, counters>>

OtherThread ==
    /\ setup.other
    /\ \/ ~other.waits /\ other.owed < 2 /\ other' = [waits |-> TRUE, owed |-> other.owed + 1] /\ UNCHANGED event
       \/ \E p \in PipePorts :
            \/ other.owed > 0 /\ other' = [other EXCEPT !.owed = @ - 1] /\ event' = [event EXCEPT ![p] = TRUE]
            \/ other.waits /\ event[p] /\ other' = [other EXCEPT !.waits = FALSE] /\ event' = [event EXCEPT ![p] = FALSE]
    /\ UNCHANGED <<setup, cv, wm, dev, window, threads, counters>>

-----------------------------------------------------------------------------
Init ==
    /\ setup \in Setups
    /\ cv = [conn |-> 0, open |-> FALSE, ready |-> FALSE, rrq |-> FALSE, port |-> CHOOSE p \in Ports : TRUE,
             valid |-> FALSE, in |-> 0, addr |-> 0, retry |-> FALSE]
    /\ at = "loop" /\ Connecting = FALSE /\ TCPIPClosed = TRUE /\ timers = {}
    /\ wm = <<>> /\ dev = NewDev /\ threads = <<>> /\ event = [p \in Ports |-> FALSE]
    /\ other = [waits |-> FALSE, owed |-> 0] /\ sent = 0 /\ resets = 0

User == NewConnection \/ Disconnect \/ OnSetupSerialPort \/ CommResetSerial
Messages == GotHost \/ OnCommOpen \/ FdRead \/ FdClose
Window == Messages \/ Started \/ ComEnd \/ CancelConnect \/ OnIdle \/ ReadEnds

Next ==
    \/ User \/ Window \/ (\E t \in DOMAIN threads : ReaderThread(t))
    \/ LookupEnds \/ ConnectAnswers \/ HostSends \/ HostCloses \/ OtherThread

Spec == Init /\ [][Next]_vars

\* The window's thread goes on, and no part of it keeps the others from their turn; every
\* reader thread runs; every lookup and every connect is answered.
Fairness ==
    /\ WF_vars(Window) /\ WF_vars(LookupEnds \/ ConnectAnswers)
    /\ \A t \in 1..MaxOpens : WF_vars(t \in DOMAIN threads /\ ReaderThread(t))
FairSpec == Spec /\ Fairness

-----------------------------------------------------------------------------
(* Properties.                                                             *)

\* The port is this window's alone, and its reader thread has not ended: it ends when it
\* runs before CommStart has set cv.Ready, and nothing starts another.
Reader(t) == threads[t].conn = cv.conn /\ threads[t].at # "over"
HasReader == ~setup.other /\ cv.ready /\ (Kind = "tcp" \/ \E t \in DOMAIN threads : Reader(t))

\* What the host has sent is read, whatever threads of closed connections are left and
\* however the event is passed between them, until the port is closed.  A serial port's
\* data is read when the driver tells of some: a thread that is left may have taken what
\* it told before the port was ready.
HostRead ==
    (HasReader /\ dev.rx > 0 /\ (Kind = "serial" => dev.told)) ~> (dev.rx = 0 \/ ~cv.ready)

\* Without a time limit every attempt to connect comes to an end: the window can be used
\* for another connection.
ConnectEnds == (Connecting /\ ~setup.timeout) ~> ~Connecting

\* "Timeout will occur if connection does not succeed within five seconds"
\* (doc/en/html/macro/command/connect.html): a time limit ends an attempt too.  The code does
\* not keep this: see README.
LimitEndsConnect == (Connecting /\ setup.timeout) ~> ~Connecting

\* At least one byte is known to be in the queue, so that ReadFile does not block
\* (commlib.c:974).  The code does not keep this with a pipe in another window: see README.
PipeNeverBlocks == at # "reading"
=============================================================================
