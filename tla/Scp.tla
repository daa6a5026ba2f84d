-------------------------------- MODULE Scp --------------------------------
(***************************************************************************)
(* SCP transfers of TTSSH (ssh.c): the window thread, which handles what the *)
(* server sends and owns the channels, a thread per transfer, which reads or *)
(* writes the local file, and the user's dialog between them.                *)
(*                                                                         *)
(* SendMessage to the dialog is a step of the thread and of the window       *)
(* thread, which must be in its message loop; to a destroyed window it       *)
(* returns at once.  Deleting a channel ends with a wait for its thread, and *)
(* the window thread does nothing else until then.                           *)
(*                                                                         *)
(* A file is so many chunks, which is also the unit of the windows; the "T", *)
(* "C" and status messages are small: they need room but take none.  Key     *)
(* exchange is left out, and so are time stamps and the progress shown.      *)
(***************************************************************************)
EXTENDS Naturals, FiniteSets, SequencesExt

CONSTANTS
    Uploads, Downloads,  \* transfers that may be started, each in a channel of its own
    Dropped,             \* the uploads that wait in the list of dropped files
    Plans,               \* bound: sets of transfers that are started, with their files' lengths
    ServerWindow,        \* what the server grants when it has started scp
    LocalWindow          \* CHAN_SES_WINDOW_DEFAULT

Transfer == Uploads \cup Downloads

ScpAssumption ==
    /\ Uploads \cap Downloads = {} /\ Dropped \subseteq Uploads /\ IsFiniteSet(Transfer)
    /\ \A plan \in Plans : DOMAIN plan \subseteq Transfer /\ \A t \in DOMAIN plan : plan[t] \in Nat
    /\ ServerWindow \in Nat \ {0, 1} /\ LocalWindow \in Nat \ {0}

VARIABLES
    chan,        \* the channels[] entry of each transfer
    thr,         \* its thread
    disk,        \* the local files; "sent" and "kept" tell what became of them
    closed,      \* static of ssh_scp_dlg_proc, one for all dialogs
    sending,     \* g_scp_sending
    up,          \* pvar->socket is valid
    deleting,    \* channels that ssh2_channel_delete is called for, in order
    srv,         \* the server's end of each transfer
    toServer, toClient

vars == <<chan, thr, disk, closed, sending, up, deleting, srv, toServer, toClient>>

-----------------------------------------------------------------------------
\* What CHANNEL_DATA carries: a status is "0" (OK), "err" (1) or "fatal" (2), which the
\* server may put into one packet with the last chunk.
Chunk(i, status) == [kind |-> "chunk", n |-> i, status |-> status]
Small(kind) == [kind |-> kind, n |-> 0, status |-> TRUE]
FileInfo(size) == [kind |-> "C", n |-> size, status |-> FALSE]

Data(item) == [kind |-> "DATA", item |-> item, n |-> 0]
Plain(kind) == [kind |-> kind, item |-> Small("none"), n |-> 0]
Adjust(n) == [kind |-> "ADJUST", item |-> Small("none"), n |-> n]

Cost(item) == IF item.kind = "chunk" THEN 1 ELSE 0
Chunks(items) == Len(SelectSeq(items, LAMBDA item : item.kind = "chunk"))
InOrder(s) == \A i \in DOMAIN s : s[i] = i

Free == [used |-> FALSE, rwin |-> 0, chain |-> <<>>, lwin |-> 0, closeSent |-> FALSE,
         state |-> "INIT", fp |-> FALSE, win |-> FALSE, list |-> <<>>, rcv |-> 0, size |-> 0]

\* ssh2_channel_new, and the local file opened.
New(size) == [Free EXCEPT !.used = TRUE, !.lwin = LocalWindow, !.fp = TRUE, !.size = size]

Init ==
    /\ chan = [t \in Transfer |-> Free]
    /\ thr = [t \in Transfer |-> [pc |-> "none", read |-> 0]]
    /\ closed = FALSE /\ sending = FALSE /\ up = TRUE /\ deleting = <<>>
    /\ \E plan \in Plans :
        LET len(t, side) == IF t \in side \cap DOMAIN plan THEN plan[t] ELSE 0
        IN  /\ disk = [t \in Transfer |-> [file |-> IF t \in DOMAIN plan THEN "planned" ELSE "none",
                                          data |-> <<>>, len |-> len(t, Uploads)]]
            /\ srv = [t \in Transfer |-> [phase |-> "idle", step |-> 0, got |-> <<>>,
                                         size |-> len(t, Downloads), owed |-> 0, win |-> 0]]
    /\ toServer = [t \in Transfer |-> <<>>] /\ toClient = [t \in Transfer |-> <<>>]

-----------------------------------------------------------------------------
(* Sending on a channel. *)

\* SSH2_send_channel_data keeps the message when others wait or the window has no room.
Queues_NoRoom(c) == c.rwin = 0
Queues(c) == c.chain # <<>> \/ c.rwin = 0

SendData(c, item) ==
    IF Queues(c) THEN [c |-> [c EXCEPT !.chain = Append(@, item)], out |-> <<>>]
    ELSE [c |-> [c EXCEPT !.rwin = @ - Cost(item)], out |-> <<Data(item)>>]

\* ssh2_channel_retry_send_bufchain stops at the first message that does not leave room.
Retry(c) ==
    LET room(i) == c.rwin - Chunks(SubSeq(c.chain, 1, i - 1))
        k == Max({0} \cup {j \in DOMAIN c.chain : \A i \in 1..j : room(i) > Cost(c.chain[i])})
        sent == SubSeq(c.chain, 1, k)
    IN  [c |-> [c EXCEPT !.chain = SubSeq(@, k + 1, Len(@)), !.rwin = @ - Chunks(sent)],
         out |-> [i \in 1..k |-> Data(sent[i])]]

\* ssh2_channel_send_close, once.
SendClose(c) == [c |-> [c EXCEPT !.closeSent = TRUE],
                 out |-> IF c.closeSent THEN <<>> ELSE <<Plain("CLOSE")>>]

Still(c) == [c |-> c, out |-> <<>>]

\* The data was consumed, and do_SSH2_adjust_window_size gives the window back at half of it.
Consumed(r, item) ==
    LET left == r.c.lwin - Cost(item)
    IN  IF left > LocalWindow \div 2 THEN [r EXCEPT !.c.lwin = left]
        ELSE [c |-> [r.c EXCEPT !.lwin = LocalWindow], out |-> Append(r.out, Adjust(LocalWindow - left))]

Sends(t, r) ==
    /\ chan' = [chan EXCEPT ![t] = r.c]
    /\ toServer' = [toServer EXCEPT ![t] = @ \o r.out]

-----------------------------------------------------------------------------
(* Starting a transfer. *)

InLoop == deleting = <<>>
Startable(t) == InLoop /\ up /\ disk[t].file = "planned"

\* Dropped files wait until nothing is being sent (IdScpSendingTimer).
SSH_scp_transaction(t) ==
    /\ Startable(t)
    /\ t \in Dropped => ~sending
    /\ chan' = [chan EXCEPT ![t] = New(disk[t].len)]
    /\ disk' = [disk EXCEPT ![t].file = "open"]
    /\ sending' = TRUE
    /\ toServer' = [toServer EXCEPT ![t] = <<Plain("OPEN")>>]
    /\ UNCHANGED <<thr, closed, up, deleting, srv, toClient>>

\* The local file cannot be opened: the new channel is deleted, and with it the flag.
CannotOpenFile(t) ==
    /\ Startable(t) /\ sending
    /\ t \notin Dropped
    /\ sending' = FALSE
    /\ UNCHANGED <<chan, thr, disk, closed, up, deleting, srv, toServer, toClient>>

-----------------------------------------------------------------------------
(* The window thread handles what the server sends. *)

\* SSH2_scp_toremote, and the error path of SSH2_scp_response.
ToRemote(c, item) ==
    IF item.kind = "err" THEN SendClose(c)
    ELSE IF item.kind = "fatal" THEN Still(c)
    ELSE CASE c.state = "INIT"      -> SendData([c EXCEPT !.state = "TIMESTAMP"], Small("T"))
           [] c.state = "TIMESTAMP" -> SendData([c EXCEPT !.state = "FILEINFO"], FileInfo(c.size))
           [] c.state = "FILEINFO"  -> Still([c EXCEPT !.win = TRUE])
           [] c.state = "DATA"      -> SendClose(c)
           [] OTHER -> Still(c)

\* SSH2_scp_fromremote.
FromRemote(c, item) ==
    CASE c.state = "INIT" /\ item.kind = "T" -> SendData(c, Small("0"))
      [] c.state = "INIT" /\ item.kind = "C" ->
            SendData([c EXCEPT !.size = item.n, !.state = "DATA", !.win = TRUE], Small("0"))
      [] c.state = "INIT" /\ item.kind = "err" -> SendClose(c)
      [] c.state = "DATA" -> Still([c EXCEPT !.list = Append(@, item)])
      [] c.state = "CLOSING" -> SendClose(c)
      [] OTHER -> Still(c)

\* A dialog and a thread are created; WM_INITDIALOG resets the flag of all dialogs.
Begins(t, c) == ~chan[t].win /\ c.win

SSH2_scp_response(t, item) ==
    LET r == IF t \in Uploads THEN ToRemote(chan[t], item) ELSE FromRemote(chan[t], item)
        sent == t \in Uploads /\ item.kind = "0" /\ chan[t].state = "DATA"
    IN  /\ Sends(t, Consumed(r, item))
        /\ thr' = IF Begins(t, r.c) THEN [thr EXCEPT ![t].pc = "poll"] ELSE thr
        /\ closed' = (closed /\ ~Begins(t, r.c))
        /\ disk' = IF sent THEN [disk EXCEPT ![t].file = "sent"] ELSE disk
        /\ UNCHANGED deleting

\* handle_SSH2_open_confirm asks for scp; a download's first status waits for the window.
OpenConfirm(t, rwin) ==
    LET c == [chan[t] EXCEPT !.rwin = rwin]
        r == IF t \in Downloads THEN SendData(c, Small("0")) ELSE Still(c)
    IN  Sends(t, [r EXCEPT !.out = <<Plain("EXEC")>> \o @]) /\ UNCHANGED <<thr, disk, closed, deleting>>

WindowAdjust(t, n) ==
    /\ Sends(t, Retry([chan[t] EXCEPT !.rwin = @ + n]))
    /\ UNCHANGED <<thr, disk, closed, deleting>>

\* handle_SSH2_open_failure, _channel_failure and _channel_close delete the channel: a
\* CLOSE of the server is not answered.
Deletes(t) == deleting' = <<t>> /\ UNCHANGED <<chan, thr, disk, closed, toServer>>

ClientTakes(t) ==
    /\ InLoop /\ up /\ toClient[t] # <<>>
    /\ toClient' = [toClient EXCEPT ![t] = Tail(@)]
    /\ UNCHANGED <<sending, up, srv>>
    /\ LET m == Head(toClient[t])
       IN  \/ m.kind = "CONFIRM" /\ OpenConfirm(t, m.n)
           \/ m.kind = "ADJUST"  /\ WindowAdjust(t, m.n)
           \/ m.kind = "DATA"    /\ SSH2_scp_response(t, m.item)
           \/ m.kind \in {"OPEN_FAILURE", "FAILURE", "CLOSE"} /\ Deletes(t)

\* The connection ends: TTXCloseTCP deletes every channel (ssh2_channel_free).
CloseTCP ==
    /\ InLoop /\ up
    /\ up' = FALSE
    /\ deleting' = SetToSeq({t \in Transfer : chan[t].used})
    /\ toServer' = [t \in Transfer |-> <<>>] /\ toClient' = [t \in Transfer |-> <<>>]
    /\ UNCHANGED <<chan, thr, disk, closed, sending, srv>>

\* The beginning of ssh2_channel_delete: the file is closed, a download's is removed unless
\* its thread was done with it, and the dialog is destroyed.
DeleteBegins(t) ==
    /\ deleting # <<>> /\ t = Head(deleting) /\ chan[t].fp
    /\ chan' = [chan EXCEPT ![t].state = "CLOSING", ![t].fp = FALSE, ![t].win = FALSE, ![t].chain = <<>>]
    /\ disk' = IF t \in Uploads THEN disk
               ELSE [disk EXCEPT ![t].file = IF chan[t].state = "CLOSING" THEN "kept" ELSE "removed"]
    /\ UNCHANGED <<thr, closed, sending, up, deleting, srv, toServer, toClient>>

\* Its end, after WaitForSingleObject of the thread.
DeleteEnds(t) ==
    /\ deleting # <<>> /\ t = Head(deleting) /\ ~chan[t].fp
    /\ thr[t].pc \in {"none", "end"}
    /\ chan' = [chan EXCEPT ![t] = Free]
    /\ sending' = FALSE
    /\ deleting' = Tail(deleting)
    /\ UNCHANGED <<thr, disk, closed, up, srv, toServer, toClient>>

-----------------------------------------------------------------------------
(* The dialog and the threads. *)

\* IDCANCEL of a dialog that is shown.
Cancel(t) ==
    /\ InLoop /\ chan[t].win /\ thr[t].pc \in {"poll", "room", "send"}
    /\ ~closed /\ closed' = TRUE
    /\ UNCHANGED <<chan, thr, disk, sending, up, deleting, srv, toServer, toClient>>

\* SendMessage returns: the window thread takes it, or the window is gone.
Returns(t) == chan[t].win => InLoop
Cancelled(t) == chan[t].win /\ closed           \* is_canceled_window

Goes(t, pc) == thr' = [thr EXCEPT ![t].pc = pc]
ThreadOnly == UNCHANGED <<closed, sending, up, deleting, srv, toClient>>

\* Both threads begin every round with the question whether the user cancelled.
SeesCancel(t) ==
    /\ thr[t].pc = "poll" /\ Returns(t) /\ Cancelled(t)
    /\ Goes(t, "close")
    /\ ThreadOnly /\ UNCHANGED <<chan, disk, toServer>>

\* ssh_scp_thread reads the file; at its end, or when it was closed meanwhile, it is done.
Reads(t) ==
    /\ t \in Uploads /\ thr[t].pc = "poll" /\ Returns(t) /\ ~Cancelled(t)
    /\ IF chan[t].fp /\ thr[t].read < chan[t].size
       THEN thr' = [thr EXCEPT ![t] = [pc |-> "room", read |-> @.read + 1]] /\ chan' = chan
       ELSE Goes(t, "last") /\ chan' = [chan EXCEPT ![t].state = "DATA"]
    /\ ThreadOnly /\ UNCHANGED <<disk, toServer>>

\* The socket or the channel is closed.
Aborts_Socket(t) == ~up
Aborts(t) == ~up \/ chan[t].state = "CLOSING" \/ ~chan[t].used

\* It waits for the window, for a hundred times 100 ms and no longer.
WaitsForRoom(t) ==
    /\ t \in Uploads /\ thr[t].pc = "room"
    /\ \/ Aborts(t) /\ Goes(t, "end")
       \/ ~Aborts(t) /\ chan[t].rwin > 0 /\ Goes(t, "send")
    /\ ThreadOnly /\ UNCHANGED <<chan, disk, toServer>>

StopsWaiting(t) ==
    /\ t \in Uploads /\ thr[t].pc = "room" /\ ~Aborts(t) /\ chan[t].rwin = 0
    /\ Goes(t, "send")
    /\ ThreadOnly /\ UNCHANGED <<chan, disk, toServer>>

\* WM_SENDING_FILE and WM_CHANNEL_CLOSE do nothing when the window is gone.
Message(t, r) == Sends(t, IF chan[t].win THEN r ELSE Still(chan[t]))

SendsChunk(t) ==
    /\ thr[t].pc = "send" /\ Returns(t)
    /\ Message(t, SendData(chan[t], Chunk(thr[t].read, FALSE)))
    /\ Goes(t, "poll")
    /\ ThreadOnly /\ UNCHANGED disk

SendsLast(t) ==
    /\ thr[t].pc = "last" /\ Returns(t)
    /\ Message(t, SendData(chan[t], Small("0")))
    /\ Goes(t, "end")
    /\ ThreadOnly /\ UNCHANGED disk

Closes(t) ==
    /\ thr[t].pc = "close" /\ Returns(t)
    /\ Message(t, SendClose(chan[t]))
    /\ Goes(t, "end")
    /\ ThreadOnly /\ UNCHANGED disk

\* ssh_scp_receive_thread is done with the status behind the file, whatever it says, and
\* neither the socket nor the channel's state is its concern.
Receives(t) ==
    /\ t \in Downloads /\ thr[t].pc = "poll" /\ Returns(t) /\ ~Cancelled(t)
    /\ chan[t].list # <<>>
    /\ LET item == Head(chan[t].list)
           full == chan[t].rcv >= chan[t].size
           done == full \/ item.status
       IN  /\ chan' = [chan EXCEPT ![t].list = Tail(@), ![t].rcv = IF full THEN @ ELSE @ + 1,
                                   ![t].state = IF done THEN "CLOSING" ELSE @]
           /\ disk' = IF full \/ ~chan[t].fp THEN disk ELSE [disk EXCEPT ![t].data = Append(@, item.n)]
           /\ Goes(t, IF done THEN "close" ELSE "poll")
    /\ ThreadOnly /\ UNCHANGED toServer

-----------------------------------------------------------------------------
(* The server: sshd with one scp for each channel. *)

Answers(t, msgs) == toClient' = [toClient EXCEPT ![t] = @ \o msgs]
Status(t, phase) == \* scp's answer to what it was sent, and whether it goes on
    \/ Answers(t, <<Data(Small("0"))>>) /\ phase = "run"
    \/ Answers(t, <<Data(Small("err"))>>) /\ phase = "erred"
    \/ Answers(t, <<Data(Small("fatal")), Plain("CLOSE")>>) /\ phase = "closed"

Sink(t, item) ==
    LET s == srv[t]
    IN  IF item.kind = "chunk"
        THEN /\ srv' = [srv EXCEPT ![t].owed = @ + 1, ![t].got = IF s.phase = "run" THEN Append(@, item.n) ELSE @]
             /\ UNCHANGED toClient
        ELSE IF s.phase # "run" THEN UNCHANGED <<srv, toClient>>
        ELSE \E phase \in {"run", "erred", "closed"} :
             /\ Status(t, phase)
             /\ (item.kind = "0" /\ Len(s.got) # s.size) => phase # "run"
             /\ srv' = [srv EXCEPT ![t].phase = phase, ![t].size = IF item.kind = "C" THEN item.n ELSE @]

Source(t) ==
    LET s == srv[t]
    IN  IF s.phase # "run" THEN UNCHANGED <<srv, toClient>>
        ELSE \/ /\ srv' = [srv EXCEPT ![t].step = @ + 1]
                /\ CASE s.step = 0 -> Answers(t, <<Data(Small("T"))>>)
                     [] s.step = 1 -> Answers(t, <<Data(FileInfo(s.size))>>)
                     [] OTHER -> UNCHANGED toClient
             \/ /\ s.step < 2
                /\ srv' = [srv EXCEPT ![t].phase = "erred"] /\ Answers(t, <<Data(Small("err"))>>)

ServerTakes(t) ==
    LET m == Head(toServer[t])
        phase == srv[t].phase
        Becomes(p) == srv' = [srv EXCEPT ![t].phase = p]
    IN  /\ up /\ toServer[t] # <<>> /\ ~(m.kind = "DATA" /\ phase = "freed")
        /\ toServer' = [toServer EXCEPT ![t] = Tail(@)]
        /\ UNCHANGED <<chan, thr, disk, closed, sending, up, deleting>>
        /\ \/ m.kind = "OPEN" /\ Becomes("open") /\ Answers(t, <<Plain("CONFIRM")>>)
           \/ m.kind = "OPEN" /\ Becomes("failed") /\ Answers(t, <<Plain("OPEN_FAILURE")>>)
           \/ m.kind = "EXEC" /\ Becomes("failed") /\ Answers(t, <<Plain("FAILURE")>>)
           \/ /\ m.kind = "EXEC" /\ srv' = [srv EXCEPT ![t].phase = "run", ![t].win = LocalWindow]
              /\ Answers(t, <<Adjust(ServerWindow)>> \o IF t \in Uploads THEN <<Data(Small("0"))>> ELSE <<>>)
           \/ m.kind = "ADJUST" /\ srv' = [srv EXCEPT ![t].win = @ + m.n] /\ UNCHANGED toClient
           \/ m.kind = "CLOSE" /\ Becomes("freed")
              /\ Answers(t, IF phase = "closed" THEN <<>> ELSE <<Plain("CLOSE")>>)
           \/ m.kind = "DATA" /\ IF t \in Uploads THEN Sink(t, m.item) ELSE Source(t)

\* Data for a channel that is closed on both sides: sshd ends the connection.
ServerDisconnects(t) ==
    /\ toServer[t] # <<>> /\ Head(toServer[t]).kind = "DATA" /\ srv[t].phase = "freed"
    /\ CloseTCP

ServerAdjusts(t) ==
    /\ up /\ srv[t].owed > 0 /\ srv[t].phase \in {"run", "erred"}
    /\ srv' = [srv EXCEPT ![t].owed = 0]
    /\ Answers(t, <<Adjust(srv[t].owed)>>)
    /\ UNCHANGED <<chan, thr, disk, closed, sending, up, deleting, toServer>>

\* A download's file and the status behind it.
ServerSends(t) ==
    LET s == srv[t]
        n == Len(s.got) + 1
    IN  /\ up /\ t \in Downloads /\ s.phase = "run" /\ s.step = 3
        /\ \/ /\ n <= s.size /\ s.win > 0
              /\ \E last \in {FALSE, n = s.size} :
                  /\ Answers(t, <<Data(Chunk(n, last))>>)
                  /\ srv' = [srv EXCEPT ![t].got = Append(@, n), ![t].win = @ - 1, ![t].step = IF last THEN 4 ELSE 3]
           \/ /\ n > s.size
              /\ \E kind \in {"0", "err"} : Answers(t, <<Data(Small(kind))>>)
              /\ srv' = [srv EXCEPT ![t].step = 4]
        /\ UNCHANGED <<chan, thr, disk, closed, sending, up, deleting, toServer>>

\* scp ends, and sshd closes the channel.
ServerCloses(t) ==
    /\ up /\ srv[t].phase \in {"run", "erred"}
    /\ srv' = [srv EXCEPT ![t].phase = "closed"]
    /\ Answers(t, <<Plain("CLOSE")>>)
    /\ UNCHANGED <<chan, thr, disk, closed, sending, up, deleting, toServer>>

-----------------------------------------------------------------------------
ClientStep(t) == ClientTakes(t) \/ DeleteBegins(t) \/ DeleteEnds(t)
ThreadStep(t) ==
    \/ SeesCancel(t) \/ Reads(t) \/ WaitsForRoom(t) \/ SendsChunk(t) \/ SendsLast(t) \/ Closes(t) \/ Receives(t)
ServerStep(t) == ServerTakes(t) \/ ServerDisconnects(t) \/ ServerAdjusts(t) \/ ServerSends(t)

Next ==
    \/ \E t \in Transfer :
        \/ SSH_scp_transaction(t) \/ CannotOpenFile(t) \/ Cancel(t) \/ StopsWaiting(t) \/ ServerCloses(t)
        \/ ClientStep(t) \/ ThreadStep(t) \/ ServerStep(t)
    \/ CloseTCP

Spec == Init /\ [][Next]_vars

\* The message loop and the threads run and the server answers; the user, the end of scp and
\* of the connection, and the hundred waits owe nothing.
Fairness == \A t \in Transfer :
    WF_vars(ClientStep(t)) /\ WF_vars(ThreadStep(t)) /\ WF_vars(ServerStep(t))
FairSpec == Spec /\ Fairness

-----------------------------------------------------------------------------
(* Properties. *)

\* A file is whole or it is not there: an upload that ended with the server's OK is on the
\* server with all its chunks in order, and a download whose file ssh2_channel_delete leaves
\* on the disk wrote all that the server's file has, in order.
FilesWhole == \A t \in Transfer :
    /\ InOrder(srv[t].got) /\ InOrder(disk[t].data)
    /\ disk[t].file = "sent" => Len(srv[t].got) = disk[t].len
    /\ disk[t].file = "kept" => Len(disk[t].data) = srv[t].size

\* The window thread waits for a receive thread that has nothing left to receive.
Hung == \E t \in Downloads :
    deleting # <<>> /\ t = Head(deleting) /\ ~chan[t].fp /\ thr[t].pc = "poll" /\ chan[t].list = <<>>

\* A transfer ends and its channel becomes free, whatever the user, the server and the
\* connection do, unless the window thread is caught by the end of a download (see README).
Ends == \A t \in Transfer : chan[t].used ~> (~chan[t].used \/ Hung)

\* The code does not keep this: see README.  The server's CLOSE is answered, without which
\* the server does not free the channel (ssh.c:9013).
CloseAnswered == \A t \in Transfer : up /\ srv[t].phase = "closed" ~> srv[t].phase = "freed" \/ ~up

\* The code does not keep this: see README.  Tera Term does not hang.
NeverHangs == ~Hung
=============================================================================
