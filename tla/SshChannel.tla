----------------------------- MODULE SshChannel -----------------------------
(***************************************************************************)
(* One SSH2 port-forwarding channel of TTSSH (local to remote), end to end: *)
(* the local application and its socket, the FWDChannel of fwd.c, the       *)
(* Channel_t of ssh.c with its windows and its bufchain, the two directions *)
(* of the SSH connection, and a conforming server.                          *)
(*                                                                         *)
(* TTSSH is single threaded: one window message or one SSH packet is        *)
(* handled at a time.  pc is "idle" between handlers; the loops of          *)
(* read_local_connection and ssh2_channel_retry_send_bufchain are taken one *)
(* iteration per step, so that the application and the server move between  *)
(* two iterations, as they do.                                              *)
(*                                                                         *)
(* Bytes are numbered from 0 in each direction.  The fields data and credit *)
(* of a message are history: the totals its sender had reached with it.     *)
(***************************************************************************)
EXTENDS Integers, Sequences

CONSTANTS
    AppBytes,        \* bound: bytes the local application ever writes; each
                     \* key re-exchange uses up one of them
    SrvBytes,        \* bound: bytes the remote side ever writes
    MaxRekeys,       \* bound: key re-exchanges started by the server
    BothWays,        \* bound: AppBytes, once the remote side has written
    ReadBuf,         \* CHANNEL_READ_BUF_SIZE
    HighWater,       \* FWD_HIGH_WATER_MARK
    LowWater,        \* FWD_LOW_WATER_MARK
    LocalWindow,     \* CHAN_TCP_WINDOW_DEFAULT, local_window_max
    ServerWindow,    \* the window the server offers and tops up to
    MaxPacket,       \* the largest DATA the server sends
    WriteBufferSize  \* session_settings.WriteBufferSize

ASSUME SizeAssumption ==
    /\ AppBytes \in Nat /\ SrvBytes \in Nat /\ MaxRekeys \in Nat
    /\ BothWays \in Nat
    /\ ReadBuf \in Nat \ {0} /\ HighWater \in Nat /\ LowWater \in Nat
    /\ LocalWindow \in Nat /\ ServerWindow \in Nat /\ MaxPacket \in Nat
    /\ WriteBufferSize \in Nat

VARIABLES
    \* the local application and its end of the socket
    appSent,         \* bytes the application wrote
    appEnd,          \* "open", "fin" (closed gracefully) or "reset"
    delivered,       \* bytes the local socket took from TTSSH
    shut,            \* shutdown(local_socket, 1) was called
    \* Winsock notifications posted to accept_wnd
    posted,          \* the FD_ events in the message queue
    readArmed,       \* FD_READ is enabled (re-enabled by recv)
    writeArmed,      \* FD_WRITE is enabled (re-enabled by a send that blocked)
    \* FWDChannel
    status,          \* the FWD_ flags; {} is a free entry
    sockOpen,        \* local_socket # INVALID_SOCKET
    writebuf,        \* writebuf.datalen
    \* Channel_t
    used,
    confirmed,       \* remote_id # SSH_CHANNEL_INVALID
    remote_window,
    local_window,
    bufchain,        \* the chunks waiting for remote window
    bufchain_amount,
    recv_suspended,
    close_sent,
    \* the connection
    rekeying,        \* kex_status has KEX_FLAG_REKEYING
    dataHandler,     \* SSH2_MSG_CHANNEL_DATA still has its handler
    pc,
    c2s, s2c,
    \* history of the client
    recvd,           \* bytes recv() returned
    sent,            \* bytes sent in DATA
    discarded,       \* bytes thrown away because of a key exchange
    granted,         \* window ever granted to the server
    gotCredit,       \* window ever received from the server
    gotData,         \* bytes received in DATA
    \* the server
    srv              \* a record, see ServerState

appVars  == <<appSent, appEnd>>
sockVars == <<posted, readArmed, writeArmed>>
downVars == <<delivered, shut, writebuf, gotData>>
upVars   == <<recvd, sent, discarded>>
chanVars == <<used, confirmed, close_sent>>
bufVars  == <<bufchain, bufchain_amount, recv_suspended>>
winVars  == <<remote_window, local_window, granted, gotCredit>>
kexVars  == <<rekeying, dataHandler>>

vars == <<appVars, sockVars, downVars, status, sockOpen, chanVars, winVars,
          bufVars, kexVars, pc, c2s, s2c, upVars, srv>>

MsgTypes == {"OPEN", "CONFIRM", "FAILURE", "DATA", "ADJUST", "EOF", "CLOSE",
             "KEXINIT", "NEWKEYS"}

Message == [type : MsgTypes, lo : Nat, n : Nat, data : Nat, credit : Nat]

Chunk == [lo : Nat, n : Nat \ {0}]

Both == {"REMOTE_CONNECTED", "LOCAL_CONNECTED"}

Flags == Both \cup {"CLOSED_REMOTE_IN", "CLOSED_LOCAL"}

ServerState ==
    [chan    : {"none", "asked", "open", "failed"},
     granted : Nat,      \* window ever granted to the client
     rcvd    : Nat,      \* bytes received in DATA
     next    : Nat,      \* one past the last byte received
     credit  : Nat,      \* window ever received from the client
     sent    : Nat,      \* bytes sent in DATA
     sentEof : BOOLEAN, sentClose : BOOLEAN,
     sawEof  : BOOLEAN, sawClose  : BOOLEAN,
     kex     : BOOLEAN,  \* between its KEXINIT and its NEWKEYS
     rekeys  : Nat]

UpMsg(type, lo, n, grant) ==
    [type |-> type, lo |-> lo, n |-> n,
     data   |-> IF type = "DATA" THEN sent + n ELSE sent,
     credit |-> granted + grant]

\* The window a message of the server grants.
Grant(type, n) == IF type \in {"CONFIRM", "ADJUST"} THEN n ELSE 0

DownMsg(type, lo, n) ==
    [type |-> type, lo |-> lo, n |-> n,
     data   |-> IF type = "DATA" THEN srv.sent + n ELSE srv.sent,
     credit |-> srv.granted + Grant(type, n)]

\* The bounds on what the two ends start.
Within(app, server, rekeys) ==
    /\ app + rekeys <= AppBytes /\ server <= SrvBytes /\ rekeys <= MaxRekeys
    /\ server > 0 => app + rekeys <= BothWays

Unread == appSent - recvd

Connected == Both \subseteq status

Init ==
    /\ appSent = 0 /\ appEnd = "open" /\ delivered = 0 /\ shut = FALSE
    /\ posted = {} /\ readArmed = FALSE /\ writeArmed = FALSE
    /\ status = {} /\ sockOpen = FALSE /\ writebuf = 0
    /\ used = FALSE /\ confirmed = FALSE /\ close_sent = FALSE
    /\ remote_window = 0 /\ local_window = 0 /\ granted = 0 /\ gotCredit = 0
    /\ bufchain = <<>> /\ bufchain_amount = 0 /\ recv_suspended = FALSE
    /\ rekeying = FALSE /\ dataHandler = TRUE
    /\ pc = "accept"
    /\ c2s = <<>> /\ s2c = <<>>
    /\ recvd = 0 /\ sent = 0 /\ discarded = 0 /\ gotData = 0
    /\ srv = [chan |-> "none", granted |-> 0, rcvd |-> 0, next |-> 0,
              credit |-> 0, sent |-> 0, sentEof |-> FALSE, sentClose |-> FALSE,
              sawEof |-> FALSE, sawClose |-> FALSE, kex |-> FALSE, rekeys |-> 0]

-----------------------------------------------------------------------------
(* The local application and Winsock.                                      *)

\* Data arrives at the socket; FD_READ is posted once, until recv re-enables it.
AppWrite ==
    /\ appEnd = "open" /\ Within(appSent + 1, srv.sent, srv.rekeys)
    /\ appSent' = appSent + 1
    /\ posted' = IF readArmed THEN posted \cup {"READ"} ELSE posted
    /\ readArmed' = FALSE
    /\ UNCHANGED <<appEnd, writeArmed, downVars, status, sockOpen, chanVars,
                   winVars, bufVars, kexVars, pc, c2s, s2c, upVars, srv>>

\* The application closes, gracefully or with a reset; FD_CLOSE is posted.
AppEnd ==
    /\ appEnd = "open"
    /\ appEnd' \in {"fin", "reset"}
    /\ posted' = IF sockOpen THEN posted \cup {"CLOSE"} ELSE posted
    /\ UNCHANGED <<appSent, readArmed, writeArmed, downVars, status, sockOpen,
                   chanVars, winVars, bufVars, kexVars, pc, c2s, s2c, upVars, srv>>

\* The peer drained the socket: FD_WRITE after a send that blocked.
SockWritable ==
    /\ writeArmed /\ sockOpen /\ appEnd # "reset"
    /\ writeArmed' = FALSE
    /\ posted' = posted \cup {"WRITE"}
    /\ UNCHANGED <<appVars, readArmed, downVars, status, sockOpen, chanVars,
                   winVars, bufVars, kexVars, pc, c2s, s2c, upVars, srv>>

-----------------------------------------------------------------------------
(* accept_local_connection and SSH_open_channel.                           *)

\* A Channel_t is set up and OPEN sent, unless a key exchange is running:
\* then the accepted socket is kept and nothing is sent.
Accept ==
    /\ pc = "accept"
    /\ pc' = "idle"
    /\ status' = {"LOCAL_CONNECTED"}
    /\ sockOpen' = TRUE
    /\ posted' = (IF Unread > 0 THEN {"READ"} ELSE {})
                 \cup (IF appEnd = "open" THEN {} ELSE {"CLOSE"})
                 \cup {"WRITE"}
    /\ readArmed' = (Unread = 0)
    /\ IF rekeying
         THEN UNCHANGED <<used, local_window, granted, c2s>>
         ELSE /\ used' = TRUE
              /\ local_window' = LocalWindow
              /\ granted' = granted + LocalWindow
              /\ c2s' = Append(c2s, UpMsg("OPEN", 0, 0, LocalWindow))
    /\ UNCHANGED <<appVars, writeArmed, downVars, confirmed, close_sent,
                   remote_window, gotCredit, bufVars, kexVars, s2c, upVars, srv>>

-----------------------------------------------------------------------------
(* Closing the local side.                                                 *)

\* closed_local_connection: the socket is closed, its queued notifications
\* are drained, and if both sides were connected EOF is sent; SSH2 drops the
\* EOF while keys are exchanged, the flags are set all the same.
ClosedLocalConnection ==
    /\ sockOpen' = FALSE
    /\ posted' = IF sockOpen THEN {} ELSE posted
    /\ readArmed' = (readArmed /\ ~sockOpen)
    /\ writeArmed' = (writeArmed /\ ~sockOpen)
    /\ status' = IF sockOpen /\ Connected THEN status \cup {"CLOSED_LOCAL"} ELSE status

ClosureSends == sockOpen /\ Connected /\ ~rekeying

OnClosedLocalConnection ==
    /\ ClosedLocalConnection
    /\ c2s' = IF ClosureSends THEN Append(c2s, UpMsg("EOF", 0, 0, 0)) ELSE c2s

-----------------------------------------------------------------------------
(* SSH_channel_send, SSH2_send_channel_data, ssh2_channel_add_bufchain.    *)

SendNow(lo, n) ==
    /\ c2s' = Append(c2s, UpMsg("DATA", lo, n, 0))
    /\ remote_window' = remote_window - n
    /\ sent' = sent + n

AddBufchain(lo, n) ==
    /\ bufchain' = Append(bufchain, [lo |-> lo, n |-> n])
    /\ bufchain_amount' = bufchain_amount + n
    /\ recv_suspended' = (recv_suspended \/ bufchain_amount + n >= HighWater)

Fits_AnyRoom(n) == remote_window > 0
Fits(n) == n <= remote_window

\* Chunks already waiting go first (the 2012.10.14 correction).
MustQueue_SkipsQueue(n) == ~Fits(n)
MustQueue(n) == bufchain # <<>> \/ ~Fits(n)

\* A fresh read: dropped while rekeying, queued behind earlier chunks or for
\* want of window, sent otherwise.
SendChannelData(lo, n) ==
    \/ /\ rekeying
       /\ discarded' = discarded + n
       /\ UNCHANGED <<bufVars, c2s, remote_window, sent>>
    \/ /\ ~rekeying
       /\ MustQueue(n)
       /\ AddBufchain(lo, n)
       /\ UNCHANGED <<c2s, remote_window, sent, discarded>>
    \/ /\ ~rekeying
       /\ ~MustQueue(n)
       /\ SendNow(lo, n)
       /\ UNCHANGED <<bufVars, discarded>>

-----------------------------------------------------------------------------
(* read_local_connection: the loop, one recv per step.                     *)

\* "reading" returns to the message loop, "closing" goes on to
\* closed_local_connection as FD_CLOSE does.
ReturnFromRead ==
    /\ pc' = "idle"
    /\ IF pc = "closing"
         THEN OnClosedLocalConnection
         ELSE UNCHANGED <<status, sockOpen, sockVars, c2s>>
    /\ UNCHANGED <<appVars, downVars, chanVars, winVars, bufVars, kexVars,
                   s2c, upVars, srv>>

ReadStops ==
    /\ pc \in {"reading", "closing"}
    /\ recv_suspended \/ (appEnd # "reset" /\ Unread = 0)
    /\ ReturnFromRead

\* recv fails: channel_error closes the local connection.
ReadFails ==
    /\ pc \in {"reading", "closing"}
    /\ ~recv_suspended /\ appEnd = "reset"
    /\ pc' = "idle"
    /\ OnClosedLocalConnection
    /\ UNCHANGED <<appVars, downVars, chanVars, winVars, bufVars, kexVars,
                   s2c, upVars, srv>>

ReadSome ==
    /\ pc \in {"reading", "closing"}
    /\ ~recv_suspended /\ appEnd # "reset" /\ Unread > 0
    /\ LET n == IF Unread < ReadBuf THEN Unread ELSE ReadBuf IN
         /\ recvd' = recvd + n
         /\ posted' = IF n < Unread THEN posted \cup {"READ"} ELSE posted
         /\ readArmed' = (n = Unread)
         /\ SendChannelData(recvd, n)
    /\ UNCHANGED <<appVars, writeArmed, downVars, status, sockOpen, chanVars,
                   local_window, granted, gotCredit, kexVars, pc, s2c, srv>>

OnFdRead ==
    /\ pc = "idle" /\ "READ" \in posted
    /\ posted' = posted \ {"READ"}
    /\ pc' = IF Connected THEN "reading" ELSE "idle"
    /\ UNCHANGED <<appVars, readArmed, writeArmed, downVars, status, sockOpen,
                   chanVars, winVars, bufVars, kexVars, c2s, s2c, upVars, srv>>

\* FD_CLOSE with an error is channel_error; without, whatever can be read is
\* read first.
OnFdClose ==
    /\ pc = "idle" /\ "CLOSE" \in posted
    /\ \/ /\ appEnd = "reset" \/ ~Connected
          /\ OnClosedLocalConnection
          /\ UNCHANGED pc
       \/ /\ appEnd = "fin" /\ Connected
          /\ posted' = posted \ {"CLOSE"}
          /\ pc' = "closing"
          /\ UNCHANGED <<status, sockOpen, readArmed, writeArmed, c2s>>
    /\ UNCHANGED <<appVars, downVars, chanVars, winVars, bufVars, kexVars,
                   s2c, upVars, srv>>

-----------------------------------------------------------------------------
(* Data for the local application.                                         *)

\* UTIL_sock_write_more sends until it blocks; the socket is shut down once
\* the remote EOF is in and the buffer is empty.
WriteMore ==
    \E k \in 0..writebuf :
        /\ delivered' = delivered + k
        /\ writebuf' = writebuf - k
        /\ writeArmed' = (k < writebuf)
        /\ shut' = (shut \/ (k = writebuf /\ "CLOSED_REMOTE_IN" \in status))

\* FD_WRITE: write_local_connection_buffer; a send that fails is channel_error.
OnFdWrite ==
    /\ pc = "idle" /\ "WRITE" \in posted
    /\ \/ /\ writebuf = 0 \/ ~Connected
          /\ posted' = posted \ {"WRITE"}
          /\ UNCHANGED <<delivered, shut, writebuf, status, sockOpen,
                         readArmed, writeArmed, c2s>>
       \/ /\ writebuf > 0 /\ Connected /\ appEnd = "reset"
          /\ OnClosedLocalConnection
          /\ UNCHANGED <<delivered, shut, writebuf>>
       \/ /\ writebuf > 0 /\ Connected /\ appEnd # "reset"
          /\ WriteMore
          /\ posted' = posted \ {"WRITE"}
          /\ UNCHANGED <<status, sockOpen, readArmed, c2s>>
    /\ UNCHANGED <<appVars, gotData, chanVars, winVars, bufVars, kexVars, pc,
                   s2c, upVars, srv>>

\* blocking_write takes the socket out of WSAAsyncSelect and puts it back, which
\* posts FD_READ for data that waits and FD_WRITE if there is room.
Reselect ==
    /\ \E more \in SUBSET {"WRITE"} :
         posted' = posted \cup more \cup (IF Unread > 0 THEN {"READ"} ELSE {})
    /\ readArmed' = (Unread = 0)

\* UTIL_sock_buffered_write: k bytes go out now.  With an empty buffer any
\* part may; a buffer with room takes everything and sends nothing; a full
\* one is first written out, blocking, far enough to take the rest.
SockBufferedWrite_Unarmed(n) ==
    \E k \in 0..n : /\ delivered' = delivered + k
                    /\ writebuf' = writebuf + n - k
                    /\ UNCHANGED <<writeArmed, posted, readArmed>>
SockBufferedWrite(n) ==
    LET total == writebuf + n
        least == IF total > WriteBufferSize THEN total - WriteBufferSize ELSE 0
        tries == writebuf = 0 \/ least > 0
    IN \E k \in least..(IF tries THEN total ELSE 0) :
         /\ delivered' = delivered + k
         /\ writebuf' = total - k
         /\ writeArmed' = (IF tries THEN k # total ELSE writeArmed)
         /\ \/ (least = 0 \/ writebuf = 0) /\ UNCHANGED <<posted, readArmed>>
            \/ least > 0 /\ Reselect

\* do_SSH2_adjust_window_size after local_window -= n.
AdjustDue(w) == w <= LocalWindow \div 2

AdjustBy_Whole(w) == LocalWindow
AdjustBy(w) == LocalWindow - w

\* FWD_received_data: a failing write closes the local side, and a closed one
\* ignores the data.
ReceivedData(n) ==
    \/ /\ sockOpen /\ appEnd # "reset"
       /\ SockBufferedWrite(n)
       /\ UNCHANGED <<status, sockOpen>>
    \/ /\ sockOpen /\ appEnd = "reset"
       /\ ClosedLocalConnection
       /\ UNCHANGED <<delivered, writebuf>>
    \/ /\ ~sockOpen
       /\ UNCHANGED <<delivered, writebuf, status, sockOpen, sockVars>>

ClosureQueue ==
    IF appEnd = "reset" /\ ClosureSends THEN Append(c2s, UpMsg("EOF", 0, 0, 0)) ELSE c2s

\* local_window -= str_len, then do_SSH2_adjust_window_size.
AdjustWindow(w) ==
    IF AdjustDue(w)
      THEN /\ c2s' = Append(ClosureQueue, UpMsg("ADJUST", 0, AdjustBy(w), AdjustBy(w)))
           /\ local_window' = LocalWindow
           /\ granted' = granted + AdjustBy(w)
      ELSE /\ c2s' = ClosureQueue
           /\ local_window' = w
           /\ UNCHANGED granted

Acceptable(n) == dataHandler /\ used /\ confirmed /\ n <= local_window

\* handle_SSH2_channel_data.  A DATA larger than local_window makes the
\* handler return FALSE, and SSH2_handle_packet then removes it for good.
RcvData ==
    /\ pc = "idle" /\ s2c # <<>> /\ Head(s2c).type = "DATA"
    /\ s2c' = Tail(s2c)
    /\ gotData' = gotData + Head(s2c).n
    /\ IF Acceptable(Head(s2c).n)
         THEN /\ ReceivedData(Head(s2c).n)
              /\ AdjustWindow(local_window - Head(s2c).n)
              /\ UNCHANGED dataHandler
         ELSE /\ dataHandler' = FALSE
              /\ UNCHANGED <<delivered, writebuf, status, sockOpen, sockVars,
                             local_window, granted, c2s>>
    /\ UNCHANGED <<appVars, shut, chanVars, remote_window, gotCredit, bufVars,
                   rekeying, pc, upVars, srv>>

ShutdownNow_Always == sockOpen
ShutdownNow == sockOpen /\ writebuf = 0

\* handle_SSH2_channel_eof: FWD_channel_input_eof shuts the socket down at
\* once, or leaves it to OnFdWrite when data is still buffered.
RcvEof ==
    /\ pc = "idle" /\ s2c # <<>> /\ Head(s2c).type = "EOF"
    /\ s2c' = Tail(s2c)
    /\ status' = IF status = {} THEN status ELSE status \cup {"CLOSED_REMOTE_IN"}
    /\ shut' = (shut \/ ShutdownNow)
    /\ UNCHANGED <<appVars, sockVars, delivered, writebuf, gotData, sockOpen,
                   chanVars, winVars, bufVars, kexVars, pc, c2s, upVars, srv>>

-----------------------------------------------------------------------------
(* Opening, window and closing messages from the server.                   *)

\* FWD_confirmed_open ends in read_local_connection.
AfterConfirm_Waits == "idle"
AfterConfirm == "reading"

\* handle_SSH2_open_confirm and FWD_confirmed_open: what the application
\* wrote meanwhile is read now; if it has gone, EOF is sent instead.
RcvConfirm ==
    /\ pc = "idle" /\ s2c # <<>> /\ Head(s2c).type = "CONFIRM"
    /\ s2c' = Tail(s2c)
    /\ confirmed' = TRUE
    /\ remote_window' = Head(s2c).n
    /\ gotCredit' = gotCredit + Head(s2c).n
    /\ IF sockOpen
         THEN /\ status' = status \cup {"REMOTE_CONNECTED"}
              /\ pc' = AfterConfirm
              /\ UNCHANGED c2s
         ELSE /\ status' = status \cup {"CLOSED_LOCAL"}
              /\ c2s' = IF rekeying THEN c2s ELSE Append(c2s, UpMsg("EOF", 0, 0, 0))
              /\ UNCHANGED pc
    /\ UNCHANGED <<appVars, sockVars, downVars, sockOpen, used, close_sent,
                   local_window, granted, bufVars, kexVars, upVars, srv>>

\* FWD_free_channel: the socket and the write buffer go, whatever it holds.
FreeFwd ==
    /\ status' = {} /\ sockOpen' = FALSE /\ writebuf' = 0
    /\ posted' = {} /\ readArmed' = FALSE /\ writeArmed' = FALSE

\* ssh2_channel_delete: the bufchain goes, the slot is zeroed.
ChannelDelete ==
    /\ used' = FALSE /\ confirmed' = FALSE
    /\ remote_window' = 0 /\ local_window' = 0
    /\ bufchain' = <<>> /\ bufchain_amount' = 0 /\ recv_suspended' = FALSE

\* handle_SSH2_open_failure.
RcvFailure ==
    /\ pc = "idle" /\ s2c # <<>> /\ Head(s2c).type = "FAILURE"
    /\ s2c' = Tail(s2c)
    /\ FreeFwd /\ ChannelDelete
    /\ UNCHANGED <<appVars, delivered, shut, gotData, close_sent, granted,
                   gotCredit, kexVars, pc, c2s, upVars, srv>>

\* ssh2_channel_send_close, once per channel.
SendClose_Never == UNCHANGED c2s
SendClose == c2s' = IF close_sent THEN c2s ELSE Append(c2s, UpMsg("CLOSE", 0, 0, 0))

\* handle_SSH2_channel_close for TYPE_PORTFWD.
RcvClose ==
    /\ pc = "idle" /\ s2c # <<>> /\ Head(s2c).type = "CLOSE"
    /\ s2c' = Tail(s2c)
    /\ SendClose
    /\ close_sent' = TRUE
    /\ FreeFwd /\ ChannelDelete
    /\ UNCHANGED <<appVars, delivered, shut, gotData, granted, gotCredit,
                   kexVars, pc, upVars, srv>>

\* handle_SSH2_window_adjust; a channel already freed is ignored.
RcvAdjust ==
    /\ pc = "idle" /\ s2c # <<>> /\ Head(s2c).type = "ADJUST"
    /\ s2c' = Tail(s2c)
    /\ gotCredit' = gotCredit + Head(s2c).n
    /\ IF used
         THEN /\ remote_window' = remote_window + Head(s2c).n
              /\ pc' = IF bufchain = <<>> THEN "idle" ELSE "retrying"
         ELSE UNCHANGED <<remote_window, pc>>
    /\ UNCHANGED <<appVars, sockVars, downVars, status, sockOpen, chanVars,
                   local_window, granted, bufVars, kexVars, c2s, upVars, srv>>

\* The loop stops at a chunk that is not smaller than the window.
CanRetry_Doubled(size) == 2 * size < remote_window
CanRetry(size) == size < remote_window

\* ssh2_channel_retry_send_bufchain, one chunk per step; like any
\* DATA it is thrown away, and its chunk freed, while keys are exchanged.
RetrySend ==
    /\ pc = "retrying" /\ bufchain # <<>> /\ CanRetry(Head(bufchain).n)
    /\ IF rekeying
         THEN /\ discarded' = discarded + Head(bufchain).n
              /\ UNCHANGED <<c2s, remote_window, sent>>
         ELSE /\ SendNow(Head(bufchain).lo, Head(bufchain).n)
              /\ UNCHANGED discarded
    /\ bufchain' = Tail(bufchain)
    /\ bufchain_amount' = bufchain_amount - Head(bufchain).n
    /\ UNCHANGED <<appVars, sockVars, downVars, status, sockOpen, chanVars,
                   local_window, granted, gotCredit, recv_suspended, kexVars,
                   pc, s2c, recvd, srv>>

\* FWD_suspend_resume_local_connection(TRUE): FD_READ is posted by hand, as
\* no recv will re-enable it.
ResumeRecv ==
    /\ recv_suspended' = FALSE
    /\ posted' = IF sockOpen THEN posted \cup {"READ"} ELSE posted

\* The end of that loop: a list it emptied lets reading resume.
RetryEnds ==
    /\ pc = "retrying" /\ ~(bufchain # <<>> /\ CanRetry(Head(bufchain).n))
    /\ pc' = "idle"
    /\ IF bufchain = <<>> /\ bufchain_amount <= LowWater
         THEN ResumeRecv
         ELSE UNCHANGED <<recv_suspended, posted>>
    /\ UNCHANGED <<appVars, readArmed, writeArmed, downVars, status, sockOpen,
                   chanVars, winVars, bufchain, bufchain_amount, kexVars, c2s,
                   s2c, upVars, srv>>

-----------------------------------------------------------------------------
(* Key re-exchange.  The messages between KEXINIT and NEWKEYS carry no      *)
(* channel state and are left out.                                          *)

RcvKexinit ==
    /\ pc \in {"idle", "accept"} /\ s2c # <<>> /\ Head(s2c).type = "KEXINIT"
    /\ s2c' = Tail(s2c)
    /\ rekeying' = TRUE
    /\ c2s' = Append(c2s, UpMsg("KEXINIT", 0, 0, 0))
    /\ UNCHANGED <<appVars, sockVars, downVars, status, sockOpen, chanVars,
                   winVars, bufVars, dataHandler, pc, upVars, srv>>

RcvNewkeys ==
    /\ pc \in {"idle", "accept"} /\ s2c # <<>> /\ Head(s2c).type = "NEWKEYS"
    /\ s2c' = Tail(s2c)
    /\ rekeying' = FALSE
    /\ UNCHANGED <<appVars, sockVars, downVars, status, sockOpen, chanVars,
                   winVars, bufVars, dataHandler, pc, c2s, upVars, srv>>

\* Packets of the SSH connection.
ClientReceives ==
    \/ RcvData \/ RcvEof
    \/ RcvConfirm \/ RcvFailure \/ RcvClose
    \/ RcvAdjust
    \/ RcvKexinit \/ RcvNewkeys

Client ==
    \/ Accept
    \/ ReadStops \/ ReadFails \/ ReadSome
    \/ OnFdRead \/ OnFdClose \/ OnFdWrite
    \/ RetrySend \/ RetryEnds
    \/ ClientReceives

clientVars == <<appVars, sockVars, downVars, status, sockOpen, chanVars, winVars,
                bufVars, kexVars, pc, upVars>>

-----------------------------------------------------------------------------
(* A conforming server: it stays inside the window, sends nothing of the    *)
(* channel while it exchanges keys, and nothing after CLOSE.                *)

SrvSays(type, lo, n) == s2c' = Append(s2c, DownMsg(type, lo, n))

SrvMaySend == srv.chan = "open" /\ ~srv.kex /\ ~srv.sentClose

SrvReceive ==
    /\ c2s # <<>>
    /\ c2s' = Tail(c2s)
    /\ LET m == Head(c2s) IN
         /\ IF m.type = "KEXINIT" THEN SrvSays("NEWKEYS", 0, 0) ELSE UNCHANGED s2c
         /\ srv' = CASE m.type = "OPEN"    -> [srv EXCEPT !.chan = "asked", !.credit = LocalWindow]
                     [] m.type = "DATA"    -> [srv EXCEPT !.rcvd = @ + m.n, !.next = m.lo + m.n]
                     [] m.type = "ADJUST"  -> [srv EXCEPT !.credit = @ + m.n]
                     [] m.type = "EOF"     -> [srv EXCEPT !.sawEof = TRUE]
                     [] m.type = "CLOSE"   -> [srv EXCEPT !.sawClose = TRUE]
                     [] m.type = "KEXINIT" -> [srv EXCEPT !.kex = FALSE]
                     [] OTHER              -> srv
    /\ UNCHANGED clientVars

SrvAnswer ==
    /\ srv.chan = "asked" /\ ~srv.kex
    /\ UNCHANGED <<clientVars, c2s>>
    /\ \/ /\ srv' = [srv EXCEPT !.chan = "open", !.granted = @ + ServerWindow]
          /\ SrvSays("CONFIRM", 0, ServerWindow)
       \/ /\ srv' = [srv EXCEPT !.chan = "failed"]
          /\ SrvSays("FAILURE", 0, 0)

SrvGrant ==
    /\ SrvMaySend
    /\ \E n \in 1..(ServerWindow - (srv.granted - srv.rcvd)) :
         /\ srv' = [srv EXCEPT !.granted = @ + n]
         /\ SrvSays("ADJUST", 0, n)
    /\ UNCHANGED <<clientVars, c2s>>

SrvSend ==
    /\ SrvMaySend /\ ~srv.sentEof
    /\ \E n \in 1..MaxPacket :
         /\ Within(appSent, srv.sent + n, srv.rekeys) /\ srv.sent + n <= srv.credit
         /\ srv' = [srv EXCEPT !.sent = @ + n]
         /\ SrvSays("DATA", srv.sent, n)
    /\ UNCHANGED <<clientVars, c2s>>

SrvEof ==
    /\ SrvMaySend /\ ~srv.sentEof
    /\ srv' = [srv EXCEPT !.sentEof = TRUE]
    /\ SrvSays("EOF", 0, 0)
    /\ UNCHANGED <<clientVars, c2s>>

SrvClose ==
    /\ SrvMaySend
    /\ srv' = [srv EXCEPT !.sentClose = TRUE]
    /\ SrvSays("CLOSE", 0, 0)
    /\ UNCHANGED <<clientVars, c2s>>

SrvRekey ==
    /\ ~srv.kex /\ Within(appSent, srv.sent, srv.rekeys + 1)
    /\ srv' = [srv EXCEPT !.kex = TRUE, !.rekeys = @ + 1]
    /\ SrvSays("KEXINIT", 0, 0)
    /\ UNCHANGED <<clientVars, c2s>>

Server ==
    SrvReceive \/ SrvAnswer \/ SrvGrant \/ SrvSend \/ SrvEof \/ SrvClose \/ SrvRekey

Next == AppWrite \/ AppEnd \/ SockWritable \/ Client \/ Server

Spec == Init /\ [][Next]_vars

\* The message loop keeps running, the network delivers, and the server goes
\* on consuming what it gets; nobody has to write, close or rekey.
Fairness ==
    /\ WF_vars(Client) /\ WF_vars(ClientReceives)
    /\ WF_vars(OnFdRead) /\ WF_vars(OnFdWrite) /\ WF_vars(OnFdClose)
    /\ WF_vars(SockWritable)
    /\ WF_vars(SrvReceive) /\ WF_vars(SrvAnswer) /\ WF_vars(SrvGrant)

FairSpec == Spec /\ Fairness
-----------------------------------------------------------------------------
(* Properties.                                                             *)

NotificationType ==
    /\ posted \subseteq {"READ", "WRITE", "CLOSE"}
    /\ readArmed \in BOOLEAN /\ writeArmed \in BOOLEAN
    /\ status \subseteq Flags /\ sockOpen \in BOOLEAN

AppType ==
    /\ appSent \in Nat /\ recvd \in Nat /\ appEnd \in {"open", "fin", "reset"}

DownType ==
    /\ delivered \in Nat /\ writebuf \in Nat /\ gotData \in Nat /\ shut \in BOOLEAN

ControlType ==
    /\ used \in BOOLEAN /\ confirmed \in BOOLEAN /\ close_sent \in BOOLEAN
    /\ rekeying \in BOOLEAN /\ dataHandler \in BOOLEAN
    /\ pc \in {"accept", "idle", "reading", "closing", "retrying"}

WindowType ==
    /\ remote_window \in Nat /\ local_window \in 0..LocalWindow
    /\ granted \in Nat /\ gotCredit \in Nat /\ sent \in Nat /\ discarded \in Nat
    /\ bufchain_amount \in Int /\ recv_suspended \in BOOLEAN

QueueType ==
    /\ c2s \in Seq(Message) /\ s2c \in Seq(Message)
    /\ bufchain \in Seq(Chunk)
    /\ srv \in ServerState

\* Every variable keeps its type; the local window stays inside its maximum,
\* so what do_SSH2_adjust_window_size grants is never negative.
TypeOK ==
    /\ NotificationType /\ AppType /\ DownType /\ ControlType /\ WindowType
    /\ QueueType

\* Whatever order reads, retries and adjustments come in, the client never
\* sends more than the server allowed (SSH2_send_channel_data, retry loop).
WindowRespected == sent <= srv.granted

\* A server that stays inside the window it was given is never told that its
\* DATA is too large: local_window never falls behind what was granted.
ServerNeverRejected == dataHandler

\* DATA in the queue q and the chunks behind it are bytes read from the socket,
\* from first up to last, in the order they were read and none of them twice.
Before(a, b) == a.lo + a.n <= b.lo
DataIn(q) == {i \in 1..Len(q) : q[i].type = "DATA"}
InReadOrder(first, q, chunks, last) ==
    /\ first <= last
    /\ \A i \in DataIn(q) : first <= q[i].lo /\ q[i].lo + q[i].n <= last
    /\ \A k \in 1..Len(chunks) : first <= chunks[k].lo /\ chunks[k].lo + chunks[k].n <= last
    /\ \A i, j \in DataIn(q) : i < j => Before(q[i], q[j])
    /\ \A i \in DataIn(q), k \in 1..Len(chunks) : Before(q[i], chunks[k])
    /\ \A k, l \in 1..Len(chunks) : k < l => Before(chunks[k], chunks[l])

\* Every byte read from the socket of an open channel was sent, waits in the
\* bufchain, or was read while keys were exchanged and thrown away; DATA on the
\* wire and the chunks in bufchain are those bytes in the order they were read,
\* none of them twice (SSH2_send_channel_data, ssh2_channel_retry_send_bufchain).
UpstreamIntact ==
    /\ InReadOrder(srv.next, c2s, bufchain, recvd)
    /\ used => sent + bufchain_amount + discarded = recvd

\* Data in the write buffer always has an FD_WRITE posted or enabled.
NoLostWrite == (sockOpen /\ writebuf > 0) => (writeArmed \/ "WRITE" \in posted)

\* Both directions end in order: after CLOSE the client sends nothing more on the
\* channel although the local side may still read or close (ssh2_channel_send_close),
\* and the application sees end of file only with everything the server sent, which
\* may still be in the write buffer when EOF comes (FWD_channel_input_eof).
EndsInOrder ==
    /\ \A i, j \in DOMAIN c2s :
          (i < j /\ c2s[i].type = "CLOSE") => c2s[j].type = "KEXINIT"
    /\ shut => delivered = srv.sent

\* Chunks held back for want of window are sent in the end, or the channel
\* is closed, as long as the server goes on consuming.
BufchainDrains == bufchain # <<>> ~> bufchain = <<>>

\* What the application writes on a connection that got its channel is read to
\* the end, or the connection goes away.
UpstreamRead == (used /\ Unread > 0) ~> (Unread = 0 \/ ~sockOpen)

\* A CLOSE from the server is answered.
CloseAnswered == srv.sentClose ~> srv.sawClose

\* fwd.c, FWD_channel_input_eof: with data left in the write buffer the remote
\* EOF leads to a shutdown once all of it is sent; TTSSH does not close the
\* application's connection before.  The code does not keep this: see README.
EofDataDelivered ==
    [][(sockOpen /\ ~sockOpen' /\ appEnd = "open" /\ "CLOSED_REMOTE_IN" \in status)
         => writebuf = 0]_vars
=============================================================================
