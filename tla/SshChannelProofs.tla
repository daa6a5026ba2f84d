-------------------------- MODULE SshChannelProofs --------------------------
(***************************************************************************)
(* Proofs about SshChannel for every window, buffer and packet size, every  *)
(* bound on the traffic, and every number of key exchanges.                 *)
(***************************************************************************)
EXTENDS SshChannel, TLAPS

-----------------------------------------------------------------------------
(* Types.                                                                  *)

\* A message queued by either side is a Message.
LEMMA MessageTypes ==
    ASSUME WindowType, QueueType
    PROVE  /\ \A type \in MsgTypes, lo, n, grant \in Nat : UpMsg(type, lo, n, grant) \in Message
           /\ \A type \in MsgTypes, lo, n \in Nat : DownMsg(type, lo, n) \in Message
  BY SMTT(40) DEF WindowType, QueueType, UpMsg, DownMsg, Grant, Message, MsgTypes, ServerState

\* Taking the first element of a queue.
LEMMA QueueHeads ==
    ASSUME QueueType
    PROVE  /\ c2s # <<>> => Head(c2s) \in Message /\ Tail(c2s) \in Seq(Message)
           /\ s2c # <<>> => Head(s2c) \in Message /\ Tail(s2c) \in Seq(Message)
           /\ bufchain # <<>> => Head(bufchain) \in Chunk /\ Tail(bufchain) \in Seq(Chunk)
  BY DEF QueueType

\* The fields of messages and chunks.
LEMMA FieldTypes ==
    /\ \A m \in Message : /\ m.type \in MsgTypes /\ m.lo \in Nat /\ m.n \in Nat
                          /\ m.data \in Nat /\ m.credit \in Nat
    /\ \A k \in Chunk : k.lo \in Nat /\ k.n \in Nat \ {0}
  BY DEF Message, Chunk

\* Updating the record of the server.
LEMMA ServerUpdate ==
    ASSUME NEW s \in ServerState, NEW b \in BOOLEAN, NEW k \in Nat, NEW n \in Nat,
           NEW c \in {"asked", "open", "failed"}
    PROVE  /\ [s EXCEPT !.chan = c] \in ServerState
           /\ [s EXCEPT !.chan = c, !.credit = k] \in ServerState
           /\ [s EXCEPT !.chan = c, !.granted = k] \in ServerState
           /\ [s EXCEPT !.rcvd = k, !.next = n] \in ServerState
           /\ [s EXCEPT !.granted = k] \in ServerState
           /\ [s EXCEPT !.credit = k] \in ServerState
           /\ [s EXCEPT !.sent = k] \in ServerState
           /\ [s EXCEPT !.sentEof = b] \in ServerState
           /\ [s EXCEPT !.sentClose = b] \in ServerState
           /\ [s EXCEPT !.sawEof = b] \in ServerState
           /\ [s EXCEPT !.sawClose = b] \in ServerState
           /\ [s EXCEPT !.kex = b] \in ServerState
           /\ [s EXCEPT !.kex = b, !.rekeys = k] \in ServerState
  BY DEF ServerState

\* The counters of the server.
LEMMA ServerFields ==
    ASSUME NEW s \in ServerState
    PROVE  /\ s.granted \in Nat /\ s.rcvd \in Nat /\ s.next \in Nat /\ s.credit \in Nat
           /\ s.sent \in Nat /\ s.rekeys \in Nat
  BY DEF ServerState

\* The initial state.
LEMMA InitType == Init => TypeOK
  <1> SUFFICES ASSUME Init PROVE TypeOK
    OBVIOUS
  <1>1. NotificationType
    BY DEF Init, NotificationType
  <1>2. srv \in ServerState
    BY DEF Init, ServerState
  <1>3. c2s \in Seq(Message) /\ s2c \in Seq(Message) /\ bufchain \in Seq(Chunk)
    BY DEF Init
  <1>4. AppType /\ DownType
    BY DEF Init, AppType, DownType
  <1>5. ControlType
    BY DEF Init, ControlType
  <1>6. local_window \in 0..LocalWindow
    BY SizeAssumption DEF Init
  <1>7. recv_suspended \in BOOLEAN
    BY DEF Init
  <1>8. /\ remote_window \in Nat /\ bufchain_amount \in Int
        /\ granted \in Nat /\ gotCredit \in Nat /\ sent \in Nat /\ discarded \in Nat
    BY DEF Init
  <1>9. WindowType
    BY <1>6, <1>7, <1>8 DEF WindowType
  <1> QED
    BY <1>1, <1>2, <1>3, <1>4, <1>5, <1>9 DEF TypeOK, QueueType

\* Notifications, flags and the socket: only nine actions touch them.
LEMMA NotificationStep ==
    ASSUME NotificationType, [Next]_vars
    PROVE  NotificationType'
  <1> USE DEF NotificationType, Flags, Both, clientVars, sockVars
  <1>1. CASE OnClosedLocalConnection \/ ClosedLocalConnection
    BY <1>1 DEF OnClosedLocalConnection, ClosedLocalConnection
  <1>2. CASE AppWrite
    BY <1>2 DEF AppWrite
  <1>3. CASE AppEnd \/ SockWritable
    BY <1>3 DEF AppEnd, SockWritable
  <1>4. CASE Accept
    BY <1>4 DEF Accept, Unread
  <1>5. CASE ReadStops \/ ReadFails
    BY <1>1, <1>5 DEF ReadStops, ReturnFromRead, ReadFails
  <1>6. CASE ReadSome
    BY <1>6 DEF ReadSome
  <1>7. CASE OnFdRead \/ OnFdClose
    BY <1>1, <1>7 DEF OnFdRead, OnFdClose
  <1>8. CASE OnFdWrite
    <2>1. CASE WriteMore /\ posted' = posted \ {"WRITE"} /\ UNCHANGED <<status, sockOpen, readArmed>>
      BY <2>1 DEF WriteMore
    <2> QED
      BY <1>1, <1>8, <2>1 DEF OnFdWrite
  <1>9. CASE RcvData
    <2>1. CASE ReceivedData(Head(s2c).n)
      <3>1. CASE SockBufferedWrite(Head(s2c).n) /\ UNCHANGED <<status, sockOpen>>
        <4>1. writeArmed' \in BOOLEAN
          BY <3>1 DEF SockBufferedWrite
        <4>2. (posted' = posted /\ readArmed' = readArmed) \/ Reselect
          BY <3>1 DEF SockBufferedWrite
        <4>3. CASE posted' = posted /\ readArmed' = readArmed
          BY <3>1, <4>1, <4>3
        <4>4. CASE Reselect
          <5>1. posted' \subseteq {"READ", "WRITE", "CLOSE"}
            BY <4>4 DEF Reselect
          <5>2. readArmed' \in BOOLEAN
            BY <4>4 DEF Reselect
          <5> QED
            BY <3>1, <4>1, <5>1, <5>2
        <4> QED
          BY <4>2, <4>3, <4>4
      <3> QED
        BY <1>1, <2>1, <3>1 DEF ReceivedData
    <2>2. CASE UNCHANGED <<status, sockOpen, sockVars>>
      BY <2>2
    <2> QED
      BY <1>9, <2>1, <2>2 DEF RcvData
  <1>10. CASE RcvEof \/ RcvConfirm
    BY <1>10 DEF RcvEof, RcvConfirm
  <1>11. CASE RcvFailure \/ RcvClose
    BY <1>11 DEF RcvFailure, RcvClose, FreeFwd
  <1>12. CASE RetryEnds
    BY <1>12 DEF RetryEnds, ResumeRecv
  <1>13. CASE RcvAdjust \/ RetrySend \/ RcvKexinit \/ RcvNewkeys
    BY <1>13 DEF RcvAdjust, RetrySend, RcvKexinit, RcvNewkeys
  <1>14. CASE Server
    BY <1>14 DEF Server, SrvReceive, SrvAnswer, SrvGrant, SrvSend, SrvEof, SrvClose, SrvRekey
  <1>15. CASE UNCHANGED vars
    BY <1>15 DEF vars
  <1> QED
    BY <1>2, <1>3, <1>4, <1>5, <1>6, <1>7, <1>8, <1>9, <1>10, <1>11, <1>12, <1>13,
       <1>14, <1>15 DEF Next, Client, ClientReceives

\* What the application wrote and what recv returned.
LEMMA AppStep ==
    ASSUME AppType, [Next]_vars
    PROVE  AppType'
  <1> USE DEF AppType
  <1>1. CASE AppWrite \/ AppEnd
    BY <1>1 DEF AppWrite, AppEnd, upVars
  <1>2. CASE ReadSome
    BY <1>2, SizeAssumption DEF ReadSome, Unread, appVars
  <1>3. CASE UNCHANGED <<appVars, upVars>> \/ UNCHANGED <<appVars, recvd>>
    BY <1>3 DEF appVars, upVars
  <1>4. CASE SockWritable \/ Accept \/ OnFdRead \/ OnFdClose \/ OnFdWrite
             \/ ReadStops \/ ReadFails \/ RetrySend \/ RetryEnds \/ ClientReceives
    <2>1. UNCHANGED <<appVars, upVars>> \/ UNCHANGED <<appVars, recvd>>
      BY <1>4 DEF SockWritable, Accept, OnFdRead, OnFdClose, OnFdWrite, ReadStops,
         ReturnFromRead, ReadFails, RetrySend, RetryEnds, ClientReceives, RcvData,
         RcvEof, RcvConfirm, RcvFailure, RcvClose, RcvAdjust, RcvKexinit, RcvNewkeys
    <2> QED
      BY <1>3, <2>1
  <1>5. CASE Server \/ UNCHANGED vars
    <2>1. UNCHANGED <<appVars, upVars>>
      BY <1>5 DEF Server, SrvReceive, SrvAnswer, SrvGrant, SrvSend, SrvEof, SrvClose,
         SrvRekey, clientVars, vars
    <2> QED
      BY <1>3, <2>1
  <1> QED
    BY <1>1, <1>2, <1>4, <1>5 DEF Next, Client

\* FWD_received_data and UTIL_sock_buffered_write.
LEMMA ReceivedDataType ==
    ASSUME DownType, NEW n \in Nat, ReceivedData(n)
    PROVE  delivered' \in Nat /\ writebuf' \in Nat
  <1>1. CASE SockBufferedWrite(n)
    BY <1>1, SizeAssumption DEF DownType, SockBufferedWrite
  <1>2. CASE UNCHANGED <<delivered, writebuf>>
    BY <1>2 DEF DownType
  <1> QED
    BY <1>1, <1>2 DEF ReceivedData

\* What reached the local socket.
LEMMA DownStep ==
    ASSUME DownType, QueueType, [Next]_vars
    PROVE  DownType'
  <1>1. CASE UNCHANGED downVars
    BY <1>1 DEF downVars, DownType
  <1>2. CASE OnFdWrite
    <2>1. CASE WriteMore /\ gotData' = gotData
      BY <2>1 DEF WriteMore, DownType
    <2>2. (WriteMore /\ gotData' = gotData) \/ UNCHANGED downVars
      BY <1>2 DEF OnFdWrite, downVars
    <2> QED
      BY <1>1, <2>1, <2>2
  <1>3. CASE RcvData
    <2>1. Head(s2c).n \in Nat
      BY <1>3, QueueHeads, FieldTypes DEF RcvData
    <2>2. gotData' \in Nat /\ shut' = shut
      BY <1>3, <2>1 DEF RcvData, DownType
    <2>3. ReceivedData(Head(s2c).n) \/ UNCHANGED <<delivered, writebuf>>
      BY <1>3 DEF RcvData
    <2>4. delivered' \in Nat /\ writebuf' \in Nat
      BY <2>1, <2>3, ReceivedDataType DEF DownType
    <2> QED
      BY <2>2, <2>4 DEF DownType
  <1>4. CASE RcvEof
    <2>1. shut' \in BOOLEAN /\ UNCHANGED <<delivered, writebuf, gotData>>
      BY <1>4 DEF RcvEof, DownType
    <2> QED
      BY <2>1 DEF DownType
  <1>5. CASE RcvFailure \/ RcvClose
    <2>1. writebuf' = 0 /\ UNCHANGED <<delivered, shut, gotData>>
      BY <1>5 DEF RcvFailure, RcvClose, FreeFwd
    <2> QED
      BY <2>1 DEF DownType
  <1>6. CASE AppWrite \/ AppEnd \/ SockWritable \/ Accept \/ OnFdRead \/ OnFdClose
             \/ ReadStops \/ ReadFails \/ ReadSome \/ RetrySend \/ RetryEnds
             \/ RcvConfirm \/ RcvAdjust \/ RcvKexinit \/ RcvNewkeys
    <2>1. UNCHANGED downVars
      BY <1>6 DEF AppWrite, AppEnd, SockWritable, Accept, OnFdRead, OnFdClose, ReadStops,
         ReturnFromRead, ReadFails, ReadSome, RetrySend, RetryEnds, RcvConfirm,
         RcvAdjust, RcvKexinit, RcvNewkeys
    <2> QED
      BY <1>1, <2>1
  <1>7. CASE Server \/ UNCHANGED vars
    <2>1. UNCHANGED downVars
      BY <1>7 DEF Server, SrvReceive, SrvAnswer, SrvGrant, SrvSend, SrvEof, SrvClose,
         SrvRekey, clientVars, vars
    <2> QED
      BY <1>1, <2>1
  <1> QED
    BY <1>2, <1>3, <1>4, <1>5, <1>6, <1>7 DEF Next, Client, ClientReceives

\* The flags of the channel and the connection, and the program counter.
LEMMA ControlStep ==
    ASSUME ControlType, [Next]_vars
    PROVE  ControlType'
  <1> USE DEF ControlType, chanVars, kexVars
  <1>1. CASE UNCHANGED <<chanVars, kexVars, pc>>
    BY <1>1
  <1>2. CASE Accept
    <2>1. used' \in BOOLEAN /\ pc' = "idle" /\ UNCHANGED <<confirmed, close_sent, kexVars>>
      BY <1>2 DEF Accept
    <2> QED
      BY <2>1
  <1>3. CASE ReadStops \/ ReadFails \/ OnFdRead \/ OnFdClose \/ RetryEnds
    <2>1. UNCHANGED <<chanVars, kexVars>>
      BY <1>3 DEF ReadStops, ReturnFromRead, ReadFails, OnFdRead, OnFdClose, RetryEnds
    <2>2. pc' \in {"idle", "reading", "closing", pc}
      BY <1>3 DEF ReadStops, ReturnFromRead, ReadFails, OnFdRead, OnFdClose, RetryEnds
    <2> QED
      BY <2>1, <2>2
  <1>4. CASE RcvData \/ RcvKexinit \/ RcvNewkeys
    <2>1. /\ dataHandler' \in {FALSE, dataHandler} /\ rekeying' \in {TRUE, FALSE, rekeying}
          /\ UNCHANGED <<chanVars, pc>>
      BY <1>4 DEF RcvData, RcvKexinit, RcvNewkeys
    <2> QED
      BY <2>1
  <1>5. CASE RcvConfirm \/ RcvAdjust
    <2>1. /\ confirmed' \in {TRUE, confirmed} /\ pc' \in {"idle", "reading", "retrying", pc}
          /\ UNCHANGED <<used, close_sent, kexVars>>
      BY <1>5 DEF RcvConfirm, RcvAdjust, AfterConfirm
    <2> QED
      BY <2>1
  <1>6. CASE RcvFailure \/ RcvClose
    <2>1. /\ used' = FALSE /\ confirmed' = FALSE /\ close_sent' \in {TRUE, close_sent}
          /\ UNCHANGED <<kexVars, pc>>
      BY <1>6 DEF RcvFailure, RcvClose, ChannelDelete
    <2> QED
      BY <2>1
  <1>7. CASE AppWrite \/ AppEnd \/ SockWritable \/ OnFdWrite \/ ReadSome \/ RetrySend \/ RcvEof
    <2>1. UNCHANGED <<chanVars, kexVars, pc>>
      BY <1>7 DEF AppWrite, AppEnd, SockWritable, OnFdWrite, ReadSome, RetrySend, RcvEof
    <2> QED
      BY <1>1, <2>1
  <1>8. CASE Server \/ UNCHANGED vars
    <2>1. UNCHANGED <<chanVars, kexVars, pc>>
      BY <1>8 DEF Server, SrvReceive, SrvAnswer, SrvGrant, SrvSend, SrvEof, SrvClose,
         SrvRekey, clientVars, vars
    <2> QED
      BY <1>1, <2>1
  <1> QED
    BY <1>2, <1>3, <1>4, <1>5, <1>6, <1>7, <1>8 DEF Next, Client, ClientReceives

\* SSH2_send_channel_data and the bufchain keep their types, whatever the
\* fate of the bytes.
LEMMA SendChannelDataType ==
    ASSUME WindowType, QueueType,
           NEW lo \in Nat, NEW n \in Nat \ {0}, SendChannelData(lo, n)
    PROVE  /\ c2s' \in Seq(Message) /\ bufchain' \in Seq(Chunk)
           /\ bufchain_amount' \in Int /\ recv_suspended' \in BOOLEAN
           /\ sent' \in Nat /\ discarded' \in Nat /\ remote_window' \in Nat
  <1> USE DEF WindowType, QueueType, bufVars
  <1>1. CASE rekeying
    <2>1. discarded' = discarded + n /\ UNCHANGED <<bufVars, c2s, remote_window, sent>>
      BY <1>1 DEF SendChannelData
    <2> QED
      BY <2>1
  <1>2. CASE ~rekeying /\ MustQueue(n)
    <2>1. [lo |-> lo, n |-> n] \in Chunk
      BY DEF Chunk
    <2>2. AddBufchain(lo, n) /\ UNCHANGED <<c2s, remote_window, sent, discarded>>
      BY <1>2 DEF SendChannelData
    <2> QED
      BY <2>1, <2>2, SizeAssumption DEF AddBufchain
  <1>3. CASE ~rekeying /\ ~MustQueue(n)
    <2>1. UpMsg("DATA", lo, n, 0) \in Message
      BY MessageTypes DEF MsgTypes
    <2>2. SendNow(lo, n) /\ UNCHANGED <<bufVars, discarded>>
      BY <1>3 DEF SendChannelData
    <2>3. n <= remote_window
      BY <1>3 DEF MustQueue, Fits
    <2> QED
      BY <2>1, <2>2, <2>3 DEF SendNow
  <1> QED
    BY <1>1, <1>2, <1>3

\* local_window -= str_len and do_SSH2_adjust_window_size.
LEMMA AdjustWindowType ==
    ASSUME WindowType, NEW w \in 0..LocalWindow, AdjustWindow(w)
    PROVE  local_window' \in 0..LocalWindow /\ granted' \in Nat
  <1>1. AdjustBy(w) \in Nat /\ LocalWindow \in 0..LocalWindow
    BY SizeAssumption DEF AdjustBy
  <1>2. CASE AdjustDue(w)
    <2>1. local_window' = LocalWindow /\ granted' = granted + AdjustBy(w)
      BY <1>2 DEF AdjustWindow
    <2> QED
      BY <1>1, <2>1 DEF WindowType
  <1>3. CASE ~AdjustDue(w)
    BY <1>3 DEF AdjustWindow, WindowType
  <1> QED
    BY <1>2, <1>3

\* Windows and byte counts.
LEMMA WindowStep ==
    ASSUME AppType, WindowType, QueueType, [Next]_vars
    PROVE  WindowType'
  <1> DEFINE winTypeVars == <<winVars, bufVars, sent, discarded>>
  <1>1. CASE UNCHANGED winTypeVars
    BY <1>1 DEF winVars, bufVars, WindowType
  <1>2. CASE Accept
    <2>1. local_window' \in {local_window, LocalWindow} /\ granted' \in {granted, granted + LocalWindow}
      BY <1>2 DEF Accept
    <2>2. UNCHANGED <<remote_window, gotCredit, bufVars, upVars>>
      BY <1>2 DEF Accept
    <2>3. local_window' \in 0..LocalWindow /\ granted' \in Nat
      BY <2>1, SizeAssumption DEF WindowType
    <2> QED
      BY <2>2, <2>3 DEF bufVars, upVars, WindowType
  <1>3. CASE ReadSome
    <2> DEFINE n == IF Unread < ReadBuf THEN Unread ELSE ReadBuf
    <2>1. n \in Nat \ {0} /\ recvd \in Nat
      BY <1>3, SizeAssumption DEF ReadSome, Unread, AppType
    <2>2. SendChannelData(recvd, n)
      BY <1>3 DEF ReadSome
    <2>3. UNCHANGED <<local_window, granted, gotCredit>>
      BY <1>3 DEF ReadSome
    <2> HIDE DEF n
    <2>4. /\ bufchain_amount' \in Int /\ recv_suspended' \in BOOLEAN
          /\ sent' \in Nat /\ discarded' \in Nat /\ remote_window' \in Nat
      BY <2>1, <2>2, SendChannelDataType
    <2> QED
      BY <2>3, <2>4 DEF WindowType
  <1>4. CASE RcvData
    <2>1. Head(s2c).n \in Nat
      BY <1>4, QueueHeads, FieldTypes DEF RcvData
    <2>2. UNCHANGED <<remote_window, gotCredit, bufVars, upVars>>
      BY <1>4 DEF RcvData
    <2>3. CASE Acceptable(Head(s2c).n)
      <3>1. local_window - Head(s2c).n \in 0..LocalWindow
        BY <2>1, <2>3, SizeAssumption DEF Acceptable, WindowType
      <3>2. AdjustWindow(local_window - Head(s2c).n)
        BY <1>4, <2>3 DEF RcvData
      <3>3. local_window' \in 0..LocalWindow /\ granted' \in Nat
        BY <3>1, <3>2, AdjustWindowType
      <3> QED
        BY <2>2, <3>3 DEF WindowType, bufVars, upVars
    <2>4. CASE ~Acceptable(Head(s2c).n)
      <3>1. UNCHANGED <<local_window, granted>>
        BY <1>4, <2>4 DEF RcvData
      <3> QED
        BY <2>2, <3>1 DEF WindowType, bufVars, upVars
    <2> QED
      BY <2>3, <2>4
  <1>5. CASE RcvConfirm \/ RcvAdjust
    <2>1. Head(s2c).n \in Nat
      BY <1>5, QueueHeads, FieldTypes DEF RcvConfirm, RcvAdjust
    <2>2. /\ remote_window' \in {remote_window, Head(s2c).n, remote_window + Head(s2c).n}
          /\ gotCredit' = gotCredit + Head(s2c).n
      BY <1>5 DEF RcvConfirm, RcvAdjust
    <2>3. UNCHANGED <<local_window, granted, bufVars, upVars>>
      BY <1>5 DEF RcvConfirm, RcvAdjust
    <2>4. remote_window' \in Nat /\ gotCredit' \in Nat
      BY <2>1, <2>2 DEF WindowType
    <2> QED
      BY <2>3, <2>4 DEF WindowType, bufVars, upVars
  <1>6. CASE RcvFailure \/ RcvClose
    <2>1. /\ remote_window' = 0 /\ local_window' = 0
          /\ bufchain_amount' = 0 /\ recv_suspended' = FALSE
      BY <1>6 DEF RcvFailure, RcvClose, ChannelDelete
    <2>2. UNCHANGED <<granted, gotCredit, upVars>>
      BY <1>6 DEF RcvFailure, RcvClose
    <2>3. 0 \in 0..LocalWindow
      BY SizeAssumption
    <2>4. remote_window' \in Nat /\ local_window' \in 0..LocalWindow /\ bufchain_amount' \in Int
      BY <2>1, <2>3
    <2>5. recv_suspended' \in BOOLEAN
      BY <2>1
    <2> QED
      BY <2>2, <2>4, <2>5 DEF WindowType, upVars
  <1>7. CASE RetrySend
    <2> DEFINE size == Head(bufchain).n
    <2>1. size \in Nat /\ size <= remote_window
      BY <1>7, QueueHeads, FieldTypes DEF RetrySend, CanRetry, WindowType
    <2>2. /\ discarded' \in {discarded, discarded + size}
          /\ remote_window' \in {remote_window, remote_window - size}
          /\ sent' \in {sent, sent + size}
          /\ bufchain_amount' = bufchain_amount - size
      BY <1>7 DEF RetrySend, SendNow
    <2>3. UNCHANGED <<local_window, granted, gotCredit, recv_suspended>>
      BY <1>7 DEF RetrySend
    <2> HIDE DEF size
    <2> QED
      BY <2>1, <2>2, <2>3 DEF WindowType
  <1>8. CASE RetryEnds
    <2>1. recv_suspended' \in {FALSE, recv_suspended}
          /\ UNCHANGED <<winVars, bufchain_amount, upVars>>
      BY <1>8 DEF RetryEnds, ResumeRecv
    <2> QED
      BY <2>1 DEF WindowType, winVars, upVars
  <1>9. CASE AppWrite \/ AppEnd \/ SockWritable \/ OnFdRead \/ OnFdClose \/ OnFdWrite
             \/ ReadStops \/ ReadFails \/ RcvEof \/ RcvKexinit \/ RcvNewkeys
    <2>1. UNCHANGED winTypeVars
      BY <1>9 DEF AppWrite, AppEnd, SockWritable, OnFdRead, OnFdClose, OnFdWrite, ReadStops,
         ReturnFromRead, ReadFails, RcvEof, RcvKexinit, RcvNewkeys, upVars
    <2> QED
      BY <1>1, <2>1
  <1>10. CASE Server \/ UNCHANGED vars
    <2>1. UNCHANGED winTypeVars
      BY <1>10 DEF Server, SrvReceive, SrvAnswer, SrvGrant, SrvSend, SrvEof, SrvClose,
         SrvRekey, clientVars, vars, upVars
    <2> QED
      BY <1>1, <2>1
  <1> QED
    BY <1>2, <1>3, <1>4, <1>5, <1>6, <1>7, <1>8, <1>9, <1>10 DEF Next, Client, ClientReceives

\* What the client appends to its queue is a message.
LEMMA ClosureQueueType ==
    ASSUME WindowType, QueueType
    PROVE  ClosureQueue \in Seq(Message) /\ Append(c2s, UpMsg("EOF", 0, 0, 0)) \in Seq(Message)
  <1>1. UpMsg("EOF", 0, 0, 0) \in Message
    BY MessageTypes DEF MsgTypes
  <1> QED
    BY <1>1 DEF ClosureQueue, QueueType

\* The queue of the client.
LEMMA C2sStep ==
    ASSUME AppType, WindowType, QueueType, [Next]_vars
    PROVE  c2s' \in Seq(Message)
  <1>1. CASE UNCHANGED c2s
    BY <1>1 DEF QueueType
  <1>2. CASE c2s' = Append(c2s, UpMsg("EOF", 0, 0, 0))
    BY <1>2, ClosureQueueType
  <1>3. CASE Accept
    <2>1. UpMsg("OPEN", 0, 0, LocalWindow) \in Message
      BY MessageTypes, SizeAssumption DEF MsgTypes
    <2>2. c2s' \in {c2s, Append(c2s, UpMsg("OPEN", 0, 0, LocalWindow))}
      BY <1>3 DEF Accept
    <2>3. c2s \in Seq(Message)
      BY DEF QueueType
    <2> QED
      BY <2>1, <2>2, <2>3
  <1>4. CASE ReadStops \/ ReadFails \/ OnFdClose \/ OnFdWrite \/ RcvConfirm
    <2>1. c2s' \in {c2s, Append(c2s, UpMsg("EOF", 0, 0, 0))}
      BY <1>4 DEF ReadStops, ReturnFromRead, ReadFails, OnFdClose, OnFdWrite, RcvConfirm,
         OnClosedLocalConnection
    <2> QED
      BY <1>1, <1>2, <2>1
  <1>5. CASE ReadSome
    <2> DEFINE n == IF Unread < ReadBuf THEN Unread ELSE ReadBuf
    <2>1. n \in Nat \ {0} /\ recvd \in Nat
      BY <1>5, SizeAssumption DEF ReadSome, Unread, AppType
    <2>2. SendChannelData(recvd, n)
      BY <1>5 DEF ReadSome
    <2> HIDE DEF n
    <2> QED
      BY <2>1, <2>2, SendChannelDataType
  <1>6. CASE RcvData
    <2>1. Head(s2c).n \in Nat
      BY <1>6, QueueHeads, FieldTypes DEF RcvData
    <2>2. CASE Acceptable(Head(s2c).n)
      <3> DEFINE w == local_window - Head(s2c).n
      <3>1. AdjustBy(w) \in Nat
        BY <2>1, <2>2, SizeAssumption DEF Acceptable, WindowType, AdjustBy
      <3>2. UpMsg("ADJUST", 0, AdjustBy(w), AdjustBy(w)) \in Message
        BY <3>1, MessageTypes DEF MsgTypes
      <3>3. AdjustWindow(w)
        BY <1>6, <2>2 DEF RcvData
      <3> HIDE DEF w
      <3>4. c2s' \in {ClosureQueue,
                      Append(ClosureQueue, UpMsg("ADJUST", 0, AdjustBy(w), AdjustBy(w)))}
        BY <3>3 DEF AdjustWindow
      <3> QED
        BY <3>2, <3>4, ClosureQueueType
    <2>3. CASE ~Acceptable(Head(s2c).n)
      BY <1>1, <1>6, <2>3 DEF RcvData
    <2> QED
      BY <2>2, <2>3
  <1>7. CASE RcvClose \/ RcvKexinit
    <2>1. UpMsg("CLOSE", 0, 0, 0) \in Message /\ UpMsg("KEXINIT", 0, 0, 0) \in Message
      BY MessageTypes DEF MsgTypes
    <2>2. c2s' \in {c2s, Append(c2s, UpMsg("CLOSE", 0, 0, 0)), Append(c2s, UpMsg("KEXINIT", 0, 0, 0))}
      BY <1>7 DEF RcvClose, SendClose, RcvKexinit
    <2>3. c2s \in Seq(Message)
      BY DEF QueueType
    <2> QED
      BY <2>1, <2>2, <2>3
  <1>8. CASE RetrySend
    <2>1. Head(bufchain).lo \in Nat /\ Head(bufchain).n \in Nat
      BY <1>8, QueueHeads, FieldTypes DEF RetrySend
    <2>2. UpMsg("DATA", Head(bufchain).lo, Head(bufchain).n, 0) \in Message
      BY <2>1, MessageTypes DEF MsgTypes
    <2>3. c2s' \in {c2s, Append(c2s, UpMsg("DATA", Head(bufchain).lo, Head(bufchain).n, 0))}
      BY <1>8 DEF RetrySend, SendNow
    <2>4. c2s \in Seq(Message)
      BY DEF QueueType
    <2> QED
      BY <2>2, <2>3, <2>4
  <1>9. CASE AppWrite \/ AppEnd \/ SockWritable \/ OnFdRead \/ RcvEof \/ RcvFailure
             \/ RcvAdjust \/ RetryEnds \/ RcvNewkeys
    <2>1. UNCHANGED c2s
      BY <1>9 DEF AppWrite, AppEnd, SockWritable, OnFdRead, RcvEof, RcvFailure, RcvAdjust,
         RetryEnds, RcvNewkeys
    <2> QED
      BY <1>1, <2>1
  <1>10. CASE SrvReceive
    BY <1>10, QueueHeads DEF SrvReceive
  <1>11. CASE SrvAnswer \/ SrvGrant \/ SrvSend \/ SrvEof \/ SrvClose \/ SrvRekey \/ UNCHANGED vars
    <2>1. UNCHANGED c2s
      BY <1>11 DEF SrvAnswer, SrvGrant, SrvSend, SrvEof, SrvClose, SrvRekey, vars
    <2> QED
      BY <1>1, <2>1
  <1> QED
    BY <1>3, <1>4, <1>5, <1>6, <1>7, <1>8, <1>9, <1>10, <1>11
       DEF Next, Client, ClientReceives, Server

\* The chunks held back.
LEMMA BufchainStep ==
    ASSUME AppType, WindowType, QueueType, [Next]_vars
    PROVE  bufchain' \in Seq(Chunk)
  <1>1. CASE UNCHANGED bufchain
    BY <1>1 DEF QueueType
  <1>2. CASE ReadSome
    <2> DEFINE n == IF Unread < ReadBuf THEN Unread ELSE ReadBuf
    <2>1. n \in Nat \ {0} /\ recvd \in Nat
      BY <1>2, SizeAssumption DEF ReadSome, Unread, AppType
    <2>2. SendChannelData(recvd, n)
      BY <1>2 DEF ReadSome
    <2> HIDE DEF n
    <2> QED
      BY <2>1, <2>2, SendChannelDataType
  <1>3. CASE RcvFailure \/ RcvClose
    <2>1. bufchain' = <<>>
      BY <1>3 DEF RcvFailure, RcvClose, ChannelDelete
    <2> QED
      BY <2>1
  <1>4. CASE RetrySend
    BY <1>4, QueueHeads DEF RetrySend
  <1>5. CASE ClientReceives /\ ~RcvFailure /\ ~RcvClose
    <2>1. UNCHANGED bufchain
      BY <1>5 DEF ClientReceives, RcvData, RcvEof, RcvConfirm, RcvAdjust, RcvKexinit,
         RcvNewkeys, bufVars
    <2> QED
      BY <1>1, <2>1
  <1>6. CASE AppWrite \/ AppEnd \/ SockWritable \/ Accept \/ ReadStops \/ ReadFails
             \/ OnFdRead \/ OnFdClose \/ OnFdWrite \/ RetryEnds
    <2>1. UNCHANGED bufchain
      BY <1>6 DEF AppWrite, AppEnd, SockWritable, Accept, ReadStops, ReturnFromRead,
         ReadFails, OnFdRead, OnFdClose, OnFdWrite, RetryEnds, bufVars
    <2> QED
      BY <1>1, <2>1
  <1>7. CASE Server \/ UNCHANGED vars
    <2>1. UNCHANGED bufchain
      BY <1>7 DEF Server, SrvReceive, SrvAnswer, SrvGrant, SrvSend, SrvEof, SrvClose,
         SrvRekey, clientVars, vars, bufVars
    <2> QED
      BY <1>1, <2>1
  <1> QED
    BY <1>2, <1>3, <1>4, <1>5, <1>6, <1>7 DEF Next, Client

\* The queue of the server and the server.
LEMMA ServerStep ==
    ASSUME WindowType, QueueType, [Next]_vars
    PROVE  s2c' \in Seq(Message) /\ srv' \in ServerState
  <1>1. CASE UNCHANGED <<s2c, srv>>
    BY <1>1 DEF QueueType
  <1>2. CASE ClientReceives
    <2>1. s2c # <<>> /\ s2c' = Tail(s2c) /\ UNCHANGED srv
      BY <1>2 DEF ClientReceives, RcvData, RcvEof, RcvConfirm, RcvFailure, RcvClose,
         RcvAdjust, RcvKexinit, RcvNewkeys
    <2> QED
      BY <2>1, QueueHeads DEF QueueType
  <1>3. CASE AppWrite \/ AppEnd \/ SockWritable \/ Accept \/ ReadStops \/ ReadFails
             \/ ReadSome \/ OnFdRead \/ OnFdClose \/ OnFdWrite \/ RetrySend \/ RetryEnds
             \/ UNCHANGED vars
    <2>1. UNCHANGED <<s2c, srv>>
      BY <1>3 DEF AppWrite, AppEnd, SockWritable, Accept, ReadStops, ReturnFromRead,
         ReadFails, ReadSome, OnFdRead, OnFdClose, OnFdWrite, RetrySend, RetryEnds, vars
    <2> QED
      BY <1>1, <2>1
  <1>4. srv \in ServerState /\ s2c \in Seq(Message)
    BY DEF QueueType
  <1>5. CASE SrvReceive
    <2> DEFINE m == Head(c2s)
    <2>1. m \in Message
      BY <1>5, QueueHeads DEF SrvReceive
    <2>2. m.lo \in Nat /\ m.n \in Nat
      BY <2>1, FieldTypes
    <2>3. s2c' \in {s2c, Append(s2c, DownMsg("NEWKEYS", 0, 0))}
      BY <1>5 DEF SrvReceive, SrvSays
    <2>4. DownMsg("NEWKEYS", 0, 0) \in Message
      BY MessageTypes DEF MsgTypes
    <2>5. \/ srv' = [srv EXCEPT !.chan = "asked", !.credit = LocalWindow]
          \/ srv' = [srv EXCEPT !.rcvd = @ + m.n, !.next = m.lo + m.n]
          \/ srv' = [srv EXCEPT !.credit = @ + m.n]
          \/ srv' = [srv EXCEPT !.sawEof = TRUE] \/ srv' = [srv EXCEPT !.sawClose = TRUE]
          \/ srv' = [srv EXCEPT !.kex = FALSE] \/ srv' = srv
      BY <1>5 DEF SrvReceive
    <2> HIDE DEF m
    <2>6. /\ srv.rcvd + m.n \in Nat /\ m.lo + m.n \in Nat /\ srv.credit + m.n \in Nat
          /\ LocalWindow \in Nat
      BY <1>4, <2>2, ServerFields, SizeAssumption
    <2>7. /\ [srv EXCEPT !.chan = "asked", !.credit = LocalWindow] \in ServerState
          /\ [srv EXCEPT !.rcvd = srv.rcvd + m.n, !.next = m.lo + m.n] \in ServerState
          /\ [srv EXCEPT !.credit = srv.credit + m.n] \in ServerState
      BY <1>4, <2>6, ServerUpdate
    <2>8. /\ [srv EXCEPT !.sawEof = TRUE] \in ServerState
          /\ [srv EXCEPT !.sawClose = TRUE] \in ServerState
          /\ [srv EXCEPT !.kex = FALSE] \in ServerState
      BY <1>4, TRUE \in BOOLEAN, FALSE \in BOOLEAN, ServerUpdate
    <2>9. srv' \in ServerState
      BY <1>4, <2>5, <2>7, <2>8
    <2> QED
      BY <1>4, <2>3, <2>4, <2>9
  <1>6. CASE SrvAnswer
    <2>1. \/ /\ srv' = [srv EXCEPT !.chan = "open", !.granted = @ + ServerWindow]
             /\ s2c' = Append(s2c, DownMsg("CONFIRM", 0, ServerWindow))
          \/ /\ srv' = [srv EXCEPT !.chan = "failed"]
             /\ s2c' = Append(s2c, DownMsg("FAILURE", 0, 0))
      BY <1>6 DEF SrvAnswer, SrvSays
    <2>2. srv.granted + ServerWindow \in Nat
      BY <1>4, ServerFields, SizeAssumption
    <2>3. /\ [srv EXCEPT !.chan = "open", !.granted = srv.granted + ServerWindow] \in ServerState
          /\ [srv EXCEPT !.chan = "failed"] \in ServerState
      BY <1>4, <2>2, ServerUpdate
    <2>4. DownMsg("CONFIRM", 0, ServerWindow) \in Message /\ DownMsg("FAILURE", 0, 0) \in Message
      BY MessageTypes, SizeAssumption DEF MsgTypes
    <2> QED
      BY SMTT(40), <1>4, <2>1, <2>3, <2>4
  <1>7. CASE SrvGrant
    <2>1. PICK n \in Nat : /\ srv' = [srv EXCEPT !.granted = @ + n]
                           /\ s2c' = Append(s2c, DownMsg("ADJUST", 0, n))
      BY <1>7 DEF SrvGrant, SrvSays
    <2>2. DownMsg("ADJUST", 0, n) \in Message
      BY MessageTypes DEF MsgTypes
    <2>3. srv.granted + n \in Nat
      BY <1>4, ServerFields
    <2>4. srv' \in ServerState
      BY <1>4, <2>1, <2>3, ServerUpdate
    <2> QED
      BY <1>4, <2>1, <2>2, <2>4
  <1>8. CASE SrvSend
    <2>1. PICK n \in 1..MaxPacket : /\ srv' = [srv EXCEPT !.sent = @ + n]
                           /\ s2c' = Append(s2c, DownMsg("DATA", srv.sent, n))
      BY <1>8 DEF SrvSend, SrvSays
    <2>2. n \in Nat /\ srv.sent \in Nat /\ srv.sent + n \in Nat
      BY <1>4, ServerFields
    <2>3. DownMsg("DATA", srv.sent, n) \in Message
      BY <2>2, MessageTypes DEF MsgTypes
    <2>4. srv' \in ServerState
      BY <1>4, <2>1, <2>2, ServerUpdate
    <2> QED
      BY <1>4, <2>1, <2>2, <2>3, <2>4
  <1>9. CASE SrvEof \/ SrvClose \/ SrvRekey
    <2>1. \A type \in {"EOF", "CLOSE", "KEXINIT"} : DownMsg(type, 0, 0) \in Message
      BY MessageTypes DEF MsgTypes
    <2>2. \E type \in {"EOF", "CLOSE", "KEXINIT"} : s2c' = Append(s2c, DownMsg(type, 0, 0))
      BY <1>9 DEF SrvEof, SrvClose, SrvRekey, SrvSays
    <2>3. \/ srv' = [srv EXCEPT !.sentEof = TRUE] \/ srv' = [srv EXCEPT !.sentClose = TRUE]
          \/ srv' = [srv EXCEPT !.kex = TRUE, !.rekeys = @ + 1]
      BY <1>9 DEF SrvEof, SrvClose, SrvRekey
    <2>4. srv.rekeys + 1 \in Nat
      BY <1>4, ServerFields
    <2>5. /\ [srv EXCEPT !.sentEof = TRUE] \in ServerState
          /\ [srv EXCEPT !.sentClose = TRUE] \in ServerState
          /\ [srv EXCEPT !.kex = TRUE, !.rekeys = srv.rekeys + 1] \in ServerState
      BY <1>4, <2>4, TRUE \in BOOLEAN, ServerUpdate
    <2>6. srv' \in ServerState
      BY <2>3, <2>5
    <2> QED
      BY <1>4, <2>1, <2>2, <2>6
  <1> QED
    BY <1>2, <1>3, <1>5, <1>6, <1>7, <1>8, <1>9 DEF Next, Client, Server

\* TypeOK holds in every behaviour: windows and byte counts are never
\* negative, local_window stays inside local_window_max, and only messages of
\* the protocol are sent.
THEOREM TypeCorrect == Spec => []TypeOK
  <1>1. TypeOK /\ [Next]_vars => TypeOK'
    <2> SUFFICES ASSUME TypeOK, [Next]_vars PROVE TypeOK'
      OBVIOUS
    <2>1. NotificationType /\ AppType /\ DownType /\ ControlType /\ WindowType /\ QueueType
      BY DEF TypeOK
    <2>2. NotificationType' /\ AppType' /\ DownType' /\ ControlType' /\ WindowType'
      BY <2>1, NotificationStep, AppStep, DownStep, ControlStep, WindowStep
    <2>3. QueueType'
      BY <2>1, C2sStep, BufchainStep, ServerStep DEF QueueType
    <2> QED
      BY <2>2, <2>3 DEF TypeOK
  <1> QED
    BY InitType, <1>1, PTL DEF Spec

-----------------------------------------------------------------------------
(* Queues of messages that carry running totals.                           *)

\* The totals of the messages in q follow each other from start to end: each has
\* at least the size of its message more than the one before it.
Follows(start, q, size, total, end) ==
    /\ start <= end
    /\ \A i \in 1..Len(q) : start + size[q[i]] <= total[q[i]] /\ total[q[i]] <= end
    /\ \A i, j \in 1..Len(q) : i < j => total[q[i]] + size[q[j]] <= total[q[j]]

\* They are exactly these sums: nothing is missing between two messages.
Adjoins(start, q, size, total, end) ==
    /\ q = <<>> => start = end
    /\ q # <<>> => start + size[q[1]] = total[q[1]] /\ total[q[Len(q)]] = end
    /\ \A i \in 1..Len(q) : i + 1 <= Len(q) => total[q[i]] + size[q[i + 1]] = total[q[i + 1]]

\* The elements of a longer queue.
LEMMA AppendFacts ==
    ASSUME NEW S, NEW q \in Seq(S), NEW m \in S
    PROVE  /\ Append(q, m) \in Seq(S) /\ Append(q, m) # <<>>
           /\ Len(q) \in Nat /\ Len(Append(q, m)) = Len(q) + 1
           /\ \A i \in 1..Len(q) : Append(q, m)[i] = q[i] /\ q[i] \in S
           /\ Append(q, m)[Len(q) + 1] = m
           /\ \A i \in 1..Len(Append(q, m)) : i \in 1..Len(q) \/ i = Len(q) + 1
  <1>1. Len(q) \in Nat /\ Append(q, m) \in Seq(S) /\ Len(Append(q, m)) = Len(q) + 1
    OBVIOUS
  <1>2. \A i \in 1..Len(q) : Append(q, m)[i] = q[i] /\ q[i] \in S
    OBVIOUS
  <1>3. Append(q, m)[Len(q) + 1] = m
    OBVIOUS
  <1>4. Append(q, m) # <<>>
    <2>1. Len(Append(q, m)) # Len(<<>>)
      BY <1>1
    <2> QED
      BY <2>1, Zenon
  <1> QED
    BY <1>1, <1>2, <1>3, <1>4

\* The first element and the rest.
LEMMA TailFacts ==
    ASSUME NEW S, NEW q \in Seq(S), q # <<>>
    PROVE  /\ Head(q) = q[1] /\ Head(q) \in S /\ Tail(q) \in Seq(S)
           /\ Len(q) \in Nat \ {0} /\ Len(Tail(q)) = Len(q) - 1
           /\ \A i \in 1..Len(q) : q[i] \in S
           /\ \A i \in 1..Len(Tail(q)) : Tail(q)[i] = q[i + 1] /\ i + 1 \in 1..Len(q)
  OBVIOUS

\* A message that adds its size to the last total keeps the totals in order.
LEMMA FollowsAppend ==
    ASSUME NEW q \in Seq(Message), NEW m \in Message,
           NEW size \in [Message -> Nat], NEW total \in [Message -> Nat],
           NEW start \in Nat, NEW end \in Nat,
           Follows(start, q, size, total, end), end + size[m] <= total[m]
    PROVE  Follows(start, Append(q, m), size, total, total[m])
  <1> DEFINE r == Append(q, m)
  <1>1. /\ Len(q) \in Nat /\ Len(r) = Len(q) + 1
        /\ \A i \in 1..Len(q) : r[i] = q[i] /\ q[i] \in Message
        /\ r[Len(q) + 1] = m
        /\ \A i \in 1..Len(r) : i \in 1..Len(q) \/ i = Len(q) + 1
    BY AppendFacts
  <1>2. size[m] \in Nat /\ total[m] \in Nat
    OBVIOUS
  <1>3. \A i \in 1..Len(q) : size[q[i]] \in Nat /\ total[q[i]] \in Nat
    BY <1>1
  <1> HIDE DEF r
  <1>4. start <= total[m]
    BY <1>2 DEF Follows
  <1>5. \A i \in 1..Len(r) : start + size[r[i]] <= total[r[i]] /\ total[r[i]] <= total[m]
    <2> TAKE i \in 1..Len(r)
    <2>1. CASE i \in 1..Len(q)
      <3>1. r[i] = q[i] /\ start + size[q[i]] <= total[q[i]] /\ total[q[i]] <= end
        BY <1>1, <2>1 DEF Follows
      <3> QED
        BY SMTT(40), <1>2, <1>3, <2>1, <3>1
    <2>2. CASE i = Len(q) + 1
      <3>1. r[i] = m /\ start <= end
        BY <1>1, <2>2 DEF Follows
      <3> QED
        BY <1>2, <3>1
    <2> QED
      BY <1>1, <2>1, <2>2
  <1>6. \A i, j \in 1..Len(r) : i < j => total[r[i]] + size[r[j]] <= total[r[j]]
    <2> TAKE i, j \in 1..Len(r)
    <2> HAVE i < j
    <2>1. i \in 1..Len(q) /\ r[i] = q[i]
      BY SMTT(40), <1>1
    <2>2. CASE j \in 1..Len(q)
      BY <1>1, <2>1, <2>2 DEF Follows
    <2>3. CASE j = Len(q) + 1
      <3>1. r[j] = m /\ total[q[i]] <= end
        BY <1>1, <2>1, <2>3 DEF Follows
      <3> QED
        BY SMTT(40), <1>2, <1>3, <2>1, <3>1
    <2> QED
      BY <1>1, <2>2, <2>3
  <1> QED
    BY <1>4, <1>5, <1>6 DEF Follows, r

\* So does taking the first one, whose total is the new start.
LEMMA FollowsTail ==
    ASSUME NEW q \in Seq(Message), q # <<>>,
           NEW size \in [Message -> Nat], NEW total \in [Message -> Nat],
           NEW start \in Nat, NEW end \in Nat, NEW first \in Nat,
           Follows(start, q, size, total, end), first <= total[Head(q)]
    PROVE  Follows(first, Tail(q), size, total, end)
  <1> DEFINE r == Tail(q)
  <1>1. /\ Head(q) = q[1] /\ Len(q) \in Nat \ {0} /\ Len(r) = Len(q) - 1
        /\ \A i \in 1..Len(q) : q[i] \in Message
        /\ \A i \in 1..Len(r) : r[i] = q[i + 1] /\ i + 1 \in 1..Len(q)
    BY TailFacts
  <1> HIDE DEF r
  <1>2. \A i \in 1..Len(q) : size[q[i]] \in Nat /\ total[q[i]] \in Nat
    BY <1>1
  <1>3. 1 \in 1..Len(q) /\ total[q[1]] <= end /\ first <= end
    BY <1>1, <1>2 DEF Follows
  <1>4. \A i \in 1..Len(r) : first + size[r[i]] <= total[r[i]] /\ total[r[i]] <= end
    <2> TAKE i \in 1..Len(r)
    <2>1. r[i] = q[i + 1] /\ i + 1 \in 1..Len(q) /\ 1 < i + 1
      BY <1>1
    <2>2. total[q[1]] + size[q[i + 1]] <= total[q[i + 1]] /\ total[q[i + 1]] <= end
      BY <1>3, <2>1 DEF Follows
    <2>3. /\ total[q[1]] \in Nat /\ total[q[i + 1]] \in Nat /\ size[q[i + 1]] \in Nat
      BY <1>2, <1>3, <2>1
    <2>4. first <= total[q[1]]
      BY <1>1
    <2>5. first + size[q[i + 1]] <= total[q[i + 1]]
      BY SMTT(40), <2>2, <2>3, <2>4
    <2> QED
      BY <2>1, <2>2, <2>5
  <1>5. \A i, j \in 1..Len(r) : i < j => total[r[i]] + size[r[j]] <= total[r[j]]
    <2> TAKE i, j \in 1..Len(r)
    <2> HAVE i < j
    <2>1. r[i] = q[i + 1] /\ r[j] = q[j + 1] /\ i + 1 \in 1..Len(q) /\ j + 1 \in 1..Len(q) /\ i + 1 < j + 1
      BY SMTT(40), <1>1
    <2> QED
      BY <2>1 DEF Follows
  <1> QED
    BY <1>3, <1>4, <1>5 DEF Follows, r

\* The same for totals that leave nothing out.
LEMMA AdjoinsAppend ==
    ASSUME NEW q \in Seq(Message), NEW m \in Message,
           NEW size \in [Message -> Nat], NEW total \in [Message -> Nat],
           NEW start \in Nat, NEW end \in Nat,
           Adjoins(start, q, size, total, end), end + size[m] = total[m]
    PROVE  Adjoins(start, Append(q, m), size, total, total[m])
  <1> DEFINE r == Append(q, m)
  <1>1. /\ Len(q) \in Nat /\ Len(r) = Len(q) + 1 /\ r # <<>>
        /\ \A i \in 1..Len(q) : r[i] = q[i]
        /\ r[Len(q) + 1] = m
        /\ \A i \in 1..Len(r) : i \in 1..Len(q) \/ i = Len(q) + 1
    BY SMTT(40), AppendFacts
  <1>2. Len(q) = 0 => q = <<>>
    OBVIOUS
  <1> HIDE DEF r
  <1>3. start + size[r[1]] = total[r[1]] /\ total[r[Len(r)]] = total[m]
    BY SMTT(40), <1>1, <1>2 DEF Adjoins
  <1>4. \A i \in 1..Len(r) : i + 1 <= Len(r) => total[r[i]] + size[r[i + 1]] = total[r[i + 1]]
    <2> SUFFICES ASSUME NEW i \in 1..Len(r), i + 1 <= Len(r)
                 PROVE  total[r[i]] + size[r[i + 1]] = total[r[i + 1]]
      OBVIOUS
    <2>1. CASE i + 1 <= Len(q)
      <3>1. r[i] = q[i] /\ r[i + 1] = q[i + 1] /\ i \in 1..Len(q)
        BY SMTT(40), <1>1, <2>1
      <3> QED
        BY <2>1, <3>1 DEF Adjoins
    <2>2. CASE i = Len(q)
      <3>1. r[i] = q[Len(q)] /\ r[i + 1] = m /\ q # <<>>
        BY <1>1, <1>2, <2>2
      <3> QED
        BY <3>1 DEF Adjoins
    <2> QED
      BY <1>1, <2>1, <2>2
  <1> QED
    BY <1>1, <1>3, <1>4 DEF Adjoins, r

\* Taking the first message of them makes its total the new start.
LEMMA AdjoinsTail ==
    ASSUME NEW q \in Seq(Message), q # <<>>,
           NEW size \in [Message -> Nat], NEW total \in [Message -> Nat],
           NEW start \in Nat, NEW end \in Nat,
           Adjoins(start, q, size, total, end)
    PROVE  Adjoins(total[Head(q)], Tail(q), size, total, end)
  <1> DEFINE r == Tail(q)
  <1>1. /\ Head(q) = q[1] /\ Len(q) \in Nat \ {0} /\ Len(r) = Len(q) - 1
        /\ \A i \in 1..Len(r) : r[i] = q[i + 1] /\ i + 1 \in 1..Len(q)
    BY TailFacts
  <1>2. (r = <<>> => Len(r) = 0) /\ (Len(r) = 0 => r = <<>>)
    <2> HIDE DEF r
    <2>1. r \in Seq(Message)
      BY TailFacts DEF r
    <2>2. Len(r) = 0 => r = <<>>
      BY <2>1
    <2> QED
      BY <2>2
  <1> HIDE DEF r
  <1>3. r = <<>> => total[q[1]] = end
    <2>1. r = <<>> => Len(q) = 1
      BY <1>1, <1>2
    <2> QED
      BY <2>1 DEF Adjoins
  <1>4. r # <<>> => total[q[1]] + size[r[1]] = total[r[1]] /\ total[r[Len(r)]] = end
    <2> SUFFICES ASSUME r # <<>> PROVE total[q[1]] + size[r[1]] = total[r[1]] /\ total[r[Len(r)]] = end
      OBVIOUS
    <2>1. Len(r) # 0
      BY <1>1, <1>2
    <2>2. /\ 1 \in 1..Len(r) /\ Len(r) \in 1..Len(r) /\ Len(r) + 1 = Len(q)
          /\ 1 \in 1..Len(q) /\ 1 + 1 <= Len(q)
      BY <1>1, <2>1
    <2>3. r[1] = q[1 + 1] /\ r[Len(r)] = q[Len(q)]
      BY <1>1, <2>2
    <2>4. total[q[1]] + size[q[1 + 1]] = total[q[1 + 1]] /\ total[q[Len(q)]] = end
      BY <2>2 DEF Adjoins
    <2> QED
      BY <2>3, <2>4
  <1>5. \A i \in 1..Len(r) : i + 1 <= Len(r) => total[r[i]] + size[r[i + 1]] = total[r[i + 1]]
    <2> SUFFICES ASSUME NEW i \in 1..Len(r), i + 1 <= Len(r)
                 PROVE  total[r[i]] + size[r[i + 1]] = total[r[i + 1]]
      OBVIOUS
    <2>1. r[i] = q[i + 1] /\ r[i + 1] = q[(i + 1) + 1] /\ i + 1 \in 1..Len(q) /\ (i + 1) + 1 <= Len(q)
      BY SMTT(40), <1>1
    <2> QED
      BY <2>1 DEF Adjoins
  <1> QED
    BY <1>1, <1>3, <1>4, <1>5 DEF Adjoins, r

-----------------------------------------------------------------------------
(* The window of the server.                                               *)

\* The window a message of the server grants, and its running total.
Granting == [m \in Message |-> Grant(m.type, m.n)]
Credit   == [m \in Message |-> m.credit]

\* The window the client got, that on its way to it, and that granted.
GrantsInOrder == Follows(gotCredit, s2c, Granting, Credit, srv.granted)

\* What is left of the window and what was sent never exceed what was granted.
WindowBalance == remote_window + sent <= gotCredit

\* The two measures of a message.
LEMMA GrantMeasures ==
    /\ Granting \in [Message -> Nat] /\ Credit \in [Message -> Nat]
    /\ \A m \in Message : /\ Granting[m] = Grant(m.type, m.n) /\ Credit[m] = m.credit
                          /\ Granting[m] \in Nat /\ Credit[m] \in Nat
  <1>1. \A m \in Message : Grant(m.type, m.n) \in Nat /\ m.credit \in Nat
    BY FieldTypes DEF Grant
  <1> QED
    BY <1>1 DEF Granting, Credit

\* An append of the server keeps the grants in order.
LEMMA GrantAppended ==
    ASSUME WindowType, QueueType, GrantsInOrder, UNCHANGED gotCredit,
           NEW m \in Message,
           m.credit = srv.granted + Grant(m.type, m.n),
           s2c' = Append(s2c, m), srv'.granted = m.credit
    PROVE  GrantsInOrder'
  <1>1. srv.granted \in Nat /\ gotCredit \in Nat /\ s2c \in Seq(Message)
    BY ServerFields DEF QueueType, WindowType
  <1>2. srv.granted + Granting[m] <= Credit[m] /\ Credit[m] = srv'.granted
    BY <1>1, GrantMeasures
  <1>3. Follows(gotCredit, Append(s2c, m), Granting, Credit, Credit[m])
    BY <1>1, <1>2, GrantMeasures, FollowsAppend DEF GrantsInOrder
  <1> QED
    BY <1>2, <1>3 DEF GrantsInOrder

\* So does the client when it takes a message and its window.
LEMMA GrantTaken ==
    ASSUME WindowType, QueueType, GrantsInOrder, s2c # <<>>, s2c' = Tail(s2c),
           UNCHANGED srv, gotCredit' = gotCredit + Grant(Head(s2c).type, Head(s2c).n)
    PROVE  GrantsInOrder'
  <1>1. srv.granted \in Nat /\ gotCredit \in Nat /\ s2c \in Seq(Message)
    BY ServerFields DEF QueueType, WindowType
  <1>2. Head(s2c) = s2c[1] /\ Head(s2c) \in Message /\ 1 \in 1..Len(s2c)
    BY <1>1, TailFacts
  <1>3. gotCredit + Granting[s2c[1]] <= Credit[s2c[1]]
    BY <1>2 DEF GrantsInOrder, Follows
  <1>4. gotCredit' = gotCredit + Granting[Head(s2c)]
    BY <1>2, GrantMeasures
  <1>5. gotCredit' \in Nat /\ gotCredit' <= Credit[Head(s2c)]
    BY <1>1, <1>2, <1>3, <1>4, GrantMeasures
  <1>6. Follows(gotCredit', Tail(s2c), Granting, Credit, srv.granted)
    BY <1>1, <1>5, GrantMeasures, FollowsTail DEF GrantsInOrder
  <1> QED
    BY <1>6 DEF GrantsInOrder

\* Only the client takes messages, and only the server adds them.
LEMMA GrantsStep ==
    ASSUME WindowType, QueueType, GrantsInOrder, [Next]_vars
    PROVE  GrantsInOrder'
  <1>1. CASE s2c' = s2c /\ srv'.granted = srv.granted /\ UNCHANGED gotCredit
    BY <1>1 DEF GrantsInOrder
  <1>2. CASE ClientReceives
    <2>1. s2c # <<>> /\ s2c' = Tail(s2c) /\ UNCHANGED srv
      BY <1>2 DEF ClientReceives, RcvData, RcvEof, RcvConfirm, RcvFailure, RcvClose,
         RcvAdjust, RcvKexinit, RcvNewkeys
    <2>2. gotCredit' = gotCredit + Grant(Head(s2c).type, Head(s2c).n)
      <3>1. CASE RcvConfirm \/ RcvAdjust
        BY <3>1 DEF RcvConfirm, RcvAdjust, Grant
      <3>2. CASE RcvData \/ RcvEof \/ RcvFailure \/ RcvClose \/ RcvKexinit \/ RcvNewkeys
        <4>1. UNCHANGED gotCredit
          BY <3>2 DEF RcvData, RcvEof, RcvFailure, RcvClose, RcvKexinit, RcvNewkeys, winVars
        <4>2. Head(s2c).type \notin {"CONFIRM", "ADJUST"}
          BY <3>2 DEF RcvData, RcvEof, RcvFailure, RcvClose, RcvKexinit, RcvNewkeys
        <4>3. gotCredit \in Nat
          BY DEF WindowType
        <4> QED
          BY <4>1, <4>2, <4>3 DEF Grant
      <3> QED
        BY <1>2, <3>1, <3>2 DEF ClientReceives
    <2> QED
      BY <2>1, <2>2, GrantTaken
  <1>3. CASE AppWrite \/ AppEnd \/ SockWritable \/ Accept \/ ReadStops \/ ReadFails
             \/ ReadSome \/ OnFdRead \/ OnFdClose \/ OnFdWrite \/ RetrySend \/ RetryEnds
             \/ UNCHANGED vars
    <2>1. UNCHANGED <<s2c, srv, gotCredit>>
      BY <1>3 DEF AppWrite, AppEnd, SockWritable, Accept, ReadStops, ReturnFromRead,
         ReadFails, ReadSome, OnFdRead, OnFdClose, OnFdWrite, RetrySend, RetryEnds, vars,
         winVars
    <2> QED
      BY <1>1, <2>1
  <1>4. srv \in ServerState /\ srv.granted \in Nat
    BY ServerFields DEF QueueType
  <1>5. CASE Server
    <2>1. UNCHANGED gotCredit
      BY <1>5 DEF Server, SrvReceive, SrvAnswer, SrvGrant, SrvSend, SrvEof, SrvClose,
         SrvRekey, clientVars, winVars
    <2>2. \/ s2c' = s2c /\ srv'.granted = srv.granted
          \/ \E type \in MsgTypes, lo, n \in Nat :
               /\ s2c' = Append(s2c, DownMsg(type, lo, n))
               /\ srv'.granted = srv.granted + Grant(type, n)
      <3>1. CASE SrvReceive
        <4>1. srv'.granted = srv.granted
          BY <1>4, <3>1 DEF SrvReceive, ServerState
        <4>2. s2c' \in {s2c, Append(s2c, DownMsg("NEWKEYS", 0, 0))}
          BY <3>1 DEF SrvReceive, SrvSays
        <4> QED
          BY <1>4, <4>1, <4>2 DEF Grant, MsgTypes
      <3>2. CASE SrvAnswer
        <4>1. \/ /\ srv' = [srv EXCEPT !.chan = "open", !.granted = @ + ServerWindow]
                 /\ s2c' = Append(s2c, DownMsg("CONFIRM", 0, ServerWindow))
              \/ /\ srv' = [srv EXCEPT !.chan = "failed"]
                 /\ s2c' = Append(s2c, DownMsg("FAILURE", 0, 0))
          BY <3>2 DEF SrvAnswer, SrvSays
        <4>2. CASE srv' = [srv EXCEPT !.chan = "open", !.granted = @ + ServerWindow]
                   /\ s2c' = Append(s2c, DownMsg("CONFIRM", 0, ServerWindow))
          <5>1. srv'.granted = srv.granted + Grant("CONFIRM", ServerWindow)
            BY <1>4, <4>2 DEF ServerState, Grant
          <5> QED
            BY <4>2, <5>1, SizeAssumption DEF MsgTypes
        <4>3. CASE srv' = [srv EXCEPT !.chan = "failed"]
                   /\ s2c' = Append(s2c, DownMsg("FAILURE", 0, 0))
          <5>1. srv'.granted = srv.granted + Grant("FAILURE", 0)
            BY <1>4, <4>3 DEF ServerState, Grant
          <5> QED
            BY <4>3, <5>1 DEF MsgTypes
        <4> QED
          BY <4>1, <4>2, <4>3
      <3>3. CASE SrvGrant
        <4>1. PICK n \in Nat : /\ srv' = [srv EXCEPT !.granted = @ + n]
                               /\ s2c' = Append(s2c, DownMsg("ADJUST", 0, n))
          BY <3>3 DEF SrvGrant, SrvSays
        <4>2. srv'.granted = srv.granted + Grant("ADJUST", n)
          BY <1>4, <4>1 DEF ServerState, Grant
        <4> QED
          BY <4>1, <4>2 DEF MsgTypes
      <3>4. CASE SrvSend
        <4>1. PICK n \in 1..MaxPacket : /\ srv' = [srv EXCEPT !.sent = @ + n]
                                        /\ s2c' = Append(s2c, DownMsg("DATA", srv.sent, n))
          BY <3>4 DEF SrvSend, SrvSays
        <4>2. srv'.granted = srv.granted + Grant("DATA", n)
          BY <1>4, <4>1 DEF ServerState, Grant
        <4>3. srv.sent \in Nat /\ n \in Nat
          BY <1>4, ServerFields
        <4> QED
          BY <4>1, <4>2, <4>3 DEF MsgTypes
      <3>5. CASE SrvEof \/ SrvClose \/ SrvRekey
        <4>1. srv'.granted = srv.granted
          BY <1>4, <3>5 DEF SrvEof, SrvClose, SrvRekey, ServerState
        <4>2. PICK type \in {"EOF", "CLOSE", "KEXINIT"} : s2c' = Append(s2c, DownMsg(type, 0, 0))
          BY <3>5 DEF SrvEof, SrvClose, SrvRekey, SrvSays
        <4> QED
          BY <1>4, <4>1, <4>2 DEF Grant, MsgTypes
      <3> QED
        BY <1>5, <3>1, <3>2, <3>3, <3>4, <3>5 DEF Server
    <2>3. CASE \E type \in MsgTypes, lo, n \in Nat :
                 /\ s2c' = Append(s2c, DownMsg(type, lo, n))
                 /\ srv'.granted = srv.granted + Grant(type, n)
      <3>1. PICK type \in MsgTypes, lo \in Nat, n \in Nat :
                 /\ s2c' = Append(s2c, DownMsg(type, lo, n))
                 /\ srv'.granted = srv.granted + Grant(type, n)
        BY <2>3
      <3>2. DownMsg(type, lo, n) \in Message
        BY MessageTypes
      <3>3. DownMsg(type, lo, n).credit = srv.granted + Grant(type, n)
            /\ DownMsg(type, lo, n).type = type /\ DownMsg(type, lo, n).n = n
        BY DEF DownMsg
      <3> QED
        BY <2>1, <3>1, <3>2, <3>3, GrantAppended
    <2> QED
      BY <1>1, <2>1, <2>2, <2>3
  <1> QED
    BY <1>2, <1>3, <1>5 DEF Next, Client

\* DATA uses the window it needs, and nothing else does.
LEMMA BalanceStep ==
    ASSUME AppType, WindowType, QueueType, WindowBalance, [Next]_vars
    PROVE  WindowBalance'
  <1>1. CASE UNCHANGED <<remote_window, sent, gotCredit>>
    BY <1>1 DEF WindowBalance
  <1>2. CASE ReadSome
    <2> DEFINE n == IF Unread < ReadBuf THEN Unread ELSE ReadBuf
    <2>1. n \in Nat \ {0}
      BY <1>2, SizeAssumption DEF ReadSome, Unread, AppType
    <2>2. SendChannelData(recvd, n) /\ UNCHANGED gotCredit
      BY <1>2 DEF ReadSome
    <2> HIDE DEF n
    <2>3. \/ UNCHANGED <<remote_window, sent>>
          \/ remote_window' = remote_window - n /\ sent' = sent + n
      BY <2>2 DEF SendChannelData, SendNow
    <2> QED
      BY <2>1, <2>2, <2>3 DEF WindowBalance, WindowType
  <1>3. CASE RetrySend
    <2> DEFINE n == Head(bufchain).n
    <2>1. n \in Nat
      BY <1>3, QueueHeads, FieldTypes DEF RetrySend
    <2>2. UNCHANGED gotCredit
      BY <1>3 DEF RetrySend
    <2>3. \/ UNCHANGED <<remote_window, sent>>
          \/ remote_window' = remote_window - n /\ sent' = sent + n
      BY <1>3 DEF RetrySend, SendNow
    <2> HIDE DEF n
    <2> QED
      BY <2>1, <2>2, <2>3 DEF WindowBalance, WindowType
  <1>4. CASE RcvConfirm \/ RcvAdjust
    <2>1. Head(s2c).n \in Nat
      BY <1>4, QueueHeads, FieldTypes DEF RcvConfirm, RcvAdjust
    <2>2. /\ remote_window' \in {remote_window, Head(s2c).n, remote_window + Head(s2c).n}
          /\ gotCredit' = gotCredit + Head(s2c).n
      BY <1>4 DEF RcvConfirm, RcvAdjust
    <2>3. UNCHANGED sent
      BY <1>4 DEF RcvConfirm, RcvAdjust, upVars
    <2> QED
      BY <2>1, <2>2, <2>3 DEF WindowBalance, WindowType
  <1>5. CASE RcvFailure \/ RcvClose
    <2>1. remote_window' = 0 /\ UNCHANGED <<sent, gotCredit>>
      BY <1>5 DEF RcvFailure, RcvClose, ChannelDelete, upVars
    <2> QED
      BY <2>1 DEF WindowBalance, WindowType
  <1>6. CASE AppWrite \/ AppEnd \/ SockWritable \/ Accept \/ OnFdRead \/ OnFdClose \/ OnFdWrite
             \/ ReadStops \/ ReadFails \/ RetryEnds \/ RcvData \/ RcvEof \/ RcvKexinit
             \/ RcvNewkeys
    <2>1. UNCHANGED <<remote_window, sent, gotCredit>>
      BY <1>6 DEF AppWrite, AppEnd, SockWritable, Accept, OnFdRead, OnFdClose, OnFdWrite,
         ReadStops, ReturnFromRead, ReadFails, RetryEnds, RcvData, RcvEof, RcvKexinit,
         RcvNewkeys, winVars, upVars
    <2> QED
      BY <1>1, <2>1
  <1>7. CASE Server \/ UNCHANGED vars
    <2>1. UNCHANGED <<remote_window, sent, gotCredit>>
      BY <1>7 DEF Server, SrvReceive, SrvAnswer, SrvGrant, SrvSend, SrvEof, SrvClose,
         SrvRekey, clientVars, vars, winVars, upVars
    <2> QED
      BY <1>1, <2>1
  <1> QED
    BY <1>2, <1>3, <1>4, <1>5, <1>6, <1>7 DEF Next, Client, ClientReceives

\* The client never sends more than the server granted, in whatever order
\* reads, retries, adjustments, key exchanges and closing come.
THEOREM NeverOverruns == Spec => []WindowRespected
  <1>1. Init => GrantsInOrder /\ WindowBalance
    <2> SUFFICES ASSUME Init PROVE GrantsInOrder /\ WindowBalance
      OBVIOUS
    <2>1. Len(s2c) = 0 /\ gotCredit = 0 /\ srv.granted = 0 /\ remote_window = 0 /\ sent = 0
      BY DEF Init
    <2> QED
      BY <2>1 DEF GrantsInOrder, Follows, WindowBalance
  <1>2. TypeOK /\ GrantsInOrder /\ WindowBalance /\ [Next]_vars => (GrantsInOrder /\ WindowBalance)'
    BY GrantsStep, BalanceStep DEF TypeOK
  <1>3. TypeOK /\ GrantsInOrder /\ WindowBalance => WindowRespected
    <2> SUFFICES ASSUME TypeOK, GrantsInOrder, WindowBalance PROVE WindowRespected
      OBVIOUS
    <2>1. /\ remote_window \in Nat /\ sent \in Nat /\ gotCredit \in Nat /\ srv.granted \in Nat
      BY ServerFields DEF TypeOK, WindowType, QueueType
    <2>2. gotCredit <= srv.granted /\ remote_window + sent <= gotCredit
      BY DEF GrantsInOrder, Follows, WindowBalance
    <2> QED
      BY <2>1, <2>2 DEF WindowRespected
  <1> QED
    BY TypeCorrect, <1>1, <1>2, <1>3, PTL DEF Spec

-----------------------------------------------------------------------------
(* What the client says.                                                   *)

\* The window a message of the client offers.
Offer(m) ==
    CASE m.type = "OPEN" -> LocalWindow [] m.type = "ADJUST" -> m.n [] OTHER -> 0

\* What the client may say, and in which handler.
Says(m) ==
    /\ m \in Message
    /\ \/ m.type = "OPEN" /\ Accept /\ ~rekeying
       \/ m.type = "DATA" /\ (ReadSome \/ RetrySend) /\ sent' = sent + m.n
       \/ m.type = "EOF" /\ (sockOpen \/ RcvConfirm)
       \/ m.type = "ADJUST" /\ RcvData /\ Acceptable(Head(s2c).n)
       \/ m.type = "CLOSE" /\ RcvClose /\ ~close_sent
       \/ m.type = "KEXINIT" /\ RcvKexinit

\* The message m is appended and carries the window granted with it.
SaysOne ==
    \E m \in Message : /\ Says(m)
                       /\ c2s' = Append(c2s, m)
                       /\ m.credit = granted' /\ granted' = granted + Offer(m)

\* A reset connection is closed and the window is topped up, in one handler.
SaysTwo ==
    \E m, k \in Message : /\ Says(m) /\ m.type = "EOF" /\ m.credit = granted
                          /\ Says(k) /\ k.type = "ADJUST"
                          /\ c2s' = Append(Append(c2s, m), k)
                          /\ k.credit = granted' /\ granted' = granted + Offer(k)

\* The fields of a message of the client.
LEMMA UpMessage ==
    ASSUME WindowType, QueueType, NEW type \in MsgTypes, NEW lo \in Nat, NEW n \in Nat, NEW grant \in Nat
    PROVE  /\ UpMsg(type, lo, n, grant) \in Message
           /\ UpMsg(type, lo, n, grant).type = type
           /\ UpMsg(type, lo, n, grant).lo = lo
           /\ UpMsg(type, lo, n, grant).n = n
           /\ UpMsg(type, lo, n, grant).credit = granted + grant
  BY MessageTypes DEF UpMsg

\* closed_local_connection and FWD_confirmed_open send EOF.
LEMMA EofSaid ==
    ASSUME WindowType, QueueType, granted' = granted, sockOpen \/ RcvConfirm,
           c2s' = Append(c2s, UpMsg("EOF", 0, 0, 0))
    PROVE  SaysOne
  <1> DEFINE m == UpMsg("EOF", 0, 0, 0)
  <1>1. m \in Message /\ m.type = "EOF" /\ m.credit = granted + 0
    BY UpMessage DEF MsgTypes
  <1>2. granted \in Nat
    BY DEF WindowType
  <1>3. Says(m) /\ Offer(m) = 0
    BY <1>1 DEF Says, Offer
  <1> QED
    BY <1>1, <1>2, <1>3 DEF SaysOne

\* A read is sent, queued or thrown away.
LEMMA ReadSaid ==
    ASSUME AppType, WindowType, QueueType, ReadSome
    PROVE  UNCHANGED <<c2s, granted>> \/ SaysOne
  <1> DEFINE n == IF Unread < ReadBuf THEN Unread ELSE ReadBuf
             m == UpMsg("DATA", recvd, n, 0)
  <1>1. n \in Nat \ {0} /\ recvd \in Nat /\ granted \in Nat
    BY SizeAssumption DEF ReadSome, Unread, AppType, WindowType
  <1>2. SendChannelData(recvd, n) /\ granted' = granted
    BY DEF ReadSome
  <1>3. c2s' = c2s \/ (c2s' = Append(c2s, m) /\ sent' = sent + n)
    BY <1>2 DEF SendChannelData, SendNow
  <1> HIDE DEF n
  <1>4. m \in Message /\ m.type = "DATA" /\ m.n = n /\ m.credit = granted + 0
    <2>1. "DATA" \in MsgTypes /\ n \in Nat /\ recvd \in Nat /\ 0 \in Nat
      BY <1>1 DEF MsgTypes
    <2>2. m \in Message
      BY <2>1, UpMessage
    <2>3. m.type = "DATA"
      BY <2>1, UpMessage
    <2>4. m.n = n
      BY <2>1, UpMessage
    <2>5. m.credit = granted + 0
      BY <2>1, UpMessage
    <2> QED
      BY <2>2, <2>3, <2>4, <2>5
  <1> HIDE DEF m
  <1>5. Offer(m) = 0
    BY <1>4 DEF Offer
  <1>6. CASE c2s' = Append(c2s, m) /\ sent' = sent + n
    <2>1. Says(m)
      BY <1>4, <1>6 DEF Says
    <2> QED
      BY <1>1, <1>2, <1>4, <1>5, <1>6, <2>1 DEF SaysOne
  <1> QED
    BY <1>2, <1>3, <1>6

\* A chunk of the bufchain is sent or thrown away.
LEMMA RetrySaid ==
    ASSUME WindowType, QueueType, RetrySend
    PROVE  UNCHANGED <<c2s, granted>> \/ SaysOne
  <1> DEFINE k == Head(bufchain)
             m == UpMsg("DATA", k.lo, k.n, 0)
  <1>1. k.lo \in Nat /\ k.n \in Nat /\ granted \in Nat /\ granted' = granted
    BY QueueHeads, FieldTypes DEF RetrySend, WindowType
  <1>2. c2s' = c2s \/ (c2s' = Append(c2s, m) /\ sent' = sent + k.n)
    BY DEF RetrySend, SendNow
  <1> HIDE DEF k
  <1>3. m \in Message /\ m.type = "DATA" /\ m.n = k.n /\ m.credit = granted + 0
    <2>1. "DATA" \in MsgTypes /\ k.lo \in Nat /\ k.n \in Nat /\ 0 \in Nat
      BY <1>1 DEF MsgTypes
    <2>2. m \in Message
      BY <2>1, UpMessage
    <2>3. m.type = "DATA"
      BY <2>1, UpMessage
    <2>4. m.n = k.n
      BY <2>1, UpMessage
    <2>5. m.credit = granted + 0
      BY <2>1, UpMessage
    <2> QED
      BY <2>2, <2>3, <2>4, <2>5
  <1> HIDE DEF m
  <1>4. Offer(m) = 0
    BY <1>3 DEF Offer
  <1>5. CASE c2s' = Append(c2s, m) /\ sent' = sent + k.n
    <2>1. Says(m)
      BY <1>3, <1>5 DEF Says
    <2> QED
      BY <1>1, <1>3, <1>4, <1>5, <2>1 DEF SaysOne
  <1> QED
    BY <1>1, <1>2, <1>5

\* DATA may be answered with EOF, ADJUST or both.
LEMMA DataSaid ==
    ASSUME WindowType, QueueType, RcvData
    PROVE  UNCHANGED <<c2s, granted>> \/ SaysOne \/ SaysTwo
  <1> DEFINE w == local_window - Head(s2c).n
             e == UpMsg("EOF", 0, 0, 0)
             a == UpMsg("ADJUST", 0, AdjustBy(w), AdjustBy(w))
  <1>1. Head(s2c).n \in Nat /\ granted \in Nat
    BY QueueHeads, FieldTypes DEF RcvData, WindowType
  <1>2. CASE ~Acceptable(Head(s2c).n)
    BY <1>2 DEF RcvData
  <1>3. CASE Acceptable(Head(s2c).n)
    <2>1. AdjustBy(w) \in Nat
      BY <1>1, <1>3, SizeAssumption DEF Acceptable, WindowType, AdjustBy
    <2>2. AdjustWindow(w)
      BY <1>3 DEF RcvData
    <2> HIDE DEF w
    <2>3. e \in Message /\ e.type = "EOF" /\ e.credit = granted + 0
      BY UpMessage DEF MsgTypes
    <2>4. a \in Message /\ a.type = "ADJUST" /\ a.n = AdjustBy(w) /\ a.credit = granted + AdjustBy(w)
      BY <2>1, UpMessage DEF MsgTypes
    <2>5. \/ ClosureQueue = c2s
          \/ ClosureQueue = Append(c2s, e) /\ sockOpen
      BY DEF ClosureQueue, ClosureSends
    <2>6. \/ c2s' = ClosureQueue /\ granted' = granted
          \/ c2s' = Append(ClosureQueue, a) /\ granted' = granted + AdjustBy(w)
      BY <2>2 DEF AdjustWindow
    <2> HIDE DEF e, a
    <2>7. Says(a) /\ Offer(a) = AdjustBy(w) /\ Offer(e) = 0
      BY <1>3, <2>3, <2>4 DEF Says, Offer
    <2>8. sockOpen => Says(e)
      BY <2>3 DEF Says
    <2>9. CASE ClosureQueue = c2s
      BY <1>1, <2>3, <2>4, <2>6, <2>7, <2>9 DEF SaysOne
    <2>10. CASE ClosureQueue = Append(c2s, e) /\ sockOpen
      <3>1. CASE c2s' = ClosureQueue /\ granted' = granted
        BY <1>1, <2>3, <2>7, <2>8, <2>10, <3>1 DEF SaysOne
      <3>2. CASE c2s' = Append(ClosureQueue, a) /\ granted' = granted + AdjustBy(w)
        BY <1>1, <2>3, <2>4, <2>7, <2>8, <2>10, <3>2 DEF SaysTwo
      <3> QED
        BY <2>6, <3>1, <3>2
    <2> QED
      BY <2>5, <2>9, <2>10
  <1> QED
    BY <1>2, <1>3

\* What a step puts on the wire to the server.
LEMMA ClientSays ==
    ASSUME AppType, WindowType, QueueType, [Next]_vars
    PROVE  \/ UNCHANGED <<c2s, granted>>
           \/ SrvReceive /\ UNCHANGED granted
           \/ SaysOne \/ SaysTwo
  <1>1. CASE Accept
    <2> DEFINE m == UpMsg("OPEN", 0, 0, LocalWindow)
    <2>1. CASE rekeying
      BY <1>1, <2>1 DEF Accept
    <2>2. CASE ~rekeying
      <3>1. c2s' = Append(c2s, m) /\ granted' = granted + LocalWindow
        BY <1>1, <2>2 DEF Accept
      <3>2. m \in Message /\ m.type = "OPEN" /\ m.credit = granted + LocalWindow
        BY SizeAssumption, UpMessage DEF MsgTypes
      <3>3. Says(m) /\ Offer(m) = LocalWindow
        BY <1>1, <2>2, <3>2 DEF Says, Offer
      <3> QED
        BY <3>1, <3>2, <3>3 DEF SaysOne
    <2> QED
      BY <2>1, <2>2
  <1>2. CASE ReadStops \/ ReadFails \/ OnFdClose \/ OnFdWrite
    <2>1. granted' = granted
      BY <1>2 DEF ReadStops, ReturnFromRead, ReadFails, OnFdClose, OnFdWrite, winVars
    <2>2. c2s' = c2s \/ (c2s' = Append(c2s, UpMsg("EOF", 0, 0, 0)) /\ sockOpen)
      BY <1>2 DEF ReadStops, ReturnFromRead, ReadFails, OnFdClose, OnFdWrite,
         OnClosedLocalConnection, ClosureSends
    <2> QED
      BY <2>1, <2>2, EofSaid
  <1>3. CASE RcvConfirm
    <2>1. granted' = granted /\ (c2s' = c2s \/ c2s' = Append(c2s, UpMsg("EOF", 0, 0, 0)))
      BY <1>3 DEF RcvConfirm
    <2> QED
      BY <1>3, <2>1, EofSaid
  <1>4. CASE RcvClose \/ RcvKexinit
    <2>1. granted' = granted /\ granted \in Nat
      BY <1>4 DEF RcvClose, RcvKexinit, winVars, WindowType
    <2>2. \/ c2s' = c2s
          \/ \E type \in {"CLOSE", "KEXINIT"} :
               /\ c2s' = Append(c2s, UpMsg(type, 0, 0, 0))
               /\ type = "CLOSE" => RcvClose /\ ~close_sent
               /\ type = "KEXINIT" => RcvKexinit
      BY <1>4 DEF RcvClose, SendClose, RcvKexinit
    <2>3. ASSUME NEW type \in {"CLOSE", "KEXINIT"},
                 c2s' = Append(c2s, UpMsg(type, 0, 0, 0)),
                 type = "CLOSE" => RcvClose /\ ~close_sent,
                 type = "KEXINIT" => RcvKexinit
          PROVE  SaysOne
      <3> DEFINE m == UpMsg(type, 0, 0, 0)
      <3>1. m \in Message /\ m.type = type /\ m.credit = granted + 0
        BY UpMessage DEF MsgTypes
      <3>2. Says(m) /\ Offer(m) = 0
        BY <2>3, <3>1 DEF Says, Offer
      <3> QED
        BY <2>1, <2>3, <3>1, <3>2 DEF SaysOne
    <2> QED
      BY <2>1, <2>2, <2>3
  <1>5. CASE AppWrite \/ AppEnd \/ SockWritable \/ OnFdRead \/ RcvEof \/ RcvFailure
             \/ RcvAdjust \/ RetryEnds \/ RcvNewkeys
    BY <1>5 DEF AppWrite, AppEnd, SockWritable, OnFdRead, RcvEof, RcvFailure, RcvAdjust,
       RetryEnds, RcvNewkeys, winVars
  <1>6. CASE Server \/ UNCHANGED vars
    BY <1>6 DEF Server, SrvReceive, SrvAnswer, SrvGrant, SrvSend, SrvEof, SrvClose, SrvRekey,
       clientVars, vars, winVars
  <1>7. CASE ReadSome
    BY <1>7, ReadSaid
  <1>8. CASE RetrySend
    BY <1>8, RetrySaid
  <1>9. CASE RcvData
    BY <1>9, DataSaid
  <1> QED
    BY <1>1, <1>2, <1>3, <1>4, <1>5, <1>6, <1>7, <1>8, <1>9 DEF Next, Client, ClientReceives

-----------------------------------------------------------------------------
(* What the server says, and what each end does with a message.            *)

\* The messages about the channel; the others are about the keys.
ChannelTypes == {"CONFIRM", "FAILURE", "DATA", "ADJUST", "EOF", "CLOSE"}

\* The bytes a message of the server carries.
Carried(m) == IF m.type = "DATA" THEN m.n ELSE 0

\* The fields of a message of the server.
LEMMA DownMessage ==
    ASSUME WindowType, QueueType, NEW type \in MsgTypes, NEW lo \in Nat, NEW n \in Nat
    PROVE  /\ DownMsg(type, lo, n) \in Message
           /\ DownMsg(type, lo, n).type = type
           /\ DownMsg(type, lo, n).n = n
           /\ DownMsg(type, lo, n).data = srv.sent + Carried(DownMsg(type, lo, n))
  <1>1. DownMsg(type, lo, n) \in Message
    BY MessageTypes
  <1>2. srv.sent \in Nat
    BY ServerFields DEF QueueType
  <1> QED
    BY <1>1, <1>2 DEF DownMsg, Carried

\* The server takes a message of the client.
LEMMA ServerReceives ==
    ASSUME WindowType, QueueType, SrvReceive
    PROVE  /\ c2s # <<>> /\ c2s' = Tail(c2s) /\ UNCHANGED clientVars
           /\ \/ s2c' = s2c
              \/ \E m \in Message : m.type = "NEWKEYS" /\ m.data = srv.sent /\ s2c' = Append(s2c, m)
           /\ srv'.sent = srv.sent /\ srv'.sentEof = srv.sentEof /\ srv'.sentClose = srv.sentClose
           /\ srv'.chan = (IF Head(c2s).type = "OPEN" THEN "asked" ELSE srv.chan)
           /\ srv'.credit = (IF Head(c2s).type = "OPEN" THEN LocalWindow
                             ELSE IF Head(c2s).type = "ADJUST" THEN srv.credit + Head(c2s).n
                             ELSE srv.credit)
           /\ srv'.next = (IF Head(c2s).type = "DATA" THEN Head(c2s).lo + Head(c2s).n ELSE srv.next)
  <1> DEFINE m == Head(c2s)
  <1>1. srv \in ServerState /\ c2s # <<>> /\ c2s' = Tail(c2s) /\ UNCHANGED clientVars
    BY DEF SrvReceive, QueueType
  <1>2. s2c' = s2c \/ s2c' = Append(s2c, DownMsg("NEWKEYS", 0, 0))
    BY DEF SrvReceive, SrvSays
  <1>3. /\ DownMsg("NEWKEYS", 0, 0) \in Message /\ DownMsg("NEWKEYS", 0, 0).type = "NEWKEYS"
        /\ DownMsg("NEWKEYS", 0, 0).data = srv.sent + 0
    BY DownMessage DEF MsgTypes, Carried
  <1>4. srv.sent \in Nat
    BY <1>1, ServerFields
  <1>5. /\ m.type = "OPEN" => srv' = [srv EXCEPT !.chan = "asked", !.credit = LocalWindow]
        /\ m.type = "DATA" => srv' = [srv EXCEPT !.rcvd = @ + m.n, !.next = m.lo + m.n]
        /\ m.type = "ADJUST" => srv' = [srv EXCEPT !.credit = @ + m.n]
        /\ m.type = "EOF" => srv' = [srv EXCEPT !.sawEof = TRUE]
        /\ m.type = "CLOSE" => srv' = [srv EXCEPT !.sawClose = TRUE]
        /\ m.type = "KEXINIT" => srv' = [srv EXCEPT !.kex = FALSE]
        /\ m.type \notin {"OPEN", "DATA", "ADJUST", "EOF", "CLOSE", "KEXINIT"} => srv' = srv
    BY DEF SrvReceive
  <1> HIDE DEF m
  <1>6. /\ srv'.sent = srv.sent /\ srv'.sentEof = srv.sentEof /\ srv'.sentClose = srv.sentClose
        /\ srv'.chan = (IF m.type = "OPEN" THEN "asked" ELSE srv.chan)
    BY <1>1, <1>5 DEF ServerState
  <1>7. /\ srv'.credit = (IF m.type = "OPEN" THEN LocalWindow
                          ELSE IF m.type = "ADJUST" THEN srv.credit + m.n ELSE srv.credit)
        /\ srv'.next = (IF m.type = "DATA" THEN m.lo + m.n ELSE srv.next)
    BY <1>1, <1>5 DEF ServerState
  <1>8. \/ s2c' = s2c
        \/ \E k \in Message : k.type = "NEWKEYS" /\ k.data = srv.sent /\ s2c' = Append(s2c, k)
    BY <1>2, <1>3, <1>4
  <1> QED
    BY <1>1, <1>6, <1>7, <1>8 DEF m

\* What a message of the server says of its channel, and what it may follow.
ServerSays(m) ==
    /\ m \in Message /\ m.type \in ChannelTypes \cup {"KEXINIT"}
    /\ s2c' = Append(s2c, m)
    /\ srv'.sent = srv.sent + Carried(m) /\ m.data = srv'.sent
    /\ srv'.sentEof = (srv.sentEof \/ m.type = "EOF")
    /\ srv'.sentClose = (srv.sentClose \/ m.type = "CLOSE")
    /\ srv'.chan = (IF m.type = "CONFIRM" THEN "open"
                    ELSE IF m.type = "FAILURE" THEN "failed" ELSE srv.chan)
    /\ m.type \in {"CONFIRM", "FAILURE"} => srv.chan = "asked"
    /\ m.type \in ChannelTypes \ {"CONFIRM", "FAILURE"} => srv.chan = "open" /\ ~srv.sentClose
    /\ m.type = "DATA" => ~srv.sentEof /\ srv.sent + m.n <= srv.credit
    /\ m.type = "EOF" => ~srv.sentEof
    /\ UNCHANGED <<clientVars, c2s>> /\ srv'.credit = srv.credit /\ srv'.next = srv.next

\* Every step of the server but taking a message says one.
LEMMA ServerSpeaks ==
    ASSUME WindowType, QueueType, Server, ~SrvReceive
    PROVE  \E m \in Message : ServerSays(m)
  <1>1. srv \in ServerState /\ srv.sent \in Nat
    BY ServerFields DEF QueueType
  <1>2. UNCHANGED <<clientVars, c2s>> /\ srv'.credit = srv.credit /\ srv'.next = srv.next
    BY <1>1 DEF Server, SrvAnswer, SrvGrant, SrvSend, SrvEof, SrvClose, SrvRekey, ServerState
  <1>3. CASE SrvAnswer /\ srv'.chan = "open"
    <2> DEFINE m == DownMsg("CONFIRM", 0, ServerWindow)
    <2>1. /\ s2c' = Append(s2c, m) /\ srv.chan = "asked" 
          /\ srv' = [srv EXCEPT !.chan = "open", !.granted = @ + ServerWindow]
      BY <1>1, <1>3 DEF SrvAnswer, SrvSays, ServerState
    <2>2. m \in Message /\ m.type = "CONFIRM" /\ m.data = srv.sent + Carried(m)
      BY SizeAssumption, DownMessage DEF MsgTypes
    <2>3. /\ srv'.sent = srv.sent /\ srv'.chan = "open" 
          /\ srv'.sentEof = srv.sentEof /\ srv'.sentClose = srv.sentClose
      BY <1>1, <2>1 DEF ServerState
    <2>4. Carried(m) = 0
      BY <2>2 DEF Carried
    <2> HIDE DEF m
    <2> QED
      BY <1>1, <1>2, <2>1, <2>2, <2>3, <2>4 DEF ServerSays, ChannelTypes, ServerState
  <1>4. CASE SrvAnswer /\ srv'.chan # "open"
    <2> DEFINE m == DownMsg("FAILURE", 0, 0)
    <2>1. s2c' = Append(s2c, m) /\ srv.chan = "asked" /\ srv' = [srv EXCEPT !.chan = "failed"]
      BY <1>1, <1>4 DEF SrvAnswer, SrvSays, ServerState
    <2>2. m \in Message /\ m.type = "FAILURE" /\ m.data = srv.sent + Carried(m)
      BY DownMessage DEF MsgTypes
    <2>3. /\ srv'.sent = srv.sent /\ srv'.chan = "failed"
          /\ srv'.sentEof = srv.sentEof /\ srv'.sentClose = srv.sentClose
      BY <1>1, <2>1 DEF ServerState
    <2>4. Carried(m) = 0
      BY <2>2 DEF Carried
    <2> HIDE DEF m
    <2> QED
      BY <1>1, <1>2, <2>1, <2>2, <2>3, <2>4 DEF ServerSays, ChannelTypes, ServerState
  <1>5. CASE SrvGrant
    <2>1. PICK n \in Nat : /\ srv' = [srv EXCEPT !.granted = @ + n]
                           /\ s2c' = Append(s2c, DownMsg("ADJUST", 0, n))
      BY <1>5 DEF SrvGrant, SrvSays
    <2> DEFINE m == DownMsg("ADJUST", 0, n)
    <2>2. m \in Message /\ m.type = "ADJUST" /\ m.data = srv.sent + Carried(m)
      BY DownMessage DEF MsgTypes
    <2>3. srv.chan = "open" /\ ~srv.sentClose
      BY <1>5 DEF SrvGrant, SrvMaySend
    <2>4. /\ srv'.sent = srv.sent /\ srv'.chan = "open"
          /\ srv'.sentEof = srv.sentEof /\ srv'.sentClose = srv.sentClose
      BY <1>1, <2>1, <2>3 DEF ServerState
    <2>5. Carried(m) = 0 /\ s2c' = Append(s2c, m)
      BY <2>1, <2>2 DEF Carried
    <2> HIDE DEF m
    <2> QED
      BY <1>1, <1>2, <2>2, <2>3, <2>4, <2>5 DEF ServerSays, ChannelTypes, ServerState
  <1>6. CASE SrvSend
    <2>1. PICK n \in 1..MaxPacket : /\ srv' = [srv EXCEPT !.sent = @ + n]
                                    /\ s2c' = Append(s2c, DownMsg("DATA", srv.sent, n))
                                    /\ srv.sent + n <= srv.credit
      BY <1>6 DEF SrvSend, SrvSays
    <2> DEFINE m == DownMsg("DATA", srv.sent, n)
    <2>2. n \in Nat /\ "DATA" \in MsgTypes
      BY DEF MsgTypes
    <2>3. m \in Message /\ m.type = "DATA"
      BY <1>1, <2>2, DownMessage
    <2>4. m.n = n
      BY <1>1, <2>2, DownMessage
    <2>5. m.data = srv.sent + Carried(m)
      BY <1>1, <2>2, DownMessage
    <2>6. srv.chan = "open" /\ ~srv.sentClose /\ ~srv.sentEof
      BY <1>6 DEF SrvSend, SrvMaySend
    <2>7. /\ srv'.sent = srv.sent + n /\ srv'.chan = "open"
          /\ srv'.sentEof = srv.sentEof /\ srv'.sentClose = srv.sentClose
      BY <1>1, <2>1, <2>6 DEF ServerState
    <2>8. Carried(m) = n /\ s2c' = Append(s2c, m)
      BY <2>1, <2>3, <2>4 DEF Carried
    <2> HIDE DEF m
    <2> QED
      BY <1>1, <1>2, <2>1, <2>3, <2>4, <2>5, <2>6, <2>7, <2>8
         DEF ServerSays, ChannelTypes, ServerState
  <1>7. CASE SrvEof \/ SrvClose
    <2>1. PICK type \in {"EOF", "CLOSE"} :
             /\ s2c' = Append(s2c, DownMsg(type, 0, 0))
             /\ srv' = IF type = "EOF" THEN [srv EXCEPT !.sentEof = TRUE]
                       ELSE [srv EXCEPT !.sentClose = TRUE]
             /\ type = "EOF" => ~srv.sentEof
      BY <1>7 DEF SrvEof, SrvClose, SrvSays
    <2> DEFINE m == DownMsg(type, 0, 0)
    <2>2. m \in Message /\ m.type = type /\ m.data = srv.sent + Carried(m)
      BY DownMessage DEF MsgTypes
    <2>3. srv.chan = "open" /\ ~srv.sentClose
      BY <1>7 DEF SrvEof, SrvClose, SrvMaySend
    <2>4. /\ srv'.sent = srv.sent /\ srv'.chan = "open"
          /\ srv'.sentEof = (srv.sentEof \/ type = "EOF")
          /\ srv'.sentClose = (srv.sentClose \/ type = "CLOSE")
      <3>1. CASE type = "EOF"
        BY <1>1, <2>1, <2>3, <3>1 DEF ServerState
      <3>2. CASE type = "CLOSE"
        BY <1>1, <2>1, <2>3, <3>2 DEF ServerState
      <3> QED
        BY <3>1, <3>2
    <2>5. Carried(m) = 0 /\ s2c' = Append(s2c, m)
      BY <2>1, <2>2 DEF Carried
    <2> HIDE DEF m
    <2>6. srv'.sent = srv.sent + Carried(m) /\ m.data = srv'.sent
      BY <1>1, <2>2, <2>4, <2>5
    <2>7. m.type \in ChannelTypes /\ m.type \notin {"CONFIRM", "FAILURE", "DATA"}
      BY <2>2 DEF ChannelTypes
    <2>8. CASE type = "EOF"
      BY <1>1, <1>2, <2>1, <2>2, <2>3, <2>4, <2>5, <2>6, <2>7, <2>8
         DEF ServerSays, ServerState, ChannelTypes
    <2>9. CASE type = "CLOSE"
      BY <1>1, <1>2, <2>1, <2>2, <2>3, <2>4, <2>5, <2>6, <2>7, <2>9
         DEF ServerSays, ServerState, ChannelTypes
    <2> QED
      BY <2>8, <2>9
  <1>8. CASE SrvRekey
    <2> DEFINE m == DownMsg("KEXINIT", 0, 0)
    <2>1. s2c' = Append(s2c, m) /\ srv' = [srv EXCEPT !.kex = TRUE, !.rekeys = @ + 1]
      BY <1>8 DEF SrvRekey, SrvSays
    <2>2. m \in Message /\ m.type = "KEXINIT" /\ m.data = srv.sent + Carried(m)
      BY DownMessage DEF MsgTypes
    <2>3. /\ srv'.sent = srv.sent /\ srv'.chan = srv.chan
          /\ srv'.sentEof = srv.sentEof /\ srv'.sentClose = srv.sentClose
      BY <1>1, <2>1 DEF ServerState
    <2>4. Carried(m) = 0
      BY <2>2 DEF Carried
    <2> HIDE DEF m
    <2> QED
      BY <1>1, <1>2, <2>1, <2>2, <2>3, <2>4 DEF ServerSays, ChannelTypes, ServerState
  <1> QED
    BY <1>3, <1>4, <1>5, <1>6, <1>7, <1>8 DEF Server

\* The client takes a message of the server, and counts its bytes.
LEMMA ClientTakes ==
    ASSUME QueueType, DownType, ClientReceives
    PROVE  /\ s2c # <<>> /\ s2c' = Tail(s2c) /\ srv' = srv /\ gotData' = gotData + Carried(Head(s2c))
           /\ Head(s2c).type = "DATA" <=> RcvData
  <1>1. s2c # <<>> /\ s2c' = Tail(s2c) /\ srv' = srv
    BY DEF ClientReceives, RcvData, RcvEof, RcvConfirm, RcvFailure, RcvClose, RcvAdjust,
       RcvKexinit, RcvNewkeys
  <1>2. CASE RcvData
    BY <1>1, <1>2 DEF RcvData, Carried
  <1>3. CASE ~RcvData
    <2>1. gotData' = gotData /\ Head(s2c).type # "DATA"
      BY <1>3 DEF ClientReceives, RcvEof, RcvConfirm, RcvFailure, RcvClose, RcvAdjust,
         RcvKexinit, RcvNewkeys, downVars
    <2> QED
      BY <1>1, <1>3, <2>1 DEF Carried, DownType
  <1> QED
    BY <1>2, <1>3

\* Every other step of the client leaves the server and its queue alone.
LEMMA ClientAlone ==
    ASSUME [Next]_vars, ~Server, ~ClientReceives
    PROVE  UNCHANGED <<s2c, srv, gotData>>
  BY DEF Next, Client, AppWrite, AppEnd, SockWritable, Accept, ReadStops, ReturnFromRead, ReadFails,
     ReadSome, OnFdRead, OnFdClose, OnFdWrite, RetrySend, RetryEnds, vars, downVars


-----------------------------------------------------------------------------
(* The channel before it is asked for, and the request.                    *)

\* Until the accepted connection asks for its channel nothing has happened.
Fresh == pc = "accept" =>
    /\ ~used /\ ~confirmed /\ ~close_sent /\ ~sockOpen /\ status = {} /\ ~shut
    /\ writebuf = 0 /\ delivered = 0 /\ gotData = 0 /\ granted = 0
    /\ recvd = 0 /\ sent = 0 /\ discarded = 0 /\ bufchain_amount = 0
    /\ srv.chan = "none"
    /\ \A i \in 1..Len(c2s) : c2s[i].type # "OPEN"

\* A queue none of whose messages is of one type keeps that without its head.
LEMMA TailLacks ==
    ASSUME NEW S, NEW q \in Seq(S), q # <<>>, NEW types,
           \A i \in 1..Len(q) : q[i].type \notin types
    PROVE  \A i \in 1..Len(Tail(q)) : Tail(q)[i].type \notin types
  BY TailFacts

\* Nor does an append of another type add one.
LEMMA AppendLacks ==
    ASSUME NEW S, NEW q \in Seq(S), NEW m \in S, NEW types, m.type \notin types,
           \A i \in 1..Len(q) : q[i].type \notin types
    PROVE  \A i \in 1..Len(Append(q, m)) : Append(q, m)[i].type \notin types
  <1> TAKE i \in 1..Len(Append(q, m))
  <1>1. CASE i \in 1..Len(q)
    BY <1>1, AppendFacts
  <1>2. CASE i = Len(q) + 1
    BY <1>2, AppendFacts
  <1> QED
    BY <1>1, <1>2, AppendFacts

\* It asks once, and before that only key exchanges happen.
LEMMA FreshStep ==
    ASSUME AppType, WindowType, QueueType, Fresh, [Next]_vars
    PROVE  Fresh'
  <1> SUFFICES ASSUME pc' = "accept" PROVE Fresh'
    BY DEF Fresh
  <1>1. CASE AppWrite \/ AppEnd \/ SockWritable \/ RcvNewkeys \/ UNCHANGED vars
    <2>1. UNCHANGED <<downVars, status, sockOpen, chanVars, winVars, bufVars, pc, c2s, upVars, srv>>
      BY <1>1 DEF AppWrite, AppEnd, SockWritable, RcvNewkeys, vars
    <2> QED
      BY <2>1 DEF Fresh, downVars, chanVars, winVars, bufVars, upVars
  <1>2. CASE RcvKexinit
    <2>1. UNCHANGED <<downVars, status, sockOpen, chanVars, winVars, bufVars, pc, upVars, srv>>
      BY <1>2 DEF RcvKexinit
    <2>2. c2s' = Append(c2s, UpMsg("KEXINIT", 0, 0, 0))
      BY <1>2 DEF RcvKexinit
    <2>3. UpMsg("KEXINIT", 0, 0, 0) \in Message /\ UpMsg("KEXINIT", 0, 0, 0).type = "KEXINIT"
      BY UpMessage DEF MsgTypes
    <2>4. pc = "accept"
      BY <2>1
    <2>5. c2s \in Seq(Message)
      BY DEF QueueType
    <2>6. \A i \in 1..Len(c2s) : c2s[i].type \notin {"OPEN"}
      BY <2>4 DEF Fresh
    <2>7. UpMsg("KEXINIT", 0, 0, 0).type \notin {"OPEN"}
      BY <2>3
    <2>8. \A i \in 1..Len(c2s') : c2s'[i].type \notin {"OPEN"}
      BY <2>2, <2>3, <2>5, <2>6, <2>7, AppendLacks
    <2> QED
      BY <2>1, <2>4, <2>8 DEF Fresh, downVars, chanVars, winVars, bufVars, upVars
  <1>3. CASE SrvReceive
    <2>1. UNCHANGED clientVars /\ c2s # <<>> /\ c2s' = Tail(c2s)
      BY <1>3 DEF SrvReceive
    <2>2. pc = "accept" /\ c2s \in Seq(Message) /\ srv \in ServerState
      BY <2>1 DEF clientVars, QueueType
    <2>3. \A i \in 1..Len(c2s) : c2s[i].type \notin {"OPEN"}
      BY <2>2 DEF Fresh
    <2>4. \A i \in 1..Len(c2s') : c2s'[i].type \notin {"OPEN"}
      BY <2>1, <2>2, <2>3, TailLacks
    <2>5. Head(c2s).type # "OPEN"
      BY <2>1, <2>2, <2>3, TailFacts
    <2>6. srv'.chan = srv.chan
      BY <1>3, <2>2, <2>5 DEF SrvReceive, ServerState
    <2> QED
      BY <2>1, <2>2, <2>4, <2>6 DEF Fresh, clientVars, downVars, chanVars, winVars, bufVars, upVars
  <1>4. CASE Server /\ ~SrvReceive
    <2>1. UNCHANGED clientVars /\ UNCHANGED c2s
      BY <1>4 DEF Server, SrvAnswer, SrvGrant, SrvSend, SrvEof, SrvClose, SrvRekey
    <2>2. pc = "accept" /\ srv.chan = "none" /\ srv \in ServerState
      BY <2>1 DEF clientVars, QueueType, Fresh
    <2>3. srv'.chan = "none"
      BY <1>4, <2>2 DEF Server, SrvAnswer, SrvGrant, SrvSend, SrvEof, SrvClose, SrvRekey,
         SrvMaySend, ServerState
    <2> QED
      BY <2>1, <2>2, <2>3 DEF Fresh, clientVars, downVars, chanVars, winVars, bufVars, upVars
  <1>5. CASE \/ Accept \/ ReadStops \/ ReadFails \/ ReadSome \/ OnFdRead \/ OnFdClose \/ OnFdWrite
             \/ RetrySend \/ RetryEnds \/ RcvData \/ RcvEof \/ RcvConfirm \/ RcvFailure
             \/ RcvClose \/ RcvAdjust
    <2>1. pc' # "accept"
      BY <1>5 DEF Accept, ReadStops, ReturnFromRead, ReadFails, ReadSome, OnFdRead, OnFdClose,
         OnFdWrite, RetrySend, RetryEnds, RcvData, RcvEof, RcvConfirm, RcvFailure, RcvClose,
         RcvAdjust, AfterConfirm
    <2> QED
      BY <2>1
  <1> QED
    BY <1>1, <1>2, <1>3, <1>4, <1>5 DEF Next, Client, ClientReceives, Server

\* The request for the channel, and the state of the channel before its answer.
Asked ==
    /\ \A i \in 1..Len(c2s) : c2s[i].type = "OPEN" => srv.chan = "none" /\ used
    /\ \A i, j \in 1..Len(c2s) : i < j => ~(c2s[i].type = "OPEN" /\ c2s[j].type = "OPEN")
    /\ srv.chan = "asked" => used
    /\ srv.chan \in {"none", "asked"} => ~confirmed /\ ~srv.sentEof /\ ~srv.sentClose

\* The server speaks of the channel only after it was asked for one.
Silent ==
    srv.chan \in {"none", "asked"} => \A i \in 1..Len(s2c) : s2c[i].type \notin ChannelTypes

\* The slot of the channel is taken by its request, confirmed by its answer and
\* freed by FAILURE or CLOSE.
LEMMA ChannelFlags ==
    ASSUME ControlType, [Next]_vars
    PROVE  \/ /\ UNCHANGED <<used, confirmed>>
              /\ ClientReceives => Head(s2c).type \notin {"CONFIRM", "FAILURE", "CLOSE"}
           \/ Accept /\ ~rekeying /\ used' = TRUE /\ UNCHANGED confirmed
           \/ RcvConfirm /\ Head(s2c).type = "CONFIRM" /\ confirmed' = TRUE /\ UNCHANGED used
           \/ /\ RcvFailure \/ RcvClose
              /\ Head(s2c).type \in {"FAILURE", "CLOSE"} /\ used' = FALSE /\ confirmed' = FALSE
  <1>1. CASE Accept
    BY <1>1 DEF Accept, ClientReceives, RcvData, RcvEof, RcvConfirm, RcvFailure, RcvClose, RcvAdjust,
       RcvKexinit, RcvNewkeys, chanVars
  <1>2. CASE RcvConfirm
    BY <1>2 DEF RcvConfirm
  <1>3. CASE RcvFailure \/ RcvClose
    BY <1>3 DEF RcvFailure, RcvClose, ChannelDelete
  <1>4. CASE RcvData \/ RcvEof \/ RcvAdjust \/ RcvKexinit \/ RcvNewkeys
    <2>1. UNCHANGED <<used, confirmed>>
      BY <1>4 DEF RcvData, RcvEof, RcvAdjust, RcvKexinit, RcvNewkeys, chanVars
    <2>2. Head(s2c).type \notin {"CONFIRM", "FAILURE", "CLOSE"}
      BY <1>4 DEF RcvData, RcvEof, RcvAdjust, RcvKexinit, RcvNewkeys
    <2> QED
      BY <2>1, <2>2
  <1>5. CASE ~ClientReceives /\ ~Accept
    BY <1>5 DEF Next, Client, Server, AppWrite, AppEnd, SockWritable, ReadStops, ReturnFromRead,
       ReadFails, ReadSome, OnFdRead, OnFdClose, OnFdWrite, RetrySend, RetryEnds, SrvReceive,
       SrvAnswer, SrvGrant, SrvSend, SrvEof, SrvClose, SrvRekey, clientVars, vars, chanVars
  <1> QED
    BY <1>1, <1>2, <1>3, <1>4, <1>5 DEF ClientReceives

\* The channel is asked for once, and nothing happens to it before its answer.
LEMMA AskedStep ==
    ASSUME AppType, ControlType, WindowType, QueueType, DownType, Fresh, Asked, Silent, [Next]_vars
    PROVE  Asked'
  <1>1. srv \in ServerState /\ c2s \in Seq(Message) /\ s2c \in Seq(Message)
    BY DEF QueueType
  \* The answer to the request is only taken once it is there.
  <1>2. srv.chan \in {"none", "asked"} =>
          (used' = used \/ (Accept /\ used' = TRUE)) /\ confirmed' = confirmed
    <2> SUFFICES ASSUME srv.chan \in {"none", "asked"}
                 PROVE  (used' = used \/ (Accept /\ used' = TRUE)) /\ confirmed' = confirmed
      OBVIOUS
    <2>1. ClientReceives => Head(s2c).type \notin {"CONFIRM", "FAILURE", "CLOSE"}
      BY <1>1, ClientTakes, TailFacts DEF Silent, ChannelTypes
    <2> QED
      BY <2>1, ChannelFlags DEF ClientReceives
  <1>3. CASE SrvReceive
    <2>1. /\ c2s # <<>> /\ c2s' = Tail(c2s) /\ UNCHANGED clientVars
          /\ srv'.sentEof = srv.sentEof /\ srv'.sentClose = srv.sentClose
          /\ srv'.chan = (IF Head(c2s).type = "OPEN" THEN "asked" ELSE srv.chan)
      BY <1>3, ServerReceives
    <2>2. UNCHANGED <<used, confirmed>>
      BY <2>1 DEF clientVars, chanVars
    <2>3. /\ Head(c2s) = c2s[1] /\ 1 \in 1..Len(c2s)
          /\ \A i \in 1..Len(c2s') : c2s'[i] = c2s[i + 1] /\ i + 1 \in 1..Len(c2s)
      BY <1>1, <2>1, TailFacts
    <2>4. CASE Head(c2s).type = "OPEN"
      <3>1. srv.chan = "none" /\ used
        BY <2>3, <2>4 DEF Asked
      <3>2. \A i \in 1..Len(c2s') : c2s'[i].type # "OPEN"
        <4> TAKE i \in 1..Len(c2s')
        <4>1. c2s'[i] = c2s[i + 1] /\ i + 1 \in 1..Len(c2s) /\ 1 < i + 1
          BY <2>3
        <4> QED
          BY <2>3, <2>4, <4>1 DEF Asked
      <3>3. /\ ~confirmed /\ ~srv.sentEof /\ ~srv.sentClose
            /\ ~confirmed' /\ ~srv'.sentEof /\ ~srv'.sentClose
        BY <2>1, <2>2, <3>1 DEF Asked
      <3>4. used'
        BY <2>2, <3>1
      <3> QED
        BY <3>2, <3>3, <3>4 DEF Asked
    <2>5. CASE Head(c2s).type # "OPEN"
      <3>1. srv'.chan = srv.chan
        BY <2>1, <2>5
      <3>2. \A i \in 1..Len(c2s') : c2s'[i].type = "OPEN" => srv'.chan = "none" /\ used'
        BY <2>2, <2>3, <3>1 DEF Asked
      <3>3. \A i, j \in 1..Len(c2s') : i < j => ~(c2s'[i].type = "OPEN" /\ c2s'[j].type = "OPEN")
        <4> TAKE i, j \in 1..Len(c2s')
        <4>1. /\ c2s'[i] = c2s[i + 1] /\ i + 1 \in 1..Len(c2s)
              /\ c2s'[j] = c2s[j + 1] /\ j + 1 \in 1..Len(c2s)
          BY <2>3
        <4>2. i < j => i + 1 < j + 1
          OBVIOUS
        <4> QED
          BY <4>1, <4>2 DEF Asked
      <3> QED
        BY <2>1, <2>2, <3>1, <3>2, <3>3 DEF Asked
    <2> QED
      BY <2>4, <2>5
  <1>4. CASE Server /\ ~SrvReceive
    <2>1. PICK m \in Message : ServerSays(m)
      BY <1>4, ServerSpeaks
    <2>2. UNCHANGED <<c2s, used, confirmed>>
      BY <2>1 DEF ServerSays, clientVars, chanVars
    <2>3. \/ srv'.chan = srv.chan
          \/ srv.chan = "asked" /\ srv'.chan \in {"open", "failed"}
      BY <2>1 DEF ServerSays
    <2>4. srv'.chan \in {"none", "asked"} => srv'.sentEof = srv.sentEof /\ srv'.sentClose = srv.sentClose
      <3> SUFFICES ASSUME srv'.chan \in {"none", "asked"}
                   PROVE  srv'.sentEof = srv.sentEof /\ srv'.sentClose = srv.sentClose
        OBVIOUS
      <3>1. m.type \notin {"EOF", "CLOSE"}
        BY <2>1, <2>3 DEF ServerSays, ChannelTypes
      <3> QED
        BY <1>1, <2>1, <3>1 DEF ServerSays, ServerState
    <2> QED
      BY <2>2, <2>3, <2>4 DEF Asked
  <1>5. CASE ~Server
    <2>1. srv' = srv
      BY <1>5, ClientAlone, ClientTakes
    <2>2. \A i \in 1..Len(c2s) : c2s[i].type = "OPEN" => srv'.chan = "none" /\ used'
      BY <1>2, <2>1 DEF Asked
    <2>3. srv'.chan = "asked" => used'
      BY <1>2, <2>1 DEF Asked
    <2>4. srv'.chan \in {"none", "asked"} => ~confirmed' /\ ~srv'.sentEof /\ ~srv'.sentClose
      BY <1>2, <2>1 DEF Asked
    <2>5. CASE UNCHANGED c2s
      BY <2>2, <2>3, <2>4, <2>5 DEF Asked
    <2>6. CASE SaysOne \/ SaysTwo
      <3>1. \/ \E m \in Message : Says(m) /\ c2s' = Append(c2s, m)
            \/ \E m, k \in Message : /\ Says(m) /\ m.type = "EOF"
                                     /\ Says(k) /\ k.type = "ADJUST"
                                     /\ c2s' = Append(Append(c2s, m), k)
        BY <2>6 DEF SaysOne, SaysTwo
      <3>2. CASE Accept
        <4>1. /\ \A i \in 1..Len(c2s) : c2s[i].type # "OPEN"
              /\ srv.chan = "none"
          BY <3>2 DEF Accept, Fresh
        <4>2. PICK m \in Message : c2s' = Append(c2s, m) /\ Says(m)
          BY <3>1, <3>2 DEF Says, RcvData, Accept
        <4>3. \/ m.type # "OPEN" \/ used'
          BY <4>2 DEF Says, Accept
        <4>4. /\ Len(c2s) \in Nat /\ \A i \in 1..Len(c2s) : c2s'[i] = c2s[i]
              /\ \A i \in 1..Len(c2s') : i \in 1..Len(c2s) \/ i = Len(c2s) + 1
              /\ c2s'[Len(c2s) + 1] = m
          BY <1>1, <4>2, AppendFacts
        <4>5. \A i \in 1..Len(c2s') : c2s'[i].type = "OPEN" => srv'.chan = "none" /\ used'
          BY <2>1, <4>1, <4>3, <4>4
        <4>6. \A i, j \in 1..Len(c2s') : i < j => ~(c2s'[i].type = "OPEN" /\ c2s'[j].type = "OPEN")
          BY <4>1, <4>4
        <4> QED
          BY <2>3, <2>4, <4>5, <4>6 DEF Asked
      <3>3. CASE ~Accept
        <4>1. \A m \in Message : Says(m) => m.type # "OPEN"
          BY <3>3 DEF Says
        <4>2. /\ Len(c2s) \in Nat /\ \A i \in 1..Len(c2s) : c2s'[i] = c2s[i]
              /\ \A i \in 1..Len(c2s') : i \in 1..Len(c2s) \/ c2s'[i].type # "OPEN"
          <5>1. CASE \E m \in Message : Says(m) /\ c2s' = Append(c2s, m)
            BY <1>1, <4>1, <5>1, AppendFacts
          <5>2. CASE \E m, k \in Message : /\ Says(m) /\ m.type = "EOF"
                                           /\ Says(k) /\ k.type = "ADJUST"
                                           /\ c2s' = Append(Append(c2s, m), k)
            <6>1. PICK m, k \in Message : /\ m.type = "EOF" /\ k.type = "ADJUST"
                                          /\ c2s' = Append(Append(c2s, m), k)
              BY <5>2
            <6> DEFINE q == Append(c2s, m)
            <6>2. /\ q \in Seq(Message) /\ Len(c2s) \in Nat /\ Len(q) = Len(c2s) + 1
                  /\ \A i \in 1..Len(c2s) : q[i] = c2s[i]
                  /\ q[Len(c2s) + 1] = m
              BY <1>1, AppendFacts
            <6> HIDE DEF q
            <6>3. /\ Len(c2s') = Len(q) + 1 /\ \A i \in 1..Len(q) : c2s'[i] = q[i]
                  /\ c2s'[Len(q) + 1] = k
              BY <6>1, <6>2, AppendFacts DEF q
            <6> QED
              BY <6>1, <6>2, <6>3
          <5> QED
            BY <3>1, <5>1, <5>2
        <4>3. \A i \in 1..Len(c2s') : c2s'[i].type = "OPEN" => i \in 1..Len(c2s) /\ c2s'[i] = c2s[i]
          BY <4>2
        <4>4. \A i \in 1..Len(c2s') : c2s'[i].type = "OPEN" => srv'.chan = "none" /\ used'
          BY <2>2, <4>3
        <4>5. \A i, j \in 1..Len(c2s') : i < j => ~(c2s'[i].type = "OPEN" /\ c2s'[j].type = "OPEN")
          BY <4>3 DEF Asked
        <4> QED
          BY <2>3, <2>4, <4>4, <4>5 DEF Asked
      <3> QED
        BY <3>2, <3>3
    <2> QED
      BY <1>5, <2>5, <2>6, ClientSays DEF Server
  <1> QED
    BY <1>3, <1>4, <1>5

-----------------------------------------------------------------------------
(* The answer, and the messages about an open channel.                     *)

\* Each message of the server about its channel finds what it is about.
Addressed ==
    \A i \in 1..Len(s2c) :
        /\ s2c[i].type \in ChannelTypes => used
        /\ s2c[i].type = "CONFIRM" => ~confirmed
        /\ s2c[i].type = "CLOSE" => srv.sentClose
        /\ s2c[i].type = "FAILURE" => srv.chan = "failed"
        /\ s2c[i].type = "EOF" => srv.sentEof /\ s2c[i].data = srv.sent

\* CONFIRM comes first, nothing after FAILURE or CLOSE, no DATA after EOF.
Ordered ==
    \A i, j \in 1..Len(s2c) : i < j =>
        /\ s2c[i].type \in {"FAILURE", "CLOSE"} => s2c[j].type \notin ChannelTypes
        /\ s2c[j].type = "CONFIRM" => s2c[i].type \notin ChannelTypes
        /\ s2c[i].type = "EOF" => s2c[j].type # "DATA"

\* Once the server opened the channel, the client knows or will be told.
Confirmed ==
    /\ (srv.chan = "open" /\ ~srv.sentClose) =>
         /\ used
         /\ confirmed \/ \E j \in 1..Len(s2c) : s2c[j].type = "CONFIRM"
    /\ \A i \in 1..Len(s2c) :
         (s2c[i].type \in ChannelTypes \ {"CONFIRM", "FAILURE"} /\ ~confirmed)
           => \E j \in 1..Len(s2c) : j < i /\ s2c[j].type = "CONFIRM"

\* What the server says of the channel fits what the client knows of it.
Answered == Silent /\ Addressed /\ Ordered /\ Confirmed

\* A message that is not about the channel changes nothing of this.
LEMMA AnsweredAside ==
    ASSUME QueueType, Answered, NEW m \in Message, m.type \notin ChannelTypes,
           s2c' = Append(s2c, m), UNCHANGED <<used, confirmed>>,
           srv'.sent = srv.sent, srv'.sentEof = srv.sentEof, srv'.sentClose = srv.sentClose,
           srv'.chan = srv.chan \/ (srv'.chan = "asked" /\ srv.chan = "none")
    PROVE  Answered'
  <1>1. /\ s2c \in Seq(Message) /\ Len(s2c) \in Nat
        /\ \A i \in 1..Len(s2c) : s2c'[i] = s2c[i] /\ i \in 1..Len(s2c')
        /\ \A i \in 1..Len(s2c') : i \in 1..Len(s2c) \/ s2c'[i].type \notin ChannelTypes
    BY AppendFacts DEF QueueType
  <1>2. \A i \in 1..Len(s2c') : s2c'[i].type \in ChannelTypes => i \in 1..Len(s2c) /\ s2c'[i] = s2c[i]
    BY <1>1
  <1>3. {"CONFIRM", "FAILURE", "DATA", "EOF", "CLOSE"} \subseteq ChannelTypes
    BY DEF ChannelTypes
  <1>4. Silent'
    BY <1>2 DEF Answered, Silent
  <1>5. Addressed'
    BY <1>2, <1>3 DEF Answered, Addressed, Silent
  <1>6. Ordered'
    BY <1>2, <1>3 DEF Answered, Ordered
  <1>7. Confirmed'
    BY <1>1, <1>2 DEF Answered, Confirmed
  <1> QED
    BY <1>4, <1>5, <1>6, <1>7 DEF Answered

\* The server says what fits.
LEMMA AnsweredSays ==
    ASSUME QueueType, Asked, Answered, NEW m \in Message, ServerSays(m)
    PROVE  Answered'
  <1>1. UNCHANGED <<used, confirmed>> /\ s2c' = Append(s2c, m) /\ srv \in ServerState
    BY DEF ServerSays, clientVars, chanVars, QueueType
  <1>2. /\ Len(s2c) \in Nat
        /\ \A i \in 1..Len(s2c) : s2c'[i] = s2c[i] /\ i \in 1..Len(s2c')
        /\ \A i \in 1..Len(s2c') : i \in 1..Len(s2c) \/ i = Len(s2c) + 1
        /\ Len(s2c) + 1 \in 1..Len(s2c') /\ s2c'[Len(s2c) + 1] = m
    BY <1>1, AppendFacts DEF QueueType
  <1>3. CASE m.type \notin ChannelTypes
    <2>1. /\ srv'.chan = srv.chan /\ srv'.sentEof = srv.sentEof /\ srv'.sentClose = srv.sentClose
          /\ srv'.sent = srv.sent
      <3>1. m.type \notin {"CONFIRM", "FAILURE", "DATA", "EOF", "CLOSE"}
        BY <1>3 DEF ChannelTypes
      <3>2. Carried(m) = 0 /\ srv.sent \in Nat
        BY <1>1, <3>1, ServerFields DEF Carried
      <3> QED
        BY <1>1, <3>1, <3>2 DEF ServerSays, ServerState
    <2> QED
      BY <1>1, <1>3, <2>1, AnsweredAside
  <1>4. CASE m.type \in {"CONFIRM", "FAILURE"}
    <2>1. /\ srv.chan = "asked" /\ srv'.sentEof = srv.sentEof /\ srv'.sentClose = srv.sentClose
          /\ srv'.chan = (IF m.type = "CONFIRM" THEN "open" ELSE "failed")
      BY <1>1, <1>4 DEF ServerSays, ServerState
    <2>2. \A i \in 1..Len(s2c) : s2c[i].type \notin ChannelTypes
      BY <2>1 DEF Answered, Silent
    <2>3. used /\ ~confirmed
      BY <2>1 DEF Asked
    <2>4. \A i \in 1..Len(s2c') : s2c'[i].type \in ChannelTypes => i = Len(s2c) + 1 /\ s2c'[i] = m
      BY <1>2, <2>2
    <2>5. {"CONFIRM", "FAILURE", "DATA", "EOF", "CLOSE"} \subseteq ChannelTypes
      BY DEF ChannelTypes
    <2>6. Silent'
      BY <2>1 DEF Silent
    <2>7. Addressed'
      BY <1>1, <1>4, <2>1, <2>3, <2>4, <2>5 DEF Addressed
    <2>8. Ordered'
      BY <1>2, <2>4, <2>5 DEF Ordered
    <2>9. Confirmed'
      <3>1. srv'.chan = "open" => m.type = "CONFIRM"
        BY <2>1
      <3>2. (srv'.chan = "open" /\ ~srv'.sentClose) =>
              used' /\ (confirmed' \/ \E j \in 1..Len(s2c') : s2c'[j].type = "CONFIRM")
        BY <1>1, <1>2, <2>3, <3>1
      <3>3. \A i \in 1..Len(s2c') : s2c'[i].type \notin ChannelTypes \ {"CONFIRM", "FAILURE"}
        BY <1>4, <2>4
      <3> QED
        BY <3>2, <3>3 DEF Confirmed
    <2> QED
      BY <2>6, <2>7, <2>8, <2>9 DEF Answered
  <1>5. CASE m.type \in ChannelTypes \ {"CONFIRM", "FAILURE"}
    <2>1. srv.chan = "open" /\ ~srv.sentClose /\ srv'.chan = srv.chan
      BY <1>5 DEF ServerSays
    <2>2. used /\ (confirmed \/ \E j \in 1..Len(s2c) : s2c[j].type = "CONFIRM")
      BY <2>1 DEF Answered, Confirmed
    <2>3. \A i \in 1..Len(s2c) : s2c[i].type \notin {"FAILURE", "CLOSE"}
      BY <2>1 DEF Answered, Addressed
    <2>4. \A i \in 1..Len(s2c) : s2c[i].type = "EOF" => m.type # "DATA" /\ srv'.sent = srv.sent
      <3> SUFFICES ASSUME NEW i \in 1..Len(s2c), s2c[i].type = "EOF"
                   PROVE  m.type # "DATA" /\ srv'.sent = srv.sent
        OBVIOUS
      <3>1. srv.sentEof
        BY DEF Answered, Addressed
      <3>2. m.type # "DATA" /\ srv.sent \in Nat
        BY <1>1, <3>1, ServerFields DEF ServerSays
      <3> QED
        BY <3>2 DEF ServerSays, Carried
    <2>5. /\ m.type = "EOF" => srv'.sentEof /\ m.data = srv'.sent
          /\ m.type = "CLOSE" => srv'.sentClose
          /\ srv.sentEof => srv'.sentEof
      BY DEF ServerSays
    <2>6. Silent'
      BY <2>1 DEF Silent
    <2>7. Addressed'
      BY <1>1, <1>2, <1>5, <2>1, <2>2, <2>3, <2>4, <2>5 DEF Answered, Addressed
    <2>8. Ordered'
      <3> SUFFICES ASSUME NEW i \in 1..Len(s2c'), NEW j \in 1..Len(s2c'), i < j
                   PROVE  /\ s2c'[i].type \in {"FAILURE", "CLOSE"} => s2c'[j].type \notin ChannelTypes
                          /\ s2c'[j].type = "CONFIRM" => s2c'[i].type \notin ChannelTypes
                          /\ s2c'[i].type = "EOF" => s2c'[j].type # "DATA"
        BY DEF Ordered
      <3>1. i \in 1..Len(s2c) /\ s2c'[i] = s2c[i]
        BY <1>2
      <3>2. CASE j \in 1..Len(s2c)
        BY <1>2, <3>1, <3>2 DEF Answered, Ordered
      <3>3. CASE j = Len(s2c) + 1
        BY <1>2, <1>5, <2>3, <2>4, <3>1, <3>3
      <3> QED
        BY <1>2, <3>2, <3>3
    <2>9. Confirmed'
      <3>1. (srv'.chan = "open" /\ ~srv'.sentClose) =>
              used' /\ (confirmed' \/ \E j \in 1..Len(s2c') : s2c'[j].type = "CONFIRM")
        BY <1>1, <1>2, <2>2
      <3>2. \A i \in 1..Len(s2c') :
              (s2c'[i].type \in ChannelTypes \ {"CONFIRM", "FAILURE"} /\ ~confirmed')
                => \E j \in 1..Len(s2c') : j < i /\ s2c'[j].type = "CONFIRM"
        <4> SUFFICES ASSUME NEW i \in 1..Len(s2c'),
                            s2c'[i].type \in ChannelTypes \ {"CONFIRM", "FAILURE"}, ~confirmed'
                     PROVE  \E j \in 1..Len(s2c') : j < i /\ s2c'[j].type = "CONFIRM"
          OBVIOUS
        <4>1. CASE i \in 1..Len(s2c)
          <5>1. PICK j \in 1..Len(s2c) : j < i /\ s2c[j].type = "CONFIRM"
            BY <1>1, <1>2, <4>1 DEF Answered, Confirmed
          <5> QED
            BY <1>2, <5>1
        <4>2. CASE i = Len(s2c) + 1
          <5>1. PICK j \in 1..Len(s2c) : s2c[j].type = "CONFIRM"
            BY <1>1, <2>2
          <5>2. j < i /\ j \in 1..Len(s2c') /\ s2c'[j].type = "CONFIRM"
            BY <1>2, <4>2, <5>1
          <5> QED
            BY <5>2
        <4> QED
          BY <1>2, <4>1, <4>2
      <3> QED
        BY <3>1, <3>2 DEF Confirmed
    <2> QED
      BY <2>6, <2>7, <2>8, <2>9 DEF Answered
  <1> QED
    BY <1>3, <1>4, <1>5

\* The client takes it, and the rest still fits.
LEMMA AnsweredTakes ==
    ASSUME ControlType, DownType, QueueType, Answered, [Next]_vars, ClientReceives
    PROVE  Answered'
  <1>1. s2c # <<>> /\ s2c' = Tail(s2c) /\ srv' = srv /\ s2c \in Seq(Message)
    BY ClientTakes DEF QueueType
  <1>2. /\ Head(s2c) = s2c[1] /\ 1 \in 1..Len(s2c) /\ Len(s2c) \in Nat /\ Len(s2c') = Len(s2c) - 1
        /\ \A i \in 1..Len(s2c') : s2c'[i] = s2c[i + 1] /\ i + 1 \in 1..Len(s2c)
    BY <1>1, TailFacts
  <1>3. Silent' /\ Ordered'
    <2>1. Silent'
      BY <1>1, <1>2 DEF Answered, Silent
    <2>2. Ordered'
      <3> SUFFICES ASSUME NEW i \in 1..Len(s2c'), NEW j \in 1..Len(s2c'), i < j
                   PROVE  /\ s2c'[i].type \in {"FAILURE", "CLOSE"} => s2c'[j].type \notin ChannelTypes
                          /\ s2c'[j].type = "CONFIRM" => s2c'[i].type \notin ChannelTypes
                          /\ s2c'[i].type = "EOF" => s2c'[j].type # "DATA"
        BY DEF Ordered
      <3>1. /\ s2c'[i] = s2c[i + 1] /\ i + 1 \in 1..Len(s2c)
            /\ s2c'[j] = s2c[j + 1] /\ j + 1 \in 1..Len(s2c) /\ i + 1 < j + 1
        BY <1>2
      <3> QED
        BY <3>1 DEF Answered, Ordered
    <2> QED
      BY <2>1, <2>2
  \* A message after the first one that says CONFIRM is still behind it.
  <1>4. ASSUME Head(s2c).type # "CONFIRM", NEW i \in 1..(Len(s2c) + 1),
               \E j \in 1..Len(s2c) : j < i /\ s2c[j].type = "CONFIRM"
        PROVE  \E j \in 1..Len(s2c') : j < i - 1 /\ s2c'[j].type = "CONFIRM"
    <2>1. PICK j \in 1..Len(s2c) : j < i /\ s2c[j].type = "CONFIRM"
      BY <1>4
    <2>2. j # 1 /\ j \in Nat
      BY <1>2, <1>4, <2>1
    <2>3. j - 1 \in 1..Len(s2c') /\ j - 1 < i - 1 /\ (j - 1) + 1 = j
      BY <1>2, <2>1, <2>2
    <2>4. s2c'[j - 1] = s2c[j]
      BY <1>2, <2>3
    <2> QED
      BY <2>1, <2>3, <2>4
  <1>5. CASE UNCHANGED <<used, confirmed>> /\ Head(s2c).type \notin {"CONFIRM", "FAILURE", "CLOSE"}
    <2>1. Addressed'
      BY <1>1, <1>2, <1>5 DEF Answered, Addressed
    <2>2. Confirmed'
      <3>1. (srv'.chan = "open" /\ ~srv'.sentClose) =>
              used' /\ (confirmed' \/ \E j \in 1..Len(s2c') : s2c'[j].type = "CONFIRM")
        <4> SUFFICES ASSUME srv'.chan = "open", ~srv'.sentClose, ~confirmed
                     PROVE  used' /\ \E j \in 1..Len(s2c') : s2c'[j].type = "CONFIRM"
          BY <1>1, <1>5 DEF Answered, Confirmed
        <4>1. used /\ \E j \in 1..Len(s2c) : s2c[j].type = "CONFIRM"
          BY <1>1 DEF Answered, Confirmed
        <4>2. Len(s2c) + 1 \in 1..(Len(s2c) + 1)
          BY <1>2
        <4>3. \E j \in 1..Len(s2c) : j < Len(s2c) + 1 /\ s2c[j].type = "CONFIRM"
          BY <1>2, <4>1
        <4>4. \E j \in 1..Len(s2c') : j < (Len(s2c) + 1) - 1 /\ s2c'[j].type = "CONFIRM"
          BY <1>4, <1>5, <4>2, <4>3
        <4> QED
          BY <1>5, <4>1, <4>4
      <3>2. \A i \in 1..Len(s2c') :
              (s2c'[i].type \in ChannelTypes \ {"CONFIRM", "FAILURE"} /\ ~confirmed')
                => \E j \in 1..Len(s2c') : j < i /\ s2c'[j].type = "CONFIRM"
        <4> SUFFICES ASSUME NEW i \in 1..Len(s2c'),
                            s2c'[i].type \in ChannelTypes \ {"CONFIRM", "FAILURE"}, ~confirmed'
                     PROVE  \E j \in 1..Len(s2c') : j < i /\ s2c'[j].type = "CONFIRM"
          OBVIOUS
        <4>1. s2c'[i] = s2c[i + 1] /\ i + 1 \in 1..Len(s2c) /\ i + 1 \in 1..(Len(s2c) + 1) /\ (i + 1) - 1 = i
          BY <1>2
        <4>2. \E j \in 1..Len(s2c) : j < i + 1 /\ s2c[j].type = "CONFIRM"
          BY <1>5, <4>1 DEF Answered, Confirmed
        <4>3. \E j \in 1..Len(s2c') : j < (i + 1) - 1 /\ s2c'[j].type = "CONFIRM"
          BY <1>4, <1>5, <4>1, <4>2
        <4> QED
          BY <4>1, <4>3
      <3> QED
        BY <3>1, <3>2 DEF Confirmed
    <2> QED
      BY <1>3, <2>1, <2>2 DEF Answered
  <1>6. CASE Head(s2c).type = "CONFIRM" /\ confirmed' = TRUE /\ UNCHANGED used
    <2>1. \A i \in 1..Len(s2c') : s2c'[i].type # "CONFIRM"
      <3> TAKE i \in 1..Len(s2c')
      <3>1. s2c'[i] = s2c[i + 1] /\ i + 1 \in 1..Len(s2c) /\ 1 < i + 1
        BY <1>2
      <3>2. s2c[1].type \in ChannelTypes
        BY <1>2, <1>6 DEF ChannelTypes
      <3> QED
        BY <1>2, <3>1, <3>2 DEF Answered, Ordered
    <2>2. Addressed'
      BY <1>1, <1>2, <1>6, <2>1 DEF Answered, Addressed
    <2>3. Confirmed'
      BY <1>1, <1>6 DEF Answered, Confirmed
    <2> QED
      BY <1>3, <2>2, <2>3 DEF Answered
  <1>7. CASE Head(s2c).type \in {"FAILURE", "CLOSE"} /\ used' = FALSE /\ confirmed' = FALSE
    <2>1. \A i \in 1..Len(s2c') : s2c'[i].type \notin ChannelTypes
      <3> TAKE i \in 1..Len(s2c')
      <3>1. s2c'[i] = s2c[i + 1] /\ i + 1 \in 1..Len(s2c) /\ 1 < i + 1
        BY <1>2
      <3> QED
        BY <1>2, <1>7, <3>1 DEF Answered, Ordered
    <2>2. srv'.sentClose \/ srv'.chan = "failed"
      BY <1>1, <1>2, <1>7 DEF Answered, Addressed
    <2>3. {"CONFIRM", "FAILURE", "DATA", "EOF", "CLOSE"} \subseteq ChannelTypes
      BY DEF ChannelTypes
    <2>4. Addressed'
      BY <2>1, <2>3 DEF Addressed
    <2>5. Confirmed'
      BY <2>1, <2>2 DEF Confirmed
    <2> QED
      BY <1>3, <2>4, <2>5 DEF Answered
  <1> QED
    BY <1>5, <1>6, <1>7, ChannelFlags DEF Accept, ClientReceives, RcvData, RcvEof, RcvConfirm,
       RcvFailure, RcvClose, RcvAdjust, RcvKexinit, RcvNewkeys

\* The two stay in step.
LEMMA AnsweredStep ==
    ASSUME AppType, ControlType, WindowType, QueueType, DownType, Fresh, Asked, Answered, [Next]_vars
    PROVE  Answered'
  <1>1. CASE SrvReceive
    <2>1. /\ UNCHANGED <<used, confirmed>>
          /\ srv'.sent = srv.sent /\ srv'.sentEof = srv.sentEof /\ srv'.sentClose = srv.sentClose
          /\ srv'.chan = (IF Head(c2s).type = "OPEN" THEN "asked" ELSE srv.chan)
          /\ \/ s2c' = s2c
             \/ \E m \in Message : m.type = "NEWKEYS" /\ m.data = srv.sent /\ s2c' = Append(s2c, m)
      BY <1>1, ServerReceives DEF clientVars, chanVars
    <2>2. Head(c2s).type = "OPEN" => srv.chan = "none"
      <3>1. c2s # <<>> /\ c2s \in Seq(Message)
        BY <1>1 DEF SrvReceive, QueueType
      <3>2. Head(c2s) = c2s[1] /\ 1 \in 1..Len(c2s)
        BY <3>1, TailFacts
      <3> QED
        BY <3>2 DEF Asked
    <2>3. srv'.chan = srv.chan \/ (srv'.chan = "asked" /\ srv.chan = "none")
      BY <2>1, <2>2
    <2>4. CASE s2c' = s2c
      <3>1. Silent'
        BY <2>3, <2>4 DEF Answered, Silent
      <3>2. Addressed'
        BY <2>1, <2>3, <2>4 DEF Answered, Addressed, Silent, ChannelTypes
      <3>3. Ordered' /\ Confirmed'
        BY <2>1, <2>3, <2>4 DEF Answered, Ordered, Confirmed
      <3> QED
        BY <3>1, <3>2, <3>3 DEF Answered
    <2>5. CASE \E m \in Message : m.type = "NEWKEYS" /\ m.data = srv.sent /\ s2c' = Append(s2c, m)
      BY <2>1, <2>3, <2>5, AnsweredAside DEF ChannelTypes
    <2> QED
      BY <2>1, <2>4, <2>5
  <1>2. CASE Server /\ ~SrvReceive
    BY <1>2, ServerSpeaks, AnsweredSays
  <1>3. CASE ClientReceives
    BY <1>3, AnsweredTakes
  <1>4. CASE ~Server /\ ~ClientReceives
    <2>1. UNCHANGED <<s2c, srv>>
      BY <1>4, ClientAlone
    <2>2. \/ UNCHANGED <<used, confirmed>>
          \/ Accept /\ used' = TRUE /\ UNCHANGED confirmed
      BY <1>4, ChannelFlags DEF ClientReceives
    <2>3. Silent' /\ Ordered'
      BY <2>1 DEF Answered, Silent, Ordered
    <2>4. Addressed' /\ Confirmed'
      BY <2>1, <2>2 DEF Answered, Addressed, Confirmed
    <2> QED
      BY <2>3, <2>4 DEF Answered
  <1> QED
    BY <1>1, <1>2, <1>3, <1>4

-----------------------------------------------------------------------------
(* The window of the client and the data of the server.                    *)

\* The window a message of the client offers, its running total, and the bytes
\* a message of the server carries.
Offering == [m \in Message |-> Offer(m)]
Carrying == [m \in Message |-> Carried(m)]
Data     == [m \in Message |-> m.data]

\* The window the server may use, that on its way to it, and that granted.
CreditKept == Follows(srv.credit, c2s, Offering, Credit, granted)

\* The bytes the client got, those on their way to it, and those sent.
DataKept ==
    /\ Follows(gotData, s2c, Carrying, Data, srv.sent)
    /\ Adjoins(gotData, s2c, Carrying, Data, srv.sent)

\* What the client granted is used up or in local_window.
WindowKept == used => local_window + gotData = granted

\* These measures of a message.
LEMMA Measures ==
    /\ Offering \in [Message -> Nat] /\ Credit \in [Message -> Nat]
    /\ Carrying \in [Message -> Nat] /\ Data \in [Message -> Nat]
    /\ \A m \in Message : /\ Offering[m] = Offer(m) /\ Credit[m] = m.credit
                          /\ Carrying[m] = Carried(m) /\ Data[m] = m.data
  <1>1. \A m \in Message : Offer(m) \in Nat /\ Carried(m) \in Nat
    BY FieldTypes, SizeAssumption DEF Offer, Carried
  <1>2. \A m \in Message : m.credit \in Nat /\ m.data \in Nat
    BY FieldTypes
  <1> QED
    BY <1>1, <1>2 DEF Offering, Credit, Carrying, Data

\* The window goes from the client to the server message by message.
LEMMA CreditStep ==
    ASSUME AppType, DownType, WindowType, QueueType, CreditKept, [Next]_vars
    PROVE  CreditKept'
  <1>1. /\ srv \in ServerState /\ srv.credit \in Nat /\ granted \in Nat
        /\ c2s \in Seq(Message)
    BY ServerFields DEF WindowType, QueueType
  <1>2. CASE SrvReceive
    <2> DEFINE m == Head(c2s)
    <2>1. /\ c2s # <<>> /\ c2s' = Tail(c2s) /\ granted' = granted
          /\ srv'.credit = (IF m.type = "OPEN" THEN LocalWindow
                            ELSE IF m.type = "ADJUST" THEN srv.credit + m.n ELSE srv.credit)
      BY <1>2, ServerReceives DEF clientVars, winVars
    <2>2. m \in Message /\ m = c2s[1] /\ 1 \in 1..Len(c2s) /\ m.n \in Nat
      BY <1>1, <2>1, TailFacts, FieldTypes
    <2>3. srv.credit + Offer(m) <= m.credit
      BY <2>2, Measures DEF CreditKept, Follows
    <2>4. Offer(m) = (IF m.type = "OPEN" THEN LocalWindow ELSE IF m.type = "ADJUST" THEN m.n ELSE 0)
      BY DEF Offer
    <2>5. m.credit \in Nat
      BY <2>2, FieldTypes
    <2> HIDE DEF m
    <2>6. srv'.credit \in Nat /\ srv'.credit <= m.credit
      <3>1. CASE m.type = "OPEN"
        BY <1>1, <2>1, <2>3, <2>4, <2>5, <3>1, SizeAssumption
      <3>2. CASE m.type = "ADJUST"
        BY <1>1, <2>1, <2>2, <2>3, <2>4, <2>5, <3>2
      <3>3. CASE m.type \notin {"OPEN", "ADJUST"}
        BY <1>1, <2>1, <2>3, <2>4, <2>5, <3>3
      <3> QED
        BY <3>1, <3>2, <3>3
    <2>7. Follows(srv'.credit, Tail(c2s), Offering, Credit, granted)
      <3>1. Credit[Head(c2s)] = m.credit
        BY <2>2, Measures DEF m
      <3>2. srv'.credit <= Credit[Head(c2s)]
        BY <2>6, <3>1
      <3> QED
        BY <1>1, <2>1, <2>6, <3>2, Measures, FollowsTail DEF CreditKept
    <2> QED
      BY <2>1, <2>7 DEF CreditKept
  <1>3. CASE ~SrvReceive
    <2>1. srv'.credit = srv.credit
      <3>1. CASE Server
        BY <1>3, <3>1, ServerSpeaks DEF ServerSays
      <3>2. CASE ~Server
        BY <3>2, ClientAlone, ClientTakes
      <3> QED
        BY <3>1, <3>2
    <2>2. CASE UNCHANGED <<c2s, granted>>
      BY <2>1, <2>2 DEF CreditKept
    <2>3. CASE SaysOne
      <3>1. PICK m \in Message : /\ c2s' = Append(c2s, m)
                                 /\ m.credit = granted' /\ granted' = granted + Offer(m)
        BY <2>3 DEF SaysOne
      <3>2. Follows(srv.credit, Append(c2s, m), Offering, Credit, Credit[m])
        <4>1. granted + Offering[m] <= Credit[m]
          BY <1>1, <3>1, Measures
        <4> QED
          BY <1>1, <4>1, Measures, FollowsAppend DEF CreditKept
      <3>3. Credit[m] = granted'
        BY <3>1, Measures
      <3> QED
        BY <2>1, <3>1, <3>2, <3>3 DEF CreditKept
    <2>4. CASE SaysTwo
      <3>1. PICK m, k \in Message : /\ m.type = "EOF" /\ m.credit = granted
                                    /\ c2s' = Append(Append(c2s, m), k)
                                    /\ k.credit = granted' /\ granted' = granted + Offer(k)
        BY <2>4 DEF SaysTwo
      <3>2. Offer(m) = 0
        BY <3>1 DEF Offer
      <3>3. granted + Offering[m] <= Credit[m] /\ Credit[m] = granted
        BY <1>1, <3>1, <3>2, Measures
      <3>4. Follows(srv.credit, Append(c2s, m), Offering, Credit, Credit[m])
        BY <1>1, <3>3, Measures, FollowsAppend DEF CreditKept
      <3>5. Append(c2s, m) \in Seq(Message)
        BY <1>1, AppendFacts
      <3>6. Credit[m] + Offering[k] <= Credit[k] /\ Credit[k] = granted' /\ Credit[m] \in Nat
        BY SMTT(40), <1>1, <3>1, <3>3, Measures
      <3>7. Follows(srv.credit, Append(Append(c2s, m), k), Offering, Credit, Credit[k])
        BY <1>1, <3>4, <3>5, <3>6, Measures, FollowsAppend
      <3> QED
        BY <2>1, <3>1, <3>6, <3>7 DEF CreditKept
    <2> QED
      BY <1>3, <2>2, <2>3, <2>4, ClientSays
  <1> QED
    BY <1>2, <1>3

\* The bytes come from the server to the client message by message.
LEMMA DataStep ==
    ASSUME DownType, WindowType, QueueType, DataKept, [Next]_vars
    PROVE  DataKept'
  <1>1. /\ srv \in ServerState /\ srv.sent \in Nat /\ gotData \in Nat /\ s2c \in Seq(Message)
    BY ServerFields DEF QueueType, DownType
  <1>2. ASSUME NEW m \in Message, s2c' = Append(s2c, m), srv'.sent = srv.sent + Carried(m),
               m.data = srv'.sent, gotData' = gotData
        PROVE  DataKept'
    <2>1. Data[m] = m.data /\ Carrying[m] = Carried(m)
      BY Measures
    <2>2. srv.sent + Carrying[m] = Data[m]
      BY <1>2, <2>1
    <2>3. srv.sent + Carrying[m] \in Nat /\ srv.sent + Carrying[m] <= Data[m]
      BY <1>1, <2>2, Measures
    <2>4. Follows(gotData, Append(s2c, m), Carrying, Data, Data[m])
      BY <1>1, <2>3, Measures, FollowsAppend DEF DataKept
    <2>5. Adjoins(gotData, Append(s2c, m), Carrying, Data, Data[m])
      BY <1>1, <2>2, Measures, AdjoinsAppend DEF DataKept
    <2> QED
      BY <1>2, <2>1, <2>4, <2>5 DEF DataKept
  <1>3. CASE SrvReceive
    <2>1. gotData' = gotData /\ srv'.sent = srv.sent
      BY <1>3, ServerReceives DEF clientVars, downVars
    <2>2. CASE s2c' = s2c
      BY <2>1, <2>2 DEF DataKept
    <2>3. CASE \E m \in Message : m.type = "NEWKEYS" /\ m.data = srv.sent /\ s2c' = Append(s2c, m)
      <3>1. PICK m \in Message : m.type = "NEWKEYS" /\ m.data = srv.sent /\ s2c' = Append(s2c, m)
        BY <2>3
      <3>2. Carried(m) = 0
        BY <3>1 DEF Carried
      <3>3. srv'.sent = srv.sent + Carried(m) /\ m.data = srv'.sent
        BY <1>1, <2>1, <3>1, <3>2
      <3> QED
        BY <1>2, <2>1, <3>1, <3>3
    <2> QED
      BY <1>3, <2>2, <2>3, ServerReceives
  <1>4. CASE Server /\ ~SrvReceive
    <2>1. PICK m \in Message : ServerSays(m)
      BY <1>4, ServerSpeaks
    <2>2. /\ s2c' = Append(s2c, m) /\ srv'.sent = srv.sent + Carried(m) /\ m.data = srv'.sent
          /\ gotData' = gotData
      BY <2>1 DEF ServerSays, clientVars, downVars
    <2> QED
      BY <1>2, <2>2
  <1>5. CASE ClientReceives
    <2>1. s2c # <<>> /\ s2c' = Tail(s2c) /\ srv' = srv /\ gotData' = gotData + Carried(Head(s2c))
      BY <1>5, ClientTakes
    <2>2. Head(s2c) \in Message /\ Head(s2c) = s2c[1]
      BY <1>1, <2>1, TailFacts
    <2>3. gotData + Carrying[s2c[1]] = Data[s2c[1]]
      BY <2>1 DEF DataKept, Adjoins
    <2>4. gotData' = Data[Head(s2c)] /\ Data[Head(s2c)] \in Nat
      BY <2>1, <2>2, <2>3, Measures
    <2>5. Follows(Data[Head(s2c)], Tail(s2c), Carrying, Data, srv.sent)
      <3>1. Data[Head(s2c)] <= Data[Head(s2c)]
        BY <2>4
      <3> QED
        BY <1>1, <2>1, <2>4, <3>1, Measures, FollowsTail DEF DataKept
    <2>6. Adjoins(Data[Head(s2c)], Tail(s2c), Carrying, Data, srv.sent)
      BY <1>1, <2>1, Measures, AdjoinsTail DEF DataKept
    <2> QED
      BY <2>1, <2>4, <2>5, <2>6 DEF DataKept
  <1>6. CASE ~Server /\ ~ClientReceives
    BY <1>6, ClientAlone DEF DataKept
  <1> QED
    BY <1>3, <1>4, <1>5, <1>6

\* The server sends nothing before it opened the channel, and then stays
\* inside the window it was given.
ServerInside ==
    /\ srv.sent <= srv.credit
    /\ srv.chan \in {"none", "asked"} => srv.sent = 0

\* A conforming server stays inside its window.
LEMMA InsideStep ==
    ASSUME DownType, WindowType, QueueType, Asked, ServerInside, [Next]_vars
    PROVE  ServerInside'
  <1>1. srv \in ServerState /\ srv.credit \in Nat /\ srv.sent \in Nat
    BY ServerFields DEF QueueType
  <1>2. CASE SrvReceive
    <2> DEFINE m == Head(c2s)
    <2>1. /\ c2s # <<>> /\ srv'.sent = srv.sent
          /\ srv'.chan = (IF m.type = "OPEN" THEN "asked" ELSE srv.chan)
          /\ srv'.credit = (IF m.type = "OPEN" THEN LocalWindow
                            ELSE IF m.type = "ADJUST" THEN srv.credit + m.n ELSE srv.credit)
      BY <1>2, ServerReceives
    <2>2. m \in Message /\ m = c2s[1] /\ 1 \in 1..Len(c2s) /\ m.n \in Nat
      BY <2>1, TailFacts, FieldTypes DEF QueueType
    <2>3. CASE m.type = "OPEN"
      <3>1. srv.sent = 0
        BY <2>2, <2>3 DEF Asked, ServerInside
      <3>2. srv'.credit = LocalWindow /\ srv'.sent = 0
        BY <2>1, <2>3, <3>1
      <3> QED
        BY <3>2, SizeAssumption DEF ServerInside
    <2>4. CASE m.type # "OPEN"
      <3>1. srv'.chan = srv.chan /\ srv'.credit \in {srv.credit, srv.credit + m.n}
        BY <2>1, <2>4
      <3> HIDE DEF m
      <3> QED
        BY <1>1, <2>1, <2>2, <3>1 DEF ServerInside
    <2> QED
      BY <2>3, <2>4
  <1>3. CASE Server /\ ~SrvReceive
    <2>1. PICK m \in Message : ServerSays(m)
      BY <1>3, ServerSpeaks
    <2>2. m.n \in Nat /\ srv'.credit = srv.credit /\ srv'.sent = srv.sent + Carried(m)
      BY <2>1, FieldTypes DEF ServerSays
    <2>3. CASE m.type = "DATA"
      <3>1. srv.chan = "open" /\ srv'.chan = "open" /\ srv.sent + m.n <= srv.credit /\ Carried(m) = m.n
        BY <2>1, <2>3 DEF ServerSays, ChannelTypes, Carried
      <3> QED
        BY <1>1, <2>2, <3>1 DEF ServerInside
    <2>4. CASE m.type # "DATA"
      <3>1. Carried(m) = 0
        BY <2>4 DEF Carried
      <3>2. srv'.chan \in {srv.chan, "open", "failed"}
        BY <2>1 DEF ServerSays
      <3> QED
        BY <1>1, <2>2, <3>1, <3>2 DEF ServerInside
    <2> QED
      BY <2>3, <2>4
  <1>4. CASE ~Server
    <2>1. srv' = srv
      BY <1>4, ClientAlone, ClientTakes
    <2> QED
      BY <2>1 DEF ServerInside
  <1> QED
    BY <1>2, <1>3, <1>4

\* DATA at the head of the queue fits, so it is accepted.
LEMMA DataAcceptable ==
    ASSUME DownType, WindowType, QueueType, Answered, CreditKept, DataKept, ServerInside, WindowKept,
           ServerNeverRejected, RcvData
    PROVE  Acceptable(Head(s2c).n)
  <1> DEFINE m == Head(s2c)
  <1>1. s2c # <<>> /\ m.type = "DATA" /\ s2c \in Seq(Message)
    BY DEF RcvData, QueueType
  <1>2. m = s2c[1] /\ 1 \in 1..Len(s2c) /\ m \in Message /\ m.n \in Nat /\ m.data \in Nat
    BY <1>1, TailFacts, FieldTypes
  <1>3. used /\ confirmed
    <2>1. m.type \in ChannelTypes \ {"CONFIRM", "FAILURE"}
      BY <1>1 DEF ChannelTypes
    <2>2. used
      BY <1>2, <2>1 DEF Answered, Addressed
    <2>3. confirmed
      <3>1. ~confirmed => \E j \in 1..Len(s2c) : j < 1 /\ s2c[j].type = "CONFIRM"
        BY <1>2, <2>1 DEF Answered, Confirmed
      <3> QED
        BY <3>1
    <2> QED
      BY <2>2, <2>3
  <1>4. gotData + m.n <= m.data /\ m.data <= srv.sent
    <2>1. gotData + Carrying[s2c[1]] <= Data[s2c[1]] /\ Data[s2c[1]] <= srv.sent
      BY <1>2 DEF DataKept, Follows
    <2>2. Carrying[s2c[1]] = m.n /\ Data[s2c[1]] = m.data
      BY <1>1, <1>2, Measures DEF Carried
    <2> QED
      BY <2>1, <2>2
  <1>5. srv.sent <= srv.credit /\ srv.credit <= granted
    BY DEF ServerInside, CreditKept, Follows
  <1>6. local_window + gotData = granted
    BY <1>3 DEF WindowKept
  <1>7. /\ srv.sent \in Nat /\ srv.credit \in Nat /\ granted \in Nat /\ gotData \in Nat
        /\ local_window \in Nat
    BY ServerFields, SizeAssumption DEF QueueType, WindowType, DownType
  <1> HIDE DEF m
  <1>8. m.n <= local_window
    BY <1>2, <1>4, <1>5, <1>6, <1>7
  <1> QED
    BY <1>3, <1>8 DEF Acceptable, ServerNeverRejected, m

\* local_window is what the server has left.
LEMMA WindowKeptStep ==
    ASSUME AppType, ControlType, DownType, WindowType, QueueType, Fresh, Answered, CreditKept,
           DataKept, ServerInside, WindowKept, ServerNeverRejected, [Next]_vars
    PROVE  WindowKept' /\ ServerNeverRejected'
  <1>1. CASE RcvData
    <2> DEFINE n == Head(s2c).n
               w == local_window - n
    <2>1. Acceptable(n)
      BY <1>1, DataAcceptable
    <2>2. n \in Nat /\ n <= local_window /\ w \in 0..LocalWindow /\ used
      BY <1>1, <2>1, QueueHeads, FieldTypes, SizeAssumption DEF RcvData, Acceptable, WindowType
    <2>3. AdjustWindow(w) /\ dataHandler' = dataHandler /\ gotData' = gotData + n
      BY <1>1, <2>1 DEF RcvData
    <2>4. \/ local_window' = w /\ granted' = granted
          \/ local_window' = LocalWindow /\ granted' = granted + (LocalWindow - w)
      BY <2>3 DEF AdjustWindow, AdjustBy
    <2>5. local_window + gotData = granted /\ w = local_window - n
      BY <2>2 DEF WindowKept
    <2> HIDE DEF n, w
    <2>6. local_window' + gotData' = granted'
      BY <2>2, <2>3, <2>4, <2>5, SizeAssumption DEF WindowType, DownType
    <2> QED
      BY <2>3, <2>6 DEF WindowKept, ServerNeverRejected
  <1>2. CASE Accept
    <2>1. gotData' = gotData /\ dataHandler' = dataHandler /\ gotData = 0 /\ granted = 0 /\ ~used
      BY <1>2 DEF Accept, downVars, kexVars, Fresh
    <2>2. \/ used' = used
          \/ local_window' = LocalWindow /\ granted' = granted + LocalWindow
      BY <1>2 DEF Accept
    <2> QED
      BY <2>1, <2>2, SizeAssumption DEF WindowKept, ServerNeverRejected
  <1>3. CASE ClientReceives /\ ~RcvData
    <2>1. /\ dataHandler' = dataHandler
          /\ UNCHANGED <<local_window, granted, gotData, used>> \/ used' = FALSE
      BY <1>3 DEF ClientReceives, RcvEof, RcvConfirm, RcvFailure, RcvClose, RcvAdjust, RcvKexinit,
         RcvNewkeys, ChannelDelete, winVars, chanVars, kexVars, downVars
    <2> QED
      BY <2>1 DEF WindowKept, ServerNeverRejected
  <1>4. CASE ~ClientReceives /\ ~Accept
    <2>1. UNCHANGED <<local_window, granted, gotData, used, dataHandler>>
      BY <1>4 DEF Next, Client, Server, AppWrite, AppEnd, SockWritable, ReadStops, ReturnFromRead,
         ReadFails, ReadSome, OnFdRead, OnFdClose, OnFdWrite, RetrySend, RetryEnds, SrvReceive,
         SrvAnswer, SrvGrant, SrvSend, SrvEof, SrvClose, SrvRekey, clientVars, vars, winVars,
         chanVars, kexVars, downVars
    <2> QED
      BY <2>1 DEF WindowKept, ServerNeverRejected
  <1> QED
    BY <1>1, <1>2, <1>3, <1>4

\* The client and the server agree on the life of the channel and its window.
Handshake ==
    /\ Fresh /\ Asked /\ Answered /\ CreditKept /\ DataKept /\ ServerInside /\ WindowKept
    /\ ServerNeverRejected

\* It holds before anything happened.
LEMMA HandshakeInit == Init => Handshake
  <1> SUFFICES ASSUME Init PROVE Handshake
    OBVIOUS
  <1>1. c2s = <<>> /\ s2c = <<>> /\ srv.chan = "none" /\ srv.sent = 0 /\ srv.credit = 0
        /\ gotData = 0 /\ granted = 0 /\ ~srv.sentEof /\ ~srv.sentClose /\ ~confirmed /\ ~used
    BY DEF Init
  <1>2. Len(c2s) = 0 /\ Len(s2c) = 0
    BY <1>1
  <1>3. Fresh
    BY <1>2 DEF Init, Fresh
  <1>4. Asked /\ Answered
    BY <1>1, <1>2 DEF Asked, Answered, Silent, Addressed, Ordered, Confirmed
  <1>5. CreditKept /\ DataKept
    BY <1>1, <1>2 DEF CreditKept, DataKept, Follows, Adjoins
  <1>6. ServerInside /\ WindowKept /\ ServerNeverRejected
    BY <1>1 DEF Init, ServerInside, WindowKept, ServerNeverRejected
  <1> QED
    BY <1>3, <1>4, <1>5, <1>6 DEF Handshake

\* Every step keeps it.
LEMMA HandshakeStep ==
    ASSUME TypeOK, Handshake, [Next]_vars
    PROVE  Handshake'
  <1>1. AppType /\ ControlType /\ DownType /\ WindowType /\ QueueType
    BY DEF TypeOK
  <1>2. Fresh' /\ Asked' /\ Answered'
    BY <1>1, FreshStep, AskedStep, AnsweredStep DEF Handshake, Answered
  <1>3. CreditKept' /\ DataKept' /\ ServerInside'
    BY <1>1, CreditStep, DataStep, InsideStep DEF Handshake
  <1>4. WindowKept' /\ ServerNeverRejected'
    BY <1>1, WindowKeptStep DEF Handshake
  <1> QED
    BY <1>2, <1>3, <1>4 DEF Handshake

\* A server that stays inside the window it was given is never told that its
\* DATA is too large: every DATA finds its channel open and confirmed, and
\* local_window is what the server was granted and has not used.
THEOREM NeverRejects == Spec => []ServerNeverRejected
  <1>1. Handshake => ServerNeverRejected
    BY DEF Handshake
  <1> QED
    BY TypeCorrect, HandshakeInit, HandshakeStep, <1>1, PTL DEF Spec

-----------------------------------------------------------------------------
(* The write buffer and its notifications.                                 *)

\* The flags of a connected channel, which OnFdWrite tests before it writes.
LinkUp ==
    /\ sockOpen => "LOCAL_CONNECTED" \in status
    /\ (sockOpen /\ confirmed) => "REMOTE_CONNECTED" \in status
    /\ writebuf > 0 => confirmed

\* What the steps do to the socket and its flags.
LEMMA SocketStep ==
    ASSUME [Next]_vars
    PROVE  \/ UNCHANGED <<status, sockOpen, writeArmed>> /\ ("WRITE" \in posted => "WRITE" \in posted')
           \/ /\ sockOpen' = FALSE /\ status \subseteq status'
           \/ SockWritable \/ Accept \/ OnFdWrite \/ RcvData \/ RcvEof \/ RcvConfirm
           \/ RcvFailure \/ RcvClose
  <1>1. ASSUME ClosedLocalConnection
        PROVE  sockOpen' = FALSE /\ status \subseteq status'
    BY <1>1 DEF ClosedLocalConnection
  <1>2. CASE ReadStops \/ ReadFails \/ OnFdClose
    BY <1>1, <1>2 DEF ReadStops, ReturnFromRead, ReadFails, OnFdClose, OnClosedLocalConnection, sockVars
  <1>3. CASE AppWrite \/ AppEnd \/ ReadSome \/ OnFdRead \/ RetryEnds
    BY <1>3 DEF AppWrite, AppEnd, ReadSome, OnFdRead, RetryEnds, ResumeRecv
  <1>4. CASE RetrySend \/ RcvAdjust \/ RcvKexinit \/ RcvNewkeys
    BY <1>4 DEF RetrySend, RcvAdjust, RcvKexinit, RcvNewkeys, sockVars
  <1>5. CASE Server \/ UNCHANGED vars
    BY <1>5 DEF Server, SrvReceive, SrvAnswer, SrvGrant, SrvSend, SrvEof, SrvClose, SrvRekey,
       clientVars, vars, sockVars
  <1> QED
    BY <1>2, <1>3, <1>4, <1>5 DEF Next, Client, ClientReceives

\* The write buffer grows in RcvData and shrinks in OnFdWrite.
LEMMA WritebufStep ==
    ASSUME [Next]_vars, ~RcvData, ~OnFdWrite
    PROVE  writebuf' = writebuf \/ writebuf' = 0
  BY DEF Next, Client, ClientReceives, Server, AppWrite, AppEnd, SockWritable, Accept, ReadStops,
     ReturnFromRead, ReadFails, ReadSome, OnFdRead, OnFdClose, RetrySend, RetryEnds, RcvEof,
     RcvConfirm, RcvFailure, RcvClose, RcvAdjust, RcvKexinit, RcvNewkeys, FreeFwd, SrvReceive,
     SrvAnswer, SrvGrant, SrvSend, SrvEof, SrvClose, SrvRekey, clientVars, vars, downVars

\* FD_WRITE: the notification is used up, or the socket goes.
LEMMA FdWriteStep ==
    ASSUME DownType, OnFdWrite
    PROVE  /\ confirmed' = confirmed /\ gotData' = gotData /\ UNCHANGED <<s2c, srv>>
           /\ \/ /\ writebuf = 0 \/ ~Connected
                 /\ UNCHANGED <<delivered, shut, writebuf, status, sockOpen>>
              \/ sockOpen' = FALSE /\ status \subseteq status' /\ UNCHANGED <<delivered, shut, writebuf>>
              \/ WriteMore /\ UNCHANGED <<status, sockOpen>>
           /\ posted' \subseteq posted
           /\ status' \subseteq status \cup {"CLOSED_LOCAL"}
  <1>1. confirmed' = confirmed /\ gotData' = gotData /\ UNCHANGED <<s2c, srv>>
    BY DEF OnFdWrite, chanVars
  <1>2. OnClosedLocalConnection => /\ sockOpen' = FALSE /\ status \subseteq status'
                                   /\ posted' \subseteq posted
                                   /\ status' \subseteq status \cup {"CLOSED_LOCAL"}
    BY DEF OnClosedLocalConnection, ClosedLocalConnection
  <1> QED
    BY <1>1, <1>2 DEF OnFdWrite

\* DATA that is accepted is written, refused by a reset socket, or ignored.
LEMMA DataStepSocket ==
    ASSUME RcvData
    PROVE  /\ confirmed' = confirmed /\ shut' = shut /\ srv' = srv /\ s2c' = Tail(s2c) /\ s2c # <<>>
           /\ \/ /\ confirmed /\ sockOpen /\ SockBufferedWrite(Head(s2c).n)
                 /\ UNCHANGED <<status, sockOpen>>
              \/ /\ sockOpen' = FALSE /\ status \subseteq status'
                 /\ status' \subseteq status \cup {"CLOSED_LOCAL"}
                 /\ posted' = {} /\ UNCHANGED <<delivered, writebuf>>
              \/ UNCHANGED <<delivered, writebuf, status, sockOpen, sockVars>>
  <1>1. ClosedLocalConnection /\ sockOpen =>
          /\ sockOpen' = FALSE /\ status \subseteq status' /\ posted' = {}
          /\ status' \subseteq status \cup {"CLOSED_LOCAL"}
    BY DEF ClosedLocalConnection
  <1>2. CASE Acceptable(Head(s2c).n)
    <2>1. ReceivedData(Head(s2c).n) /\ confirmed
      BY <1>2 DEF RcvData, Acceptable
    <2> QED
      BY <1>1, <2>1 DEF RcvData, ReceivedData, chanVars
  <1>3. CASE ~Acceptable(Head(s2c).n)
    BY <1>3 DEF RcvData, chanVars
  <1> QED
    BY <1>2, <1>3

\* The flags say LOCAL and REMOTE_CONNECTED while the socket has data to write.
LEMMA LinkStep ==
    ASSUME ControlType, DownType, Fresh, LinkUp, [Next]_vars
    PROVE  LinkUp'
  <1>1. CASE Accept
    <2>1. status' = {"LOCAL_CONNECTED"} /\ UNCHANGED <<confirmed, writebuf>> /\ pc = "accept"
      BY <1>1 DEF Accept, downVars
    <2>2. ~confirmed /\ writebuf = 0
      BY <2>1 DEF Fresh
    <2> QED
      BY <2>1, <2>2 DEF LinkUp
  <1>2. CASE OnFdWrite
    <2>1. writebuf' > 0 => writebuf > 0
      <3>1. CASE WriteMore
        <4>1. PICK k \in 0..writebuf : writebuf' = writebuf - k
          BY <3>1 DEF WriteMore
        <4> QED
          BY <4>1 DEF DownType
      <3>2. CASE UNCHANGED writebuf
        BY <3>2
      <3> QED
        BY <1>2, <3>1, <3>2, FdWriteStep
    <2>2. confirmed' = confirmed /\ (sockOpen' => sockOpen /\ status' = status)
      <3>1. confirmed' = confirmed
        BY <1>2, FdWriteStep
      <3>2. sockOpen' = FALSE \/ UNCHANGED <<status, sockOpen>>
        BY <1>2, FdWriteStep
      <3> QED
        BY <3>1, <3>2
    <2> QED
      BY <2>1, <2>2 DEF LinkUp
  <1>3. CASE RcvData
    <2>1. confirmed' = confirmed /\ (sockOpen' => sockOpen /\ status' = status)
      <3>1. confirmed' = confirmed
        BY <1>3, DataStepSocket
      <3>2. sockOpen' = FALSE \/ UNCHANGED <<status, sockOpen>>
        BY <1>3, DataStepSocket
      <3> QED
        BY <3>1, <3>2
    <2>2. writebuf' > 0 => (confirmed \/ writebuf > 0)
      BY <1>3, DataStepSocket
    <2> QED
      BY <2>1, <2>2 DEF LinkUp
  <1>4. CASE RcvEof
    <2>1. status \subseteq status' /\ UNCHANGED <<sockOpen, confirmed, writebuf>>
      BY <1>4 DEF RcvEof, chanVars
    <2> QED
      BY <2>1 DEF LinkUp
  <1>5. CASE RcvConfirm
    <2>1. /\ status \subseteq status' /\ confirmed' = TRUE /\ UNCHANGED <<sockOpen, writebuf>>
          /\ sockOpen => "REMOTE_CONNECTED" \in status'
      BY <1>5 DEF RcvConfirm, downVars
    <2> QED
      BY <2>1 DEF LinkUp
  <1>6. CASE RcvFailure \/ RcvClose
    BY <1>6 DEF RcvFailure, RcvClose, FreeFwd, LinkUp
  <1>7. CASE SockWritable
    BY <1>7 DEF SockWritable, chanVars, downVars, LinkUp
  <1>8. CASE ~(\/ SockWritable \/ Accept \/ OnFdWrite \/ RcvData \/ RcvEof \/ RcvConfirm
               \/ RcvFailure \/ RcvClose)
    <2>1. confirmed' = confirmed
      BY <1>8, ChannelFlags
    <2>2. writebuf' > 0 => writebuf > 0
      BY <1>8, WritebufStep
    <2>3. status' = status \/ sockOpen' = FALSE
      BY <1>8, SocketStep
    <2>4. sockOpen' => sockOpen
      BY <1>8, SocketStep
    <2> QED
      BY <2>1, <2>2, <2>3, <2>4 DEF LinkUp
  <1> QED
    BY <1>1, <1>2, <1>3, <1>4, <1>5, <1>6, <1>7, <1>8

\* Every send that leaves data behind has blocked, or there was a notification.
LEMMA LostWriteStep ==
    ASSUME NotificationType, ControlType, DownType, QueueType, LinkUp, NoLostWrite, [Next]_vars
    PROVE  NoLostWrite'
  <1> SUFFICES ASSUME sockOpen', writebuf' > 0
               PROVE  writeArmed' \/ "WRITE" \in posted'
    BY DEF NoLostWrite
  <1>1. CASE Accept
    BY <1>1 DEF Accept
  <1>2. CASE OnFdWrite
    <2>1. CASE /\ writebuf = 0 \/ ~Connected
               /\ UNCHANGED <<delivered, shut, writebuf, status, sockOpen>>
      <3>1. writebuf > 0 /\ sockOpen
        BY <2>1
      <3> QED
        BY <2>1, <3>1 DEF LinkUp, Connected, Both
    <2>2. CASE WriteMore
      <3>1. PICK k \in 0..writebuf : writebuf' = writebuf - k /\ writeArmed' = (k < writebuf)
        BY <2>2 DEF WriteMore
      <3>2. k < writebuf
        BY <3>1 DEF DownType
      <3> QED
        BY <3>1, <3>2
    <2>3. CASE sockOpen' = FALSE
      BY <2>3
    <2> QED
      BY <1>2, <2>1, <2>2, <2>3, FdWriteStep
  <1>3. CASE RcvData
    <2>1. CASE sockOpen /\ SockBufferedWrite(Head(s2c).n)
      <3> DEFINE n == Head(s2c).n
                 total == writebuf + n
                 least == IF total > WriteBufferSize THEN total - WriteBufferSize ELSE 0
                 tries == writebuf = 0 \/ least > 0
      <3>1. n \in Nat /\ writebuf \in Nat
        BY <1>3, QueueHeads, FieldTypes DEF RcvData, DownType
      <3>2. PICK k \in least..(IF tries THEN total ELSE 0) :
               /\ writebuf' = total - k
               /\ writeArmed' = (IF tries THEN k # total ELSE writeArmed)
               /\ posted' = posted \/ Reselect
        BY <2>1 DEF SockBufferedWrite
      <3>3. Reselect => posted \subseteq posted'
        BY DEF Reselect
      <3>4. CASE tries
        <4>1. k # total
          BY <3>1, <3>2, SizeAssumption
        <4> QED
          BY <3>2, <3>4, <4>1
      <3>5. CASE ~tries
        <4>1. writebuf > 0 /\ writeArmed' = writeArmed
          BY <3>1, <3>2, <3>5
        <4> HIDE DEF tries, least, total
        <4> QED
          BY <2>1, <3>2, <3>3, <4>1 DEF NoLostWrite
      <3> QED
        BY <3>4, <3>5
    <2>2. CASE UNCHANGED <<delivered, writebuf, status, sockOpen, sockVars>>
      BY <2>2 DEF NoLostWrite, sockVars
    <2> QED
      BY <1>3, <2>1, <2>2, DataStepSocket
  <1>4. CASE RcvEof \/ RcvConfirm
    BY <1>4 DEF RcvEof, RcvConfirm, sockVars, downVars, NoLostWrite
  <1>5. CASE RcvFailure \/ RcvClose
    BY <1>5 DEF RcvFailure, RcvClose, FreeFwd
  <1>6. CASE SockWritable
    BY <1>6 DEF SockWritable
  <1>7. CASE ~(\/ SockWritable \/ Accept \/ OnFdWrite \/ RcvData \/ RcvEof \/ RcvConfirm
               \/ RcvFailure \/ RcvClose)
    <2>1. writebuf > 0
      BY <1>7, WritebufStep
    <2>2. UNCHANGED <<sockOpen, writeArmed>> /\ ("WRITE" \in posted => "WRITE" \in posted')
      BY <1>7, SocketStep
    <2> QED
      BY <2>1, <2>2 DEF NoLostWrite
  <1> QED
    BY <1>1, <1>2, <1>3, <1>4, <1>5, <1>6, <1>7

\* Data in the write buffer of a connected socket always has an FD_WRITE posted or
\* enabled, whatever write, notification, key exchange or closing comes between
\* (UTIL_sock_buffered_write, write_local_connection_buffer).
THEOREM WriteAnnounced == Spec => []NoLostWrite
  <1>1. Init => LinkUp /\ NoLostWrite
    BY DEF Init, LinkUp, NoLostWrite
  <1>2. TypeOK /\ Handshake /\ LinkUp /\ NoLostWrite /\ [Next]_vars => (LinkUp /\ NoLostWrite)'
    BY LinkStep, LostWriteStep DEF TypeOK, Handshake
  <1> QED
    BY TypeCorrect, HandshakeInit, HandshakeStep, <1>1, <1>2, PTL DEF Spec

-----------------------------------------------------------------------------
(* CLOSE is the last message of the client.                                *)

\* After CLOSE the client is done with the channel and its socket.
Closing ==
    /\ close_sent => /\ ~used /\ ~sockOpen /\ pc = "idle"
                     /\ "LOCAL_CONNECTED" \notin status
    /\ \A i \in 1..Len(c2s) : c2s[i].type = "CLOSE" => close_sent
    /\ \A i, j \in 1..Len(c2s) : (i < j /\ c2s[i].type = "CLOSE") => c2s[j].type = "KEXINIT"

\* A client that sent CLOSE only answers a key exchange.
LEMMA ClosedSays ==
    ASSUME QueueType, Answered, Closing, close_sent, NEW m \in Message, Says(m)
    PROVE  m.type = "KEXINIT"
  <1>1. ~used /\ ~sockOpen /\ pc = "idle"
    BY DEF Closing
  <1>2. ~RcvConfirm
    <2> SUFFICES ASSUME RcvConfirm PROVE FALSE
      OBVIOUS
    <2>1. s2c # <<>> /\ Head(s2c).type = "CONFIRM"
      BY DEF RcvConfirm
    <2>2. Head(s2c) = s2c[1] /\ 1 \in 1..Len(s2c)
      BY <2>1, TailFacts DEF QueueType
    <2>3. used
      BY <2>1, <2>2 DEF Answered, Addressed, ChannelTypes
    <2> QED
      BY <1>1, <2>3
  <1> QED
    BY <1>1, <1>2 DEF Says, Accept, ReadSome, RetrySend, Acceptable

\* Nothing of the channel starts again after CLOSE.
LEMMA ClosedStep ==
    ASSUME ControlType, QueueType, Answered, Closing, [Next]_vars, close_sent
    PROVE  /\ ~used' /\ ~sockOpen' /\ pc' = "idle" /\ close_sent' = TRUE
           /\ "LOCAL_CONNECTED" \notin status'
  <1>1. ~used /\ ~sockOpen /\ pc = "idle" /\ "LOCAL_CONNECTED" \notin status /\ ~Connected
        /\ close_sent = TRUE
    BY DEF Closing, Connected, Both, ControlType
  <1>2. CASE OnFdRead \/ OnFdClose
    <2>1. UNCHANGED <<used, close_sent>> /\ pc' = "idle"
      BY <1>1, <1>2 DEF OnFdRead, OnFdClose, chanVars
    <2>2. OnClosedLocalConnection => sockOpen' = FALSE /\ status' = status
      BY <1>1 DEF OnClosedLocalConnection, ClosedLocalConnection
    <2>3. ~sockOpen' /\ status' = status
      BY <1>1, <1>2, <2>2 DEF OnFdRead, OnFdClose
    <2> QED
      BY <1>1, <2>1, <2>3
  <1>3. CASE OnFdWrite
    <2>1. UNCHANGED <<used, close_sent, pc, sockOpen, status>>
      BY <1>1, <1>3 DEF OnFdWrite, chanVars
    <2> QED
      BY <1>1, <2>1
  <1>4. CASE RcvData
    <2>1. UNCHANGED <<used, close_sent, pc, sockOpen, status>>
      BY <1>1, <1>4 DEF RcvData, Acceptable, chanVars
    <2> QED
      BY <1>1, <2>1
  <1>5. CASE RcvEof
    <2>1. UNCHANGED <<used, close_sent, pc, sockOpen>> /\ status' \subseteq status \cup {"CLOSED_REMOTE_IN"}
      BY <1>5 DEF RcvEof, chanVars
    <2> QED
      BY <1>1, <2>1
  <1>6. CASE RcvConfirm
    <2>1. UNCHANGED <<used, close_sent, pc, sockOpen>> /\ status' = status \cup {"CLOSED_LOCAL"}
      BY <1>1, <1>6 DEF RcvConfirm
    <2> QED
      BY <1>1, <2>1
  <1>7. CASE RcvFailure \/ RcvClose
    <2>1. used' = FALSE /\ sockOpen' = FALSE /\ status' = {} /\ pc' = pc
      BY <1>7 DEF RcvFailure, RcvClose, FreeFwd, ChannelDelete
    <2>2. close_sent' = TRUE
      BY <1>1, <1>7 DEF RcvFailure, RcvClose
    <2> QED
      BY <1>1, <2>1, <2>2
  <1>8. CASE RcvAdjust
    <2>1. UNCHANGED <<used, close_sent, pc, sockOpen, status>>
      BY <1>1, <1>8 DEF RcvAdjust, chanVars
    <2> QED
      BY <1>1, <2>1
  <1>9. CASE AppWrite \/ AppEnd \/ SockWritable \/ RcvKexinit \/ RcvNewkeys \/ Server \/ UNCHANGED vars
    <2>1. UNCHANGED <<used, close_sent, pc, sockOpen, status>>
      BY <1>9 DEF AppWrite, AppEnd, SockWritable, RcvKexinit, RcvNewkeys, Server, SrvReceive,
         SrvAnswer, SrvGrant, SrvSend, SrvEof, SrvClose, SrvRekey, clientVars, vars, chanVars
    <2> QED
      BY <1>1, <2>1
  <1>10. ~(Accept \/ ReadStops \/ ReadFails \/ ReadSome \/ RetrySend \/ RetryEnds)
    BY <1>1 DEF Accept, ReadStops, ReadFails, ReadSome, RetrySend, RetryEnds
  <1> QED
    BY <1>2, <1>3, <1>4, <1>5, <1>6, <1>7, <1>8, <1>9, <1>10 DEF Next, Client, ClientReceives

\* CLOSE is sent by its only sender.
LEMMA CloseFlag ==
    ASSUME [Next]_vars, ~RcvClose
    PROVE  close_sent' = close_sent
  BY DEF Next, Client, ClientReceives, Server, AppWrite, AppEnd, SockWritable, Accept, ReadStops,
     ReturnFromRead, ReadFails, ReadSome, OnFdRead, OnFdClose, OnFdWrite, RetrySend, RetryEnds,
     RcvData, RcvEof, RcvConfirm, RcvFailure, RcvAdjust, RcvKexinit, RcvNewkeys, SrvReceive,
     SrvAnswer, SrvGrant, SrvSend, SrvEof, SrvClose, SrvRekey, clientVars, vars, chanVars

\* So CLOSE is the last thing said of the channel.
LEMMA ClosingStep ==
    ASSUME AppType, ControlType, WindowType, QueueType, Answered, Closing, [Next]_vars
    PROVE  Closing'
  <1>1. c2s \in Seq(Message) /\ Len(c2s) \in Nat
    BY DEF QueueType
  <1>2. close_sent' => /\ ~used' /\ ~sockOpen' /\ pc' = "idle"
                       /\ "LOCAL_CONNECTED" \notin status'
    <2>1. CASE RcvClose
      BY <2>1 DEF RcvClose, FreeFwd, ChannelDelete
    <2>2. CASE ~RcvClose
      BY <2>2, CloseFlag, ClosedStep
    <2> QED
      BY <2>1, <2>2
  <1>3. close_sent => close_sent'
    BY ClosedStep
  <1>4. CASE UNCHANGED c2s
    BY <1>2, <1>3, <1>4 DEF Closing
  <1>5. CASE SrvReceive
    <2>1. c2s # <<>> /\ c2s' = Tail(c2s)
      BY <1>5 DEF SrvReceive
    <2>2. \A i \in 1..Len(c2s') : c2s'[i] = c2s[i + 1] /\ i + 1 \in 1..Len(c2s)
      BY <1>1, <2>1, TailFacts
    <2>3. \A i \in 1..Len(c2s') : c2s'[i].type = "CLOSE" => close_sent'
      BY <1>3, <2>2 DEF Closing
    <2>4. \A i, j \in 1..Len(c2s') : (i < j /\ c2s'[i].type = "CLOSE") => c2s'[j].type = "KEXINIT"
      <3> SUFFICES ASSUME NEW i \in 1..Len(c2s'), NEW j \in 1..Len(c2s'), i < j,
                          c2s'[i].type = "CLOSE"
                   PROVE  c2s'[j].type = "KEXINIT"
        OBVIOUS
      <3>1. /\ c2s'[i] = c2s[i + 1] /\ i + 1 \in 1..Len(c2s)
            /\ c2s'[j] = c2s[j + 1] /\ j + 1 \in 1..Len(c2s) /\ i + 1 < j + 1
        BY <2>2
      <3> QED
        BY <3>1 DEF Closing
    <2> QED
      BY <1>2, <2>3, <2>4 DEF Closing
  \* What follows a CLOSE in the queue is said by a client that sent it.
  <1>6. ASSUME NEW q \in Seq(Message), NEW m \in Message, Says(m), c2s' = Append(q, m),
               \A i \in 1..Len(q) : q[i].type = "CLOSE" => close_sent,
               \A i, j \in 1..Len(q) : (i < j /\ q[i].type = "CLOSE") => q[j].type = "KEXINIT"
        PROVE  Closing'
    <2>1. /\ Len(q) \in Nat /\ \A i \in 1..Len(q) : c2s'[i] = q[i]
          /\ \A i \in 1..Len(c2s') : i \in 1..Len(q) \/ (i = Len(q) + 1 /\ c2s'[i] = m)
      BY <1>6, AppendFacts
    <2>2. m.type = "CLOSE" => close_sent'
      BY <1>6 DEF Says, RcvClose, Accept, ReadSome, RetrySend
    <2>3. \A i \in 1..Len(c2s') : c2s'[i].type = "CLOSE" => close_sent'
      BY <1>3, <1>6, <2>1, <2>2
    <2>4. \A i, j \in 1..Len(c2s') : (i < j /\ c2s'[i].type = "CLOSE") => c2s'[j].type = "KEXINIT"
      <3> SUFFICES ASSUME NEW i \in 1..Len(c2s'), NEW j \in 1..Len(c2s'), i < j,
                          c2s'[i].type = "CLOSE"
                   PROVE  c2s'[j].type = "KEXINIT"
        OBVIOUS
      <3>1. i \in 1..Len(q) /\ c2s'[i] = q[i]
        BY <2>1
      <3>2. CASE j \in 1..Len(q)
        BY <1>6, <2>1, <3>1, <3>2
      <3>3. CASE c2s'[j] = m
        BY <1>6, <3>1, <3>3, ClosedSays
      <3> QED
        BY <2>1, <3>2, <3>3
    <2> QED
      BY <1>2, <2>3, <2>4 DEF Closing
  <1>7. CASE SaysOne
    BY <1>1, <1>6, <1>7 DEF SaysOne, Closing
  <1>8. CASE SaysTwo
    <2>1. PICK m, k \in Message : /\ Says(m) /\ m.type = "EOF" /\ Says(k)
                                  /\ c2s' = Append(Append(c2s, m), k)
      BY <1>8 DEF SaysTwo
    <2>2. ~close_sent
      BY <2>1, ClosedSays
    <2>3. \A i \in 1..Len(c2s) : c2s[i].type \notin {"CLOSE"}
      BY <2>2 DEF Closing
    <2> DEFINE q == Append(c2s, m)
    <2>4. m.type \notin {"CLOSE"}
      BY <2>1
    <2>5. \A i \in 1..Len(q) : q[i].type \notin {"CLOSE"}
      BY <1>1, <2>3, <2>4, AppendLacks
    <2>6. q \in Seq(Message)
      BY <1>1, AppendFacts
    <2> HIDE DEF q
    <2>7. \A i \in 1..Len(q) : q[i].type = "CLOSE" => close_sent
      BY <2>5
    <2>8. \A i, j \in 1..Len(q) : (i < j /\ q[i].type = "CLOSE") => q[j].type = "KEXINIT"
      BY <2>5
    <2>9. c2s' = Append(q, k)
      BY <2>1 DEF q
    <2> QED
      BY <1>6, <2>1, <2>6, <2>7, <2>8, <2>9
  <1> QED
    BY <1>4, <1>5, <1>7, <1>8, ClientSays

-----------------------------------------------------------------------------
(* End of file comes after the last byte.                                  *)

\* What the server sent is delivered or in the write buffer of an open socket.
Drained == sockOpen => delivered + writebuf = gotData

\* A socket told to write is there.
WriteOpen == "WRITE" \in posted => sockOpen

\* The remote end of file was seen: all of the server's bytes are in.
AllIn == (shut \/ "CLOSED_REMOTE_IN" \in status) =>
           /\ srv.sentEof /\ gotData = srv.sent
           /\ \A i \in 1..Len(s2c) : s2c[i].type # "DATA"

\* The application sees end of file only with every byte.
AllOut == shut => delivered = srv.sent /\ writebuf = 0

\* The end of the data of the server.
Ending == Drained /\ WriteOpen /\ AllIn /\ AllOut

\* How much of the write buffer goes out.
LEMMA WriteMoreSum ==
    ASSUME DownType, WriteMore
    PROVE  /\ delivered' + writebuf' = delivered + writebuf
           /\ writebuf = 0 => delivered' = delivered /\ writebuf' = 0
           /\ \/ shut' = shut
              \/ writebuf' = 0 /\ "CLOSED_REMOTE_IN" \in status
  <1>1. PICK k \in 0..writebuf :
           /\ delivered' = delivered + k /\ writebuf' = writebuf - k
           /\ shut' = (shut \/ (k = writebuf /\ "CLOSED_REMOTE_IN" \in status))
    BY DEF WriteMore
  <1>2. /\ delivered' + writebuf' = delivered + writebuf
        /\ writebuf = 0 => delivered' = delivered /\ writebuf' = 0
    BY <1>1 DEF DownType
  <1>3. k = writebuf => writebuf' = 0
    BY <1>1 DEF DownType
  <1> QED
    BY <1>1, <1>2, <1>3 DEF DownType

\* UTIL_sock_buffered_write loses no byte.
LEMMA BufferedSum ==
    ASSUME DownType, NEW n \in Nat, SockBufferedWrite(n)
    PROVE  delivered' + writebuf' = delivered + writebuf + n
  <1>1. PICK k \in Int : delivered' = delivered + k /\ writebuf' = (writebuf + n) - k
    BY SizeAssumption DEF SockBufferedWrite, DownType
  <1> QED
    BY <1>1 DEF DownType

\* After the remote end of file no DATA comes and none is sent.
LEMMA NoMoreData ==
    ASSUME WindowType, DownType, QueueType, AllIn, shut \/ "CLOSED_REMOTE_IN" \in status, [Next]_vars
    PROVE  /\ srv'.sentEof /\ gotData' = srv'.sent /\ srv'.sent = srv.sent /\ ~RcvData
           /\ \A i \in 1..Len(s2c') : s2c'[i].type # "DATA"
  <1>1. /\ srv.sentEof /\ gotData = srv.sent /\ srv.sent \in Nat
        /\ \A i \in 1..Len(s2c) : s2c[i].type \notin {"DATA"}
        /\ s2c \in Seq(Message) /\ srv \in ServerState /\ gotData \in Nat
    BY ServerFields DEF AllIn, QueueType, DownType
  <1>0. ~RcvData
    <2>1. s2c # <<>> => Head(s2c).type # "DATA"
      BY <1>1, TailFacts
    <2> QED
      BY <2>1 DEF RcvData
  <1>2. CASE SrvReceive
    <2>1. /\ UNCHANGED gotData /\ srv'.sent = srv.sent /\ srv'.sentEof = srv.sentEof
          /\ \/ s2c' = s2c
             \/ \E m \in Message : m.type = "NEWKEYS" /\ s2c' = Append(s2c, m)
      BY <1>2, ServerReceives DEF clientVars, downVars
    <2>2. \A i \in 1..Len(s2c') : s2c'[i].type \notin {"DATA"}
      <3>1. CASE s2c' = s2c
        BY <1>1, <3>1
      <3>2. ASSUME NEW m \in Message, m.type = "NEWKEYS", s2c' = Append(s2c, m)
            PROVE  \A i \in 1..Len(s2c') : s2c'[i].type \notin {"DATA"}
        <4>1. m.type \notin {"DATA"}
          BY <3>2
        <4> QED
          BY <1>1, <3>2, <4>1, AppendLacks
      <3> QED
        BY <2>1, <3>1, <3>2
    <2> QED
      BY <1>0, <1>1, <2>1, <2>2
  <1>3. CASE Server /\ ~SrvReceive
    <2>1. PICK m \in Message : ServerSays(m)
      BY <1>3, ServerSpeaks
    <2>2. m.type \notin {"DATA"} /\ s2c' = Append(s2c, m)
      BY <1>1, <2>1 DEF ServerSays
    <2>3. Carried(m) = 0
      BY <2>2 DEF Carried
    <2>4. UNCHANGED gotData
      BY <2>1 DEF ServerSays, clientVars, downVars
    <2>6. srv'.sent = srv.sent
      BY <1>1, <2>1, <2>3 DEF ServerSays
    <2>7. srv'.sentEof
      BY <1>1, <2>1 DEF ServerSays
    <2>5. \A i \in 1..Len(s2c') : s2c'[i].type \notin {"DATA"}
      BY <1>1, <2>2, AppendLacks
    <2> QED
      BY <1>0, <1>1, <2>4, <2>5, <2>6, <2>7
  <1>4. CASE ClientReceives
    <2>1. /\ s2c # <<>> /\ s2c' = Tail(s2c) /\ srv' = srv /\ gotData' = gotData + Carried(Head(s2c))
      BY <1>4, ClientTakes
    <2>2. Head(s2c).type \notin {"DATA"}
      BY <1>1, <2>1, TailFacts
    <2>3. Carried(Head(s2c)) = 0
      BY <2>2 DEF Carried
    <2>4. \A i \in 1..Len(s2c') : s2c'[i].type \notin {"DATA"}
      BY <1>1, <2>1, TailLacks
    <2> QED
      BY <1>0, <1>1, <2>1, <2>3, <2>4
  <1>5. CASE ~Server /\ ~ClientReceives
    BY <1>0, <1>1, <1>5, ClientAlone
  <1> QED
    BY <1>2, <1>3, <1>4, <1>5

\* Five handlers deal with the data for the local application.
LEMMA DownAlone ==
    ASSUME [Next]_vars, ~RcvData, ~OnFdWrite, ~RcvEof, ~RcvFailure, ~RcvClose
    PROVE  UNCHANGED downVars
  BY DEF Next, Client, ClientReceives, Server, AppWrite, AppEnd, SockWritable, Accept, ReadStops,
     ReturnFromRead, ReadFails, ReadSome, OnFdRead, OnFdClose, RetrySend, RetryEnds,
     RcvConfirm, RcvAdjust, RcvKexinit, RcvNewkeys, SrvReceive,
     SrvAnswer, SrvGrant, SrvSend, SrvEof, SrvClose, SrvRekey, clientVars, vars

\* FD_WRITE is posted to an open socket, and withdrawn when it is closed.
LEMMA WriteOpenStep ==
    ASSUME WriteOpen, [Next]_vars
    PROVE  WriteOpen'
  <1>1. ASSUME ClosedLocalConnection PROVE WriteOpen'
    BY <1>1 DEF ClosedLocalConnection, WriteOpen
  <1>2. CASE ReadStops \/ ReadFails \/ OnFdClose
    BY <1>1, <1>2 DEF ReadStops, ReturnFromRead, ReadFails, OnFdClose, OnClosedLocalConnection, sockVars,
       WriteOpen
  <1>3. CASE AppWrite \/ AppEnd \/ SockWritable \/ ReadSome \/ OnFdRead \/ RetryEnds \/ Accept
    BY <1>3 DEF AppWrite, AppEnd, SockWritable, ReadSome, OnFdRead, RetryEnds, ResumeRecv, Accept, WriteOpen
  <1>4. CASE RetrySend \/ RcvAdjust \/ RcvKexinit \/ RcvNewkeys \/ RcvEof \/ RcvConfirm
    BY <1>4 DEF RetrySend, RcvAdjust, RcvKexinit, RcvNewkeys, RcvEof, RcvConfirm, sockVars, WriteOpen
  <1>5. CASE Server \/ UNCHANGED vars
    BY <1>5 DEF Server, SrvReceive, SrvAnswer, SrvGrant, SrvSend, SrvEof, SrvClose, SrvRekey,
       clientVars, vars, sockVars, WriteOpen
  <1>6. CASE OnFdWrite
    <2>1. OnClosedLocalConnection => WriteOpen'
      BY <1>1 DEF OnClosedLocalConnection
    <2>2. OnClosedLocalConnection \/ (posted' = posted \ {"WRITE"})
      BY <1>6 DEF OnFdWrite
    <2> QED
      BY <2>1, <2>2 DEF WriteOpen
  <1>7. CASE RcvData
    <2>1. \/ sockOpen' = sockOpen /\ (sockOpen \/ posted' = posted)
          \/ posted' = {}
      <3>1. \/ sockOpen /\ UNCHANGED <<status, sockOpen>>
            \/ posted' = {}
            \/ UNCHANGED <<delivered, writebuf, status, sockOpen, sockVars>>
        BY <1>7, DataStepSocket
      <3> QED
        BY <3>1 DEF sockVars
    <2> QED
      BY <2>1 DEF WriteOpen
  <1>8. CASE RcvFailure \/ RcvClose
    BY <1>8 DEF RcvFailure, RcvClose, FreeFwd, WriteOpen
  <1> QED
    BY <1>2, <1>3, <1>4, <1>5, <1>6, <1>7, <1>8 DEF Next, Client, ClientReceives

\* CLOSED_REMOTE_IN is set when EOF comes.
LEMMA RemoteFlag ==
    ASSUME [Next]_vars, ~RcvEof, "CLOSED_REMOTE_IN" \in status'
    PROVE  "CLOSED_REMOTE_IN" \in status
  <1>1. ClosedLocalConnection => status' \subseteq status \cup {"CLOSED_LOCAL"}
    BY DEF ClosedLocalConnection
  <1>2. CASE ReadStops \/ ReadFails \/ OnFdClose
    BY <1>1, <1>2 DEF ReadStops, ReturnFromRead, ReadFails, OnFdClose, OnClosedLocalConnection
  <1>3. CASE RcvConfirm
    <2>1. status' \subseteq status \cup {"REMOTE_CONNECTED", "CLOSED_LOCAL"}
      BY <1>3 DEF RcvConfirm
    <2> QED
      BY <2>1
  <1>4. CASE Accept \/ RcvFailure \/ RcvClose
    BY <1>4 DEF Accept, RcvFailure, RcvClose, FreeFwd
  <1>5. CASE OnFdWrite
    BY <1>1, <1>5 DEF OnFdWrite, OnClosedLocalConnection
  <1>6. CASE RcvData
    <2>1. \/ status' \subseteq status \cup {"CLOSED_LOCAL"}
          \/ UNCHANGED <<status, sockOpen>>
          \/ UNCHANGED <<delivered, writebuf, status, sockOpen, sockVars>>
      BY <1>6, DataStepSocket
    <2> QED
      BY <2>1
  <1>7. CASE AppWrite \/ AppEnd \/ SockWritable \/ ReadSome \/ OnFdRead \/ RetrySend \/ RetryEnds
             \/ RcvAdjust \/ RcvKexinit \/ RcvNewkeys \/ Server \/ UNCHANGED vars
    <2>1. status' = status
      BY <1>7 DEF AppWrite, AppEnd, SockWritable, ReadSome, OnFdRead, RetrySend, RetryEnds, RcvAdjust,
         RcvKexinit, RcvNewkeys, Server, SrvReceive, SrvAnswer, SrvGrant, SrvSend, SrvEof, SrvClose,
         SrvRekey, clientVars, vars
    <2> QED
      BY <2>1
  <1> QED
    BY <1>2, <1>3, <1>4, <1>5, <1>6, <1>7 DEF Next, Client, ClientReceives

\* The EOF of the server comes after all its DATA.
LEMMA EofLast ==
    ASSUME DownType, QueueType, Answered, DataKept, RcvEof
    PROVE  /\ srv' = srv /\ gotData' = gotData /\ srv.sentEof /\ gotData = srv.sent
           /\ \A i \in 1..Len(s2c') : s2c'[i].type # "DATA"
  <1>1. s2c # <<>> /\ s2c' = Tail(s2c) /\ srv' = srv /\ gotData' = gotData /\ Head(s2c).type = "EOF"
        /\ s2c \in Seq(Message)
    BY DEF RcvEof, QueueType
  <1>2. /\ Head(s2c) = s2c[1] /\ 1 \in 1..Len(s2c) /\ s2c[1] \in Message
        /\ \A i \in 1..Len(s2c') : s2c'[i] = s2c[i + 1] /\ i + 1 \in 1..Len(s2c)
    BY <1>1, TailFacts
  <1>3. srv.sentEof /\ s2c[1].data = srv.sent
    BY <1>1, <1>2 DEF Answered, Addressed
  <1>4. gotData + Carrying[s2c[1]] = Data[s2c[1]]
    BY <1>1 DEF DataKept, Adjoins
  <1>5. Carrying[s2c[1]] = 0 /\ Data[s2c[1]] = s2c[1].data
    <2>1. Carried(s2c[1]) = 0
      BY <1>1, <1>2 DEF Carried
    <2> QED
      BY <1>2, <2>1, Measures
  <1>6. gotData = srv.sent
    BY <1>3, <1>4, <1>5 DEF DownType
  <1>7. \A i \in 1..Len(s2c') : s2c'[i].type # "DATA"
    <2> TAKE i \in 1..Len(s2c')
    <2>1. s2c'[i] = s2c[i + 1] /\ i + 1 \in 1..Len(s2c) /\ 1 < i + 1
      BY <1>2
    <2> QED
      BY <1>1, <1>2, <2>1 DEF Answered, Ordered
  <1> QED
    BY <1>1, <1>3, <1>6, <1>7

\* The shutdown comes after the last byte, in whichever handler it is called.
LEMMA EndingStep ==
    ASSUME NotificationType, AppType, ControlType, DownType, WindowType, QueueType, Fresh, Answered,
           CreditKept, DataKept, ServerInside, WindowKept, ServerNeverRejected, Ending, [Next]_vars
    PROVE  Ending'
  <1>1. WriteOpen'
    BY WriteOpenStep DEF Ending
  <1>2. AllIn'
    <2>1. CASE RcvEof
      BY <2>1, EofLast DEF AllIn
    <2>2. CASE ~RcvEof
      <3>1. shut' => shut \/ "CLOSED_REMOTE_IN" \in status
        <4>1. CASE OnFdWrite
          BY <4>1, FdWriteStep, WriteMoreSum
        <4>2. CASE ~OnFdWrite
          <5>1. shut' = shut
            BY <2>2, <4>2, DownAlone DEF downVars, RcvData, RcvFailure, RcvClose
          <5> QED
            BY <5>1
        <4> QED
          BY <4>1, <4>2
      <3>2. "CLOSED_REMOTE_IN" \in status' => "CLOSED_REMOTE_IN" \in status
        BY <2>2, RemoteFlag
      <3> QED
        BY <3>1, <3>2, NoMoreData DEF Ending, AllIn
    <2> QED
      BY <2>1, <2>2
  <1>3. Drained'
    <2>1. CASE OnFdWrite
      <3>1. gotData' = gotData /\ (sockOpen' = FALSE \/ sockOpen' = sockOpen)
        BY <2>1, FdWriteStep
      <3>2. \/ UNCHANGED <<delivered, writebuf>>
            \/ delivered' + writebuf' = delivered + writebuf
        BY <2>1, FdWriteStep, WriteMoreSum
      <3> QED
        BY <3>1, <3>2 DEF Ending, Drained
    <2>2. CASE RcvData
      <3> DEFINE n == Head(s2c).n
      <3>1. n \in Nat /\ gotData' = gotData + n
        BY <2>2, QueueHeads, FieldTypes DEF RcvData
      <3>2. Acceptable(n)
        BY <2>2, DataAcceptable
      <3>3. ReceivedData(n)
        BY <2>2, <3>2 DEF RcvData
      <3> HIDE DEF n
      <3>4. \/ sockOpen /\ SockBufferedWrite(n)
            \/ sockOpen' = FALSE
        BY <3>3 DEF ReceivedData, ClosedLocalConnection, NotificationType
      <3>5. CASE sockOpen /\ SockBufferedWrite(n)
        <4>1. delivered' + writebuf' = delivered + writebuf + n /\ delivered + writebuf = gotData
          BY <3>1, <3>5, BufferedSum DEF Ending, Drained
        <4> QED
          BY <3>1, <4>1 DEF Drained, DownType
      <3>6. CASE sockOpen' = FALSE
        BY <3>6 DEF Drained
      <3> QED
        BY <3>4, <3>5, <3>6
    <2>3. CASE RcvEof
      BY <2>3 DEF RcvEof, Ending, Drained
    <2>4. CASE RcvFailure \/ RcvClose
      BY <2>4 DEF RcvFailure, RcvClose, FreeFwd, Drained
    <2>5. CASE Accept
      <3>1. delivered = 0 /\ writebuf = 0 /\ gotData = 0
        BY <2>5 DEF Accept, Fresh
      <3> QED
        BY <2>5, <3>1 DEF Accept, downVars, Drained
    <2>6. CASE ~(OnFdWrite \/ RcvData \/ RcvEof \/ RcvFailure \/ RcvClose \/ Accept)
      <3>1. UNCHANGED downVars
        BY <2>6, DownAlone
      <3>2. sockOpen' = FALSE \/ sockOpen' = sockOpen
        <4>1. CASE SockWritable \/ RcvConfirm
          BY <4>1 DEF SockWritable, RcvConfirm
        <4>2. CASE ~(SockWritable \/ RcvConfirm)
          BY <2>6, <4>2, SocketStep
        <4> QED
          BY <4>1, <4>2
      <3> QED
        BY <3>1, <3>2 DEF Ending, Drained, downVars
    <2> QED
      BY <2>1, <2>2, <2>3, <2>4, <2>5, <2>6
  <1>4. AllOut'
    <2>1. CASE shut
      <3>1. ~RcvData /\ srv'.sent = srv.sent /\ delivered = srv.sent /\ writebuf = 0
        BY <2>1, NoMoreData DEF Ending, AllOut
      <3>2. delivered' = delivered /\ writebuf' = 0
        <4>1. CASE OnFdWrite
          BY <3>1, <4>1, FdWriteStep, WriteMoreSum
        <4>2. CASE RcvEof \/ RcvFailure \/ RcvClose
          BY <3>1, <4>2 DEF RcvEof, RcvFailure, RcvClose, FreeFwd
        <4>3. CASE ~(OnFdWrite \/ RcvEof \/ RcvFailure \/ RcvClose)
          BY <3>1, <4>3, DownAlone DEF downVars
        <4> QED
          BY <4>1, <4>2, <4>3
      <3> QED
        BY <3>1, <3>2 DEF AllOut
    <2>2. CASE ~shut /\ OnFdWrite
      <3> SUFFICES ASSUME shut' PROVE delivered' = srv'.sent /\ writebuf' = 0
        BY DEF AllOut
      <3>1. WriteMore /\ UNCHANGED <<status, sockOpen>> /\ gotData' = gotData /\ srv' = srv
        BY <2>2, FdWriteStep
      <3>2. writebuf' = 0 /\ "CLOSED_REMOTE_IN" \in status
        BY <2>2, <3>1, WriteMoreSum
      <3>3. sockOpen
        BY <2>2 DEF OnFdWrite, Ending, WriteOpen
      <3>4. delivered + writebuf = gotData /\ gotData = srv.sent
        BY <3>2, <3>3 DEF Ending, Drained, AllIn
      <3>5. delivered' + writebuf' = delivered + writebuf
        BY <3>1, WriteMoreSum
      <3>6. delivered' \in Nat
        BY <3>1 DEF WriteMore, DownType
      <3> QED
        BY <3>1, <3>2, <3>4, <3>5, <3>6
    <2>3. CASE ~shut /\ RcvEof
      <3> SUFFICES ASSUME shut' PROVE delivered' = srv'.sent /\ writebuf' = 0
        BY DEF AllOut
      <3>1. sockOpen /\ writebuf = 0 /\ UNCHANGED <<delivered, writebuf>>
        BY <2>3 DEF RcvEof, ShutdownNow
      <3>2. delivered + writebuf = gotData
        BY <3>1 DEF Ending, Drained
      <3>3. gotData = srv.sent /\ srv' = srv
        BY <2>3, EofLast
      <3> QED
        BY <3>1, <3>2, <3>3 DEF DownType
    <2>4. CASE ~shut /\ ~OnFdWrite /\ ~RcvEof
      <3>1. shut' = shut
        BY <2>4, DownAlone DEF downVars, RcvData, RcvFailure, RcvClose
      <3> QED
        BY <2>4, <3>1 DEF AllOut
    <2> QED
      BY <2>1, <2>2, <2>3, <2>4
  <1> QED
    BY <1>1, <1>2, <1>3, <1>4 DEF Ending

\* After CLOSE the client says nothing more of the channel, and the application
\* sees end of file only with everything the server sent.
THEOREM EndsAreOrdered == Spec => []EndsInOrder
  <1>1. Init => Closing /\ Ending
    <2> SUFFICES ASSUME Init PROVE Closing /\ Ending
      OBVIOUS
    <2>1. Len(c2s) = 0
      BY DEF Init
    <2> QED
      BY <2>1 DEF Init, Closing, Ending, Drained, WriteOpen, AllIn, AllOut
  <1>2. TypeOK /\ Handshake /\ Closing /\ Ending /\ [Next]_vars => (Closing /\ Ending)'
    BY ClosingStep, EndingStep DEF TypeOK, Handshake
  <1>3. TypeOK /\ Closing /\ Ending => EndsInOrder
    <2> SUFFICES ASSUME TypeOK, Closing, Ending PROVE EndsInOrder
      OBVIOUS
    <2>1. DOMAIN c2s = 1..Len(c2s)
      BY DEF TypeOK, QueueType
    <2> QED
      BY <2>1 DEF Closing, Ending, AllOut, EndsInOrder
  <1> QED
    BY TypeCorrect, HandshakeInit, HandshakeStep, <1>1, <1>2, <1>3, PTL DEF Spec

-----------------------------------------------------------------------------
(* The bytes of the application.                                           *)

\* The positions of an appended queue and of its tail.
LEMMA DataAppended ==
    ASSUME NEW q \in Seq(Message), NEW m \in Message
    PROVE  /\ \A i \in DataIn(Append(q, m)) :
                \/ i \in DataIn(q) /\ Append(q, m)[i] = q[i] /\ q[i] \in Message /\ i \in 1..Len(q)
                \/ i = Len(q) + 1 /\ Append(q, m)[i] = m /\ m.type = "DATA"
           /\ Len(q) \in Nat
  BY AppendFacts DEF DataIn

\* A message without data changes nothing.
LEMMA OrderAside ==
    ASSUME NEW q \in Seq(Message), NEW m \in Message, m.type # "DATA",
           NEW chunks \in Seq(Chunk), NEW first \in Nat, NEW last \in Nat,
           InReadOrder(first, q, chunks, last)
    PROVE  InReadOrder(first, Append(q, m), chunks, last)
  <1> DEFINE r == Append(q, m)
  <1>1. \A i \in DataIn(r) : i \in DataIn(q) /\ r[i] = q[i]
    BY DataAppended
  <1> HIDE DEF r
  <1> QED
    BY <1>1 DEF InReadOrder, r

\* A read that is sent at once, with nothing waiting.
LEMMA OrderSent ==
    ASSUME NEW q \in Seq(Message), NEW m \in Message, m.type = "DATA",
           NEW first \in Nat, NEW last \in Nat, m.lo = last,
           InReadOrder(first, q, <<>>, last)
    PROVE  InReadOrder(first, Append(q, m), <<>>, last + m.n)
  <1> DEFINE r == Append(q, m)
  <1>1. /\ \A i \in DataIn(r) : \/ i \in DataIn(q) /\ r[i] = q[i] /\ q[i] \in Message /\ i \in 1..Len(q)
                                \/ i = Len(q) + 1 /\ r[i] = m
        /\ Len(q) \in Nat
    BY DataAppended
  <1>2. m.n \in Nat /\ \A k \in Message : k.lo \in Nat /\ k.n \in Nat
    BY FieldTypes
  <1>3. 1..Len(<<>>) = {}
    OBVIOUS
  <1> HIDE DEF r
  <1>4. first <= last + m.n
    BY <1>2 DEF InReadOrder
  <1>5. \A i \in DataIn(r) : first <= r[i].lo /\ r[i].lo + r[i].n <= last + m.n
    <2> TAKE i \in DataIn(r)
    <2>1. CASE i \in DataIn(q) /\ r[i] = q[i] /\ q[i] \in Message
      <3>1. first <= q[i].lo /\ q[i].lo + q[i].n <= last
        BY <2>1 DEF InReadOrder
      <3>2. q[i].lo \in Nat /\ q[i].n \in Nat
        BY <1>2, <2>1
      <3> QED
        BY SMTT(40), <1>2, <2>1, <3>1, <3>2
    <2>2. CASE r[i] = m
      <3>1. first <= last
        BY DEF InReadOrder
      <3> QED
        BY <1>2, <2>2, <3>1
    <2> QED
      BY <1>1, <2>1, <2>2
  <1>6. \A i, j \in DataIn(r) : i < j => Before(r[i], r[j])
    <2> SUFFICES ASSUME NEW i \in DataIn(r), NEW j \in DataIn(r), i < j
                 PROVE  Before(r[i], r[j])
      OBVIOUS
    <2>1. i \in DataIn(q) /\ r[i] = q[i] /\ i \in 1..Len(q)
      <3>1. j \in 1..(Len(q) + 1)
        BY <1>1
      <3>2. i # Len(q) + 1
        BY <1>1, <3>1
      <3> QED
        BY <1>1, <3>2
    <2>2. CASE j \in DataIn(q) /\ r[j] = q[j]
      BY <2>1, <2>2 DEF InReadOrder
    <2>3. CASE r[j] = m
      BY <2>1, <2>3 DEF InReadOrder, Before
    <2> QED
      BY <1>1, <2>2, <2>3
  <1> QED
    BY <1>3, <1>4, <1>5, <1>6 DEF InReadOrder, r

\* A read that is queued.
LEMMA OrderQueued ==
    ASSUME NEW q \in Seq(Message), NEW chunks \in Seq(Chunk), NEW c \in Chunk,
           NEW first \in Nat, NEW last \in Nat, c.lo = last,
           InReadOrder(first, q, chunks, last)
    PROVE  InReadOrder(first, q, Append(chunks, c), last + c.n)
  <1> DEFINE r == Append(chunks, c)
  <1>1. /\ \A k \in 1..Len(r) : \/ k \in 1..Len(chunks) /\ r[k] = chunks[k] /\ chunks[k] \in Chunk
                                \/ k = Len(chunks) + 1 /\ r[k] = c
        /\ Len(chunks) \in Nat
    BY AppendFacts
  <1>2. /\ c.n \in Nat /\ \A k \in Chunk : k.lo \in Nat /\ k.n \in Nat
        /\ \A i \in DataIn(q) : q[i].lo \in Nat /\ q[i].n \in Nat
    BY FieldTypes DEF DataIn
  <1> HIDE DEF r
  <1>3. first <= last /\ first <= last + c.n
    BY <1>2 DEF InReadOrder
  <1>4. \A i \in DataIn(q) : first <= q[i].lo /\ q[i].lo + q[i].n <= last + c.n
    <2> TAKE i \in DataIn(q)
    <2>1. first <= q[i].lo /\ q[i].lo + q[i].n <= last
      BY DEF InReadOrder
    <2> QED
      BY <1>2, <2>1
  <1>5. \A k \in 1..Len(r) : first <= r[k].lo /\ r[k].lo + r[k].n <= last + c.n
    <2> TAKE k \in 1..Len(r)
    <2>1. CASE k \in 1..Len(chunks) /\ r[k] = chunks[k] /\ chunks[k] \in Chunk
      <3>1. first <= chunks[k].lo /\ chunks[k].lo + chunks[k].n <= last
        BY <2>1 DEF InReadOrder
      <3>2. chunks[k].lo \in Nat /\ chunks[k].n \in Nat
        BY <1>2, <2>1
      <3> QED
        BY SMTT(40), <1>2, <2>1, <3>1, <3>2
    <2>2. CASE r[k] = c
      BY <1>2, <1>3, <2>2
    <2> QED
      BY <1>1, <2>1, <2>2
  <1>6. \A i \in DataIn(q), k \in 1..Len(r) : Before(q[i], r[k])
    BY <1>1 DEF InReadOrder, Before
  <1>7. \A k, l \in 1..Len(r) : k < l => Before(r[k], r[l])
    <2> SUFFICES ASSUME NEW k \in 1..Len(r), NEW l \in 1..Len(r), k < l
                 PROVE  Before(r[k], r[l])
      OBVIOUS
    <2>1. k \in 1..Len(chunks) /\ r[k] = chunks[k]
      <3>1. l \in 1..(Len(chunks) + 1)
        BY <1>1
      <3> QED
        BY <1>1, <3>1
    <2>2. CASE l \in 1..Len(chunks) /\ r[l] = chunks[l]
      BY <2>1, <2>2 DEF InReadOrder
    <2>3. CASE r[l] = c
      BY <2>1, <2>3 DEF InReadOrder, Before
    <2> QED
      BY <1>1, <2>2, <2>3
  <1>8. \A i, j \in DataIn(q) : i < j => Before(q[i], q[j])
    BY DEF InReadOrder
  <1> QED
    BY <1>3, <1>4, <1>5, <1>6, <1>7, <1>8 DEF InReadOrder, r

\* The chunk at the head goes.
LEMMA OrderUnqueued ==
    ASSUME NEW q \in Seq(Message), NEW chunks \in Seq(Chunk), chunks # <<>>,
           NEW first \in Nat, NEW last \in Nat,
           InReadOrder(first, q, chunks, last)
    PROVE  InReadOrder(first, q, Tail(chunks), last)
  <1> DEFINE r == Tail(chunks)
  <1>1. \A k \in 1..Len(r) : k + 1 \in 1..Len(chunks) /\ r[k] = chunks[k + 1] /\ k \in Int
    BY TailFacts
  <1> HIDE DEF r
  <1>2. \A k, l \in 1..Len(r) : k < l => Before(r[k], r[l])
    <2> SUFFICES ASSUME NEW k \in 1..Len(r), NEW l \in 1..Len(r), k < l
                 PROVE  Before(r[k], r[l])
      OBVIOUS
    <2>1. /\ k + 1 \in 1..Len(chunks) /\ r[k] = chunks[k + 1]
          /\ l + 1 \in 1..Len(chunks) /\ r[l] = chunks[l + 1] /\ k + 1 < l + 1
      BY <1>1
    <2> QED
      BY <2>1 DEF InReadOrder
  <1> QED
    BY <1>1, <1>2 DEF InReadOrder, r

\* It goes to the wire.
LEMMA OrderMoved ==
    ASSUME NEW q \in Seq(Message), NEW m \in Message, m.type = "DATA",
           NEW chunks \in Seq(Chunk), chunks # <<>>,
           NEW first \in Nat, NEW last \in Nat,
           m.lo = Head(chunks).lo, m.n = Head(chunks).n,
           InReadOrder(first, q, chunks, last)
    PROVE  InReadOrder(first, Append(q, m), Tail(chunks), last)
  <1> DEFINE r == Append(q, m)
             rest == Tail(chunks)
  <1>1. /\ \A i \in DataIn(r) : \/ i \in DataIn(q) /\ r[i] = q[i] /\ i \in 1..Len(q)
                                \/ i = Len(q) + 1 /\ r[i] = m
        /\ Len(q) \in Nat
    BY DataAppended
  <1>2. /\ Head(chunks) = chunks[1] /\ 1 \in 1..Len(chunks)
        /\ \A k \in 1..Len(rest) : k + 1 \in 1..Len(chunks) /\ rest[k] = chunks[k + 1] /\ 1 < k + 1
    BY TailFacts
  <1>3. InReadOrder(first, q, rest, last)
    BY OrderUnqueued
  <1> HIDE DEF r, rest
  <1>4. first <= m.lo /\ m.lo + m.n <= last
    BY <1>2 DEF InReadOrder
  <1>5. \A i \in DataIn(r) : first <= r[i].lo /\ r[i].lo + r[i].n <= last
    BY <1>1, <1>4 DEF InReadOrder
  <1>6. \A i \in DataIn(q) : Before(q[i], m)
    BY <1>2 DEF InReadOrder, Before
  <1>7. \A k \in 1..Len(rest) : Before(m, rest[k])
    <2> TAKE k \in 1..Len(rest)
    <2>1. Before(chunks[1], chunks[k + 1])
      BY <1>2 DEF InReadOrder
    <2> QED
      BY <1>2, <2>1 DEF Before
  <1>8. \A i, j \in DataIn(r) : i < j => Before(r[i], r[j])
    <2> SUFFICES ASSUME NEW i \in DataIn(r), NEW j \in DataIn(r), i < j
                 PROVE  Before(r[i], r[j])
      OBVIOUS
    <2>1. i \in DataIn(q) /\ r[i] = q[i]
      <3>1. j \in 1..(Len(q) + 1)
        BY <1>1
      <3>2. i # Len(q) + 1
        BY <1>1, <3>1
      <3> QED
        BY <1>1, <3>2
    <2>2. CASE j \in DataIn(q) /\ r[j] = q[j]
      BY <2>1, <2>2 DEF InReadOrder
    <2>3. CASE r[j] = m
      BY <1>6, <2>1, <2>3
    <2> QED
      BY <1>1, <2>2, <2>3
  <1>9. \A i \in DataIn(r), k \in 1..Len(rest) : Before(r[i], rest[k])
    <2> TAKE i \in DataIn(r), k \in 1..Len(rest)
    <2>1. CASE i \in DataIn(q) /\ r[i] = q[i]
      BY <1>3, <2>1 DEF InReadOrder
    <2>2. CASE r[i] = m
      BY <1>7, <2>2
    <2> QED
      BY <1>1, <2>1, <2>2
  <1> QED
    BY <1>3, <1>5, <1>8, <1>9 DEF InReadOrder, r, rest

\* The server takes the first message.
LEMMA OrderTaken ==
    ASSUME NEW q \in Seq(Message), q # <<>>, NEW chunks \in Seq(Chunk),
           NEW first \in Nat, NEW last \in Nat,
           InReadOrder(first, q, chunks, last)
    PROVE  InReadOrder(IF Head(q).type = "DATA" THEN Head(q).lo + Head(q).n ELSE first,
                       Tail(q), chunks, last)
  <1> DEFINE r == Tail(q)
             next == IF Head(q).type = "DATA" THEN Head(q).lo + Head(q).n ELSE first
  <1>1. /\ Head(q) = q[1] /\ 1 \in 1..Len(q)
        /\ \A i \in DataIn(r) : i + 1 \in DataIn(q) /\ r[i] = q[i + 1] /\ 1 < i + 1 /\ i \in Int
    BY TailFacts DEF DataIn
  <1>2. Head(q).type = "DATA" => 1 \in DataIn(q)
    BY <1>1 DEF DataIn
  <1>3. next <= last
    BY <1>1, <1>2 DEF InReadOrder
  <1>4. \A i \in DataIn(r) : next <= r[i].lo /\ r[i].lo + r[i].n <= last
    <2> TAKE i \in DataIn(r)
    <2>1. i + 1 \in DataIn(q) /\ r[i] = q[i + 1] /\ 1 < i + 1
      BY <1>1
    <2>2. first <= q[i + 1].lo /\ q[i + 1].lo + q[i + 1].n <= last
      BY <2>1 DEF InReadOrder
    <2>3. CASE Head(q).type = "DATA"
      <3>1. Before(q[1], q[i + 1])
        BY <1>2, <2>1, <2>3 DEF InReadOrder
      <3> QED
        BY <1>1, <2>1, <2>2, <2>3, <3>1 DEF Before
    <2>4. CASE Head(q).type # "DATA"
      BY <2>1, <2>2, <2>4
    <2> QED
      BY <2>3, <2>4
  <1>5. \A k \in 1..Len(chunks) : next <= chunks[k].lo /\ chunks[k].lo + chunks[k].n <= last
    BY <1>1, <1>2 DEF InReadOrder, Before
  <1>6. \A i, j \in DataIn(r) : i < j => Before(r[i], r[j])
    <2> SUFFICES ASSUME NEW i \in DataIn(r), NEW j \in DataIn(r), i < j
                 PROVE  Before(r[i], r[j])
      OBVIOUS
    <2>1. /\ i + 1 \in DataIn(q) /\ r[i] = q[i + 1]
          /\ j + 1 \in DataIn(q) /\ r[j] = q[j + 1]
      BY <1>1
    <2>2. i + 1 < j + 1
      BY <1>1
    <2> QED
      BY <2>1, <2>2 DEF InReadOrder
  <1>7. \A i \in DataIn(r), k \in 1..Len(chunks) : Before(r[i], chunks[k])
    BY <1>1 DEF InReadOrder
  <1>8. \A k, l \in 1..Len(chunks) : k < l => Before(chunks[k], chunks[l])
    BY DEF InReadOrder
  <1> HIDE DEF r, next
  <1>9. InReadOrder(next, r, chunks, last)
    BY <1>3, <1>4, <1>5, <1>6, <1>7, <1>8 DEF InReadOrder
  <1> QED
    BY <1>9 DEF r, next

\* More was read, and thrown away.
LEMMA OrderLater ==
    ASSUME NEW q \in Seq(Message), NEW chunks \in Seq(Chunk),
           NEW first \in Nat, NEW last \in Nat, NEW n \in Nat,
           InReadOrder(first, q, chunks, last)
    PROVE  InReadOrder(first, q, chunks, last + n)
  <1>1. /\ \A i \in DataIn(q) : q[i].lo \in Nat /\ q[i].n \in Nat
        /\ \A k \in 1..Len(chunks) : chunks[k].lo \in Nat /\ chunks[k].n \in Nat
    <2>1. \A i \in DataIn(q) : q[i] \in Message
      BY DEF DataIn
    <2>2. \A k \in 1..Len(chunks) : chunks[k] \in Chunk
      OBVIOUS
    <2> QED
      BY <2>1, <2>2, FieldTypes
  <1>2. first <= last + n
    BY DEF InReadOrder
  <1>3. \A i \in DataIn(q) : first <= q[i].lo /\ q[i].lo + q[i].n <= last + n
    BY <1>1 DEF InReadOrder
  <1>4. \A k \in 1..Len(chunks) : first <= chunks[k].lo /\ chunks[k].lo + chunks[k].n <= last + n
    BY <1>1 DEF InReadOrder
  <1> QED
    BY <1>2, <1>3, <1>4 DEF InReadOrder

\* The chunks are dropped with the channel.
LEMMA OrderDropped ==
    ASSUME NEW q \in Seq(Message), NEW chunks, NEW first, NEW last,
           InReadOrder(first, q, chunks, last)
    PROVE  InReadOrder(first, q, <<>>, last)
  <1>1. 1..Len(<<>>) = {}
    OBVIOUS
  <1> QED
    BY <1>1 DEF InReadOrder

\* Whatever else the client says leaves the order of the bytes alone.
LEMMA OrderSaid ==
    ASSUME AppType, WindowType, QueueType, [Next]_vars, ~ReadSome, ~RetrySend, ~SrvReceive,
           NEW chunks \in Seq(Chunk), NEW first \in Nat, NEW last \in Nat,
           InReadOrder(first, c2s, chunks, last)
    PROVE  InReadOrder(first, c2s', chunks, last)
  <1>1. c2s \in Seq(Message)
    BY DEF QueueType
  <1>2. \A m \in Message : Says(m) => m.type # "DATA"
    BY DEF Says
  <1>3. CASE UNCHANGED c2s
    BY <1>3
  <1>4. CASE SaysOne
    <2>1. PICK m \in Message : Says(m) /\ c2s' = Append(c2s, m)
      BY <1>4 DEF SaysOne
    <2> QED
      BY <1>1, <1>2, <2>1, OrderAside
  <1>5. CASE SaysTwo
    <2>1. PICK m, k \in Message : Says(m) /\ Says(k) /\ c2s' = Append(Append(c2s, m), k)
      BY <1>5 DEF SaysTwo
    <2> DEFINE q == Append(c2s, m)
    <2>2. q \in Seq(Message) /\ InReadOrder(first, q, chunks, last)
      BY <1>1, <1>2, <2>1, OrderAside, AppendFacts
    <2>3. c2s' = Append(q, k)
      BY <2>1
    <2> HIDE DEF q
    <2> QED
      BY <1>2, <2>1, <2>2, <2>3, OrderAside
  <1> QED
    BY <1>3, <1>4, <1>5, ClientSays

\* recv: the bytes are thrown away, queued or sent, and counted as one of these.
LEMMA ReadIntact ==
    ASSUME AppType, WindowType, QueueType, UpstreamIntact, ReadSome
    PROVE  UpstreamIntact'
  <1> DEFINE n == IF Unread < ReadBuf THEN Unread ELSE ReadBuf
             m == UpMsg("DATA", recvd, n, 0)
             c == [lo |-> recvd, n |-> n]
  <1>1. n \in Nat \ {0} /\ recvd \in Nat
    BY SizeAssumption DEF ReadSome, Unread, AppType
  <1>2. /\ SendChannelData(recvd, n) /\ recvd' = recvd + n /\ UNCHANGED <<used, srv>>
    BY DEF ReadSome, chanVars
  <1>3. srv.next \in Nat /\ c2s \in Seq(Message) /\ bufchain \in Seq(Chunk)
    BY ServerFields DEF QueueType
  <1>4. /\ InReadOrder(srv.next, c2s, bufchain, recvd)
        /\ used => sent + bufchain_amount + discarded = recvd
        /\ sent \in Int /\ bufchain_amount \in Int /\ discarded \in Int
    BY DEF UpstreamIntact, WindowType
  <1>5. m \in Message /\ m.type = "DATA" /\ m.lo = recvd /\ m.n = n
    <2>1. "DATA" \in MsgTypes /\ 0 \in Nat
      BY DEF MsgTypes
    <2> HIDE DEF n
    <2>2. m \in Message
      BY <1>1, <2>1, UpMessage
    <2>3. m.type = "DATA" /\ m.lo = recvd /\ m.n = n
      BY DEF UpMsg
    <2> QED
      BY <2>2, <2>3
  <1>6. c \in Chunk /\ c.lo = recvd /\ c.n = n
    BY <1>1 DEF Chunk
  <1>7. \/ discarded' = discarded + n /\ UNCHANGED <<bufVars, c2s, sent>>
        \/ /\ bufchain' = Append(bufchain, c) /\ bufchain_amount' = bufchain_amount + n
           /\ UNCHANGED <<c2s, sent, discarded>>
        \/ /\ c2s' = Append(c2s, m) /\ sent' = sent + n /\ bufchain = <<>>
           /\ UNCHANGED <<bufVars, discarded>>
    BY <1>2 DEF SendChannelData, AddBufchain, SendNow, MustQueue
  <1> HIDE DEF n, m, c
  <1>8. used' => sent' + bufchain_amount' + discarded' = recvd'
    BY <1>1, <1>2, <1>4, <1>7 DEF bufVars
  <1>9. InReadOrder(srv.next, c2s', bufchain', recvd + n)
    <2>1. CASE UNCHANGED <<bufVars, c2s, sent>>
      <3>1. InReadOrder(srv.next, c2s, bufchain, recvd + n)
        BY <1>1, <1>3, <1>4, OrderLater
      <3> QED
        BY <2>1, <3>1 DEF bufVars
    <2>2. CASE bufchain' = Append(bufchain, c) /\ UNCHANGED c2s
      <3>1. InReadOrder(srv.next, c2s, Append(bufchain, c), recvd + c.n)
        BY <1>1, <1>3, <1>4, <1>6, OrderQueued
      <3> QED
        BY <1>6, <2>2, <3>1
    <2>3. CASE c2s' = Append(c2s, m) /\ bufchain = <<>> /\ UNCHANGED bufVars
      <3>1. InReadOrder(srv.next, Append(c2s, m), <<>>, recvd + m.n)
        BY <1>1, <1>3, <1>4, <1>5, <2>3, OrderSent
      <3> QED
        BY <1>5, <2>3, <3>1 DEF bufVars
    <2> QED
      BY <1>7, <2>1, <2>2, <2>3
  <1> QED
    BY <1>2, <1>8, <1>9 DEF UpstreamIntact

\* ssh2_channel_retry_send_bufchain: the first chunk goes out, or is thrown away.
LEMMA RetryIntact ==
    ASSUME AppType, WindowType, QueueType, UpstreamIntact, RetrySend
    PROVE  UpstreamIntact'
  <1> DEFINE h == Head(bufchain)
             m == UpMsg("DATA", h.lo, h.n, 0)
  <1>1. /\ bufchain # <<>> /\ bufchain' = Tail(bufchain) /\ bufchain_amount' = bufchain_amount - h.n
        /\ UNCHANGED <<used, recvd, srv>>
    BY DEF RetrySend, chanVars
  <1>2. /\ srv.next \in Nat /\ c2s \in Seq(Message) /\ bufchain \in Seq(Chunk) /\ recvd \in Nat
        /\ h \in Chunk /\ h.lo \in Nat /\ h.n \in Nat
    BY <1>1, QueueHeads, FieldTypes, ServerFields DEF QueueType, AppType
  <1>3. /\ InReadOrder(srv.next, c2s, bufchain, recvd)
        /\ used => sent + bufchain_amount + discarded = recvd
        /\ sent \in Int /\ bufchain_amount \in Int /\ discarded \in Int
    BY DEF UpstreamIntact, WindowType
  <1>4. \/ discarded' = discarded + h.n /\ UNCHANGED <<c2s, sent>>
        \/ c2s' = Append(c2s, m) /\ sent' = sent + h.n /\ UNCHANGED discarded
    BY DEF RetrySend, SendNow
  <1>5. m \in Message /\ m.type = "DATA" /\ m.lo = h.lo /\ m.n = h.n
    <2>1. "DATA" \in MsgTypes /\ 0 \in Nat
      BY DEF MsgTypes
    <2>2. m.type = "DATA" /\ m.lo = h.lo /\ m.n = h.n
      BY DEF UpMsg
    <2> HIDE DEF h
    <2>3. m \in Message
      BY <1>2, <2>1, UpMessage
    <2> QED
      BY <2>2, <2>3
  <1> HIDE DEF m
  <1>6. used' => sent' + bufchain_amount' + discarded' = recvd'
    <2>1. h.n \in Int
      BY <1>2
    <2> HIDE DEF h
    <2>2. used => sent' + bufchain_amount' + discarded' = recvd
      BY SMTT(40), <1>1, <1>3, <1>4, <2>1
    <2> QED
      BY <1>1, <2>2
  <1>7. InReadOrder(srv.next, c2s', Tail(bufchain), recvd)
    <2>1. CASE UNCHANGED c2s
      BY <1>1, <1>2, <1>3, <2>1, OrderUnqueued
    <2>2. CASE c2s' = Append(c2s, m)
      BY <1>1, <1>2, <1>3, <1>5, <2>2, OrderMoved
    <2> QED
      BY <1>4, <2>1, <2>2
  <1> QED
    BY <1>1, <1>6, <1>7 DEF UpstreamIntact

\* Nothing else touches the bytes that were read.
LEMMA UpstreamAlone ==
    ASSUME [Next]_vars, ~ReadSome, ~RetrySend
    PROVE  /\ UNCHANGED <<recvd, sent, discarded>>
           /\ \/ UNCHANGED <<bufchain, bufchain_amount>>
              \/ (RcvFailure \/ RcvClose) /\ bufchain' = <<>> /\ used' = FALSE
  <1>1. CASE RcvFailure \/ RcvClose
    BY <1>1 DEF RcvFailure, RcvClose, ChannelDelete, upVars
  <1>2. CASE ~(RcvFailure \/ RcvClose)
    BY <1>2 DEF Next, Client, ClientReceives, Server, AppWrite, AppEnd, SockWritable, Accept, ReadStops,
       ReturnFromRead, ReadFails, OnFdRead, OnFdClose, OnFdWrite, RetryEnds,
       RcvData, RcvEof, RcvConfirm, RcvAdjust, RcvKexinit, RcvNewkeys, SrvReceive,
       SrvAnswer, SrvGrant, SrvSend, SrvEof, SrvClose, SrvRekey, clientVars, vars, bufVars, upVars
  <1> QED
    BY <1>1, <1>2

\* Every step keeps the bytes in order.
LEMMA UpstreamStep ==
    ASSUME AppType, DownType, ControlType, WindowType, QueueType, Fresh, UpstreamIntact, [Next]_vars
    PROVE  UpstreamIntact'
  <1>1. /\ srv.next \in Nat /\ recvd \in Nat /\ c2s \in Seq(Message) /\ bufchain \in Seq(Chunk)
        /\ InReadOrder(srv.next, c2s, bufchain, recvd)
        /\ used => sent + bufchain_amount + discarded = recvd
    BY ServerFields DEF UpstreamIntact, AppType, QueueType
  <1>2. CASE ReadSome
    BY <1>2, ReadIntact
  <1>3. CASE RetrySend
    BY <1>3, RetryIntact
  <1>4. CASE SrvReceive
    <2> DEFINE next == IF Head(c2s).type = "DATA" THEN Head(c2s).lo + Head(c2s).n ELSE srv.next
    <2>1. /\ c2s # <<>> /\ c2s' = Tail(c2s) /\ srv'.next = next
          /\ UNCHANGED <<bufchain, bufchain_amount, recvd, sent, discarded, used>>
      BY <1>4, ServerReceives DEF clientVars, bufVars, upVars, chanVars
    <2>2. InReadOrder(next, Tail(c2s), bufchain, recvd)
      BY <1>1, <2>1, OrderTaken
    <2> HIDE DEF next
    <2> QED
      BY <1>1, <2>1, <2>2 DEF UpstreamIntact
  <1>5. CASE ~ReadSome /\ ~RetrySend /\ ~SrvReceive
    <2>1. srv'.next = srv.next
      <3>1. CASE Server
        BY <1>5, <3>1, ServerSpeaks DEF ServerSays
      <3>2. CASE ~Server
        BY <3>2, ClientAlone, ClientTakes
      <3> QED
        BY <3>1, <3>2
    <2>2. recvd' = recvd /\ sent' = sent /\ discarded' = discarded
      BY <1>5, UpstreamAlone
    <2>3. CASE UNCHANGED <<bufchain, bufchain_amount>>
      <3>1. InReadOrder(srv.next, c2s', bufchain, recvd)
        BY <1>1, <1>5, OrderSaid
      <3>2. used' => sent' + bufchain_amount' + discarded' = recvd'
        <4>1. CASE Accept
          <5>1. sent = 0 /\ bufchain_amount = 0 /\ discarded = 0 /\ recvd = 0
            BY <4>1 DEF Accept, Fresh
          <5> QED
            BY <2>2, <2>3, <5>1
        <4>2. CASE ~Accept
          <5>1. used' => used
            BY <4>2, ChannelFlags
          <5> QED
            BY <1>1, <2>2, <2>3, <5>1
        <4> QED
          BY <4>1, <4>2
      <3> QED
        BY <2>1, <2>2, <2>3, <3>1, <3>2 DEF UpstreamIntact
    <2>4. CASE bufchain' = <<>> /\ used' = FALSE
      <3>1. <<>> \in Seq(Chunk) /\ InReadOrder(srv.next, c2s, <<>>, recvd)
        BY <1>1, OrderDropped
      <3>2. InReadOrder(srv.next, c2s', <<>>, recvd)
        BY <1>1, <1>5, <3>1, OrderSaid
      <3> QED
        BY <2>1, <2>2, <2>4, <3>2 DEF UpstreamIntact
    <2> QED
      BY <1>5, <2>3, <2>4, UpstreamAlone
  <1> QED
    BY <1>2, <1>3, <1>4, <1>5

\* Every byte read from an open channel's socket is sent once and in order, waits
\* in the bufchain, or was thrown away in a key exchange, in whatever order reads,
\* retries, adjustments and key exchanges come.
THEOREM BytesInOrder == Spec => []UpstreamIntact
  <1>1. Init => Fresh /\ UpstreamIntact
    <2> SUFFICES ASSUME Init PROVE UpstreamIntact
      BY HandshakeInit DEF Handshake
    <2>1. 1..Len(<<>>) = {}
      OBVIOUS
    <2>2. DataIn(<<>>) = {}
      BY <2>1 DEF DataIn
    <2>3. InReadOrder(0, <<>>, <<>>, 0)
      BY <2>1, <2>2 DEF InReadOrder
    <2> QED
      BY <2>3 DEF Init, UpstreamIntact
  <1>2. TypeOK /\ Fresh /\ UpstreamIntact /\ [Next]_vars => (Fresh /\ UpstreamIntact)'
    BY FreshStep, UpstreamStep DEF TypeOK
  <1> QED
    BY TypeCorrect, <1>1, <1>2, PTL DEF Spec
=============================================================================
