# TLA+ models of Tera Term and TTSSH

Tera Term is a terminal emulator for Windows; TTSSH (`ttssh2/`) is its SSH plug-in.
The modules here model the parts of the program whose state is changed by
several parties (the message loop, the peer on a line, the user, another thread),
and are checked with TLC; some of them are also proved about with TLAPS (see Proofs).
Paths are relative to `src/`.

## The system

Almost everything runs in the window thread of one process: a window message
(a Winsock notification, a timer, a command of the user) or an idle call is
handled to its end before the next one. What makes the program hard is not
shared memory but *order*: two peers, Winsock, timers and the user put messages
into that thread in any order, and the handlers leave half-finished work behind
in tables, queues and flags. A few real threads exist (keep-alive, name lookup,
log writing, one per SCP transfer, the reader of the communication port).

| part | state | operations | hard behaviour | what makes it correct |
|---|---|---|---|---|
| SSH2 channels (`ttxssh/ssh.c`) | `channels[]`: windows, `bufchain`, `recv_suspended`, `state` | send, retry, adjust, open, confirm, EOF, close | two windows shared by several code paths; key exchange in the middle | never more than the window; order; nothing stalls; a CLOSE is answered |
| port forwarding (`ttxssh/fwd.c`) | `requests[]`, FWDChannels: socket, `status`, `writebuf` | accept, connect, read, write, close, free | Winsock notifications are edge triggered; peers close in any order; entries are reused | no lost notification; every number leads to its own channel |
| write buffer (`ttxssh/util.c`) | ring buffer of a forwarded socket | buffered write, write more | wrap-around, growth, flush at the limit | it is a FIFO |
| key exchange, authentication (`ssh.c`, `auth.c`, `hosts.c`) | `kex_status`, `packet_handlers[]`, keys, dialogs | one handler per message, the dialogs' buttons | dialogs are posted and shown later; handlers are replaced while messages are in flight | keys change in step; no handler before its phase; nothing of the user before the host is accepted |
| SCP (`ssh.c`) | `scp` record of a channel, its thread, its dialog, `ptrlist` | start, data, adjust, cancel, delete | a thread and the window thread wait for each other; either side ends first | a file is whole or it is not there; transfers end |
| telnet (`teraterm/telnet.c`) | `MyOpt[]`, `HisOpt[]` with queue bits; keep-alive thread | WILL, WONT, DO, DONT; enable, disable; start, stop | requests that cross, a thread stopped by the thread it talks to | both ends agree; negotiation ends; stopping ends |
| file transfer (`ttpfile/`, `filesys_proto.cpp`) | one record per protocol | parse, timeout, cancel | lost, damaged, repeated packets; two ends with timers | the files arrive, in order, or a failure is reported |
| screen (`buffer.c`, `vtterm.c`) | ring of lines, page, saved screen | scroll, insert, delete, resize, switch, reset | every function moves the ring's ends or works across them | the ring shows the text it should, whatever the order |
| cursor (`vtterm.c`, `buffer.c`) | cursor, `Wrap`, margins, region, `TabStops[]`, `SBuff1..3`, `Main*`, `Status*` | the control functions, resize, resets, menu | globals that every control function may move; half of them are swapped with the status line or the alternate screen | the cursor stays in the page; what was saved comes back; reports and CUP agree |
| terminal and macro link (`ttdde.c`, `ttmdde.c`, `ttmmain.cpp`, `ttl.cpp`, `ttcmn.c`) | two ring buffers, DDE conversation, `TTLStatus` | put, get, synchronise, commands that wait | two processes, transactions against posted messages, links that end | no byte lost; a command ends when the terminal is done with it |
| communication port (`commlib.c`, `vtwin.cpp`) | `TComVar`, timers, the reader thread and its event | open, start, read, close, reset | lookup and connect are answered by messages; the event has a name that the next connection finds again | what the host sends is read; an attempt to connect ends |
| log, background send, broadcast | queues, timers, a worker thread | write, flush, send, stop | | |
| macro language (`ttmbuff.c`, `ttl.cpp`, `ttmparse.cpp`) | control stack, counters, open files, labels, variables | one per command | nothing knows where a block ends; branches and loops are left in the middle | the lines are carried out in the order the text says |
| GUI, settings, keys, drawing, tools | | | sequential | not modelled |

Interactions: `fwd.c` calls `SSH_open_channel`, `SSH_channel_send`,
`SSH_channel_input_eof` in `ssh.c`, and `ssh.c` calls back `FWD_confirmed_open`,
`FWD_received_data`, `FWD_channel_input_eof`, `FWD_free_channel`; both go through
numbers (`local_num`, the channel number), which are reused. The socket writes
of `fwd.c` go through `util.c`. An SCP transfer is another consumer of the same
channels. Telnet, the file transfers, the log and the macro's copy of what the
host sends all hang on `commlib.c` / `ttcmn.c` from `OnIdle` of the window; the
text that is left goes through `vtterm.c` into the ring of lines. A transfer, the
background send and the connection report their end to the macro.
`PROJECT.json` lists every component, those left out with the reason, and under
`hazards` each place where order, loss or reuse can go wrong with the property that watches it.

## Modules

| module | models | role |
|---|---|---|
| `SshChannel` | one local-to-remote forward: application, Winsock, FWDChannel, Channel_t, both wires, server | core |
| `SshChannelProofs` | | theorems about `SshChannel` |
| `SshChannelTable` | the three tables and the reuse of their entries by several connections | core |
| `WriteQueue` | what `fwd.c` expects of the write buffer of a socket | abstract |
| `SockWriteBuf` | the ring buffer of `util.c`; implements `WriteQueue` | |
| `MCForwards` | `SockWriteBuf` and `SshChannelTable` as the two parts of a run, with the setups | |
| `ForwardsProofs` | | theorems about `SockWriteBuf` and `SshChannelTable` |
| `SshLogin` | key exchange, host key dialog, authentication, a later key exchange | |
| `SshLoginProofs` | | theorems about `SshLogin` |
| `Scp` | SCP uploads and downloads: window thread, transfer threads, dialogs, server | |
| `MCSession` | `SshLogin` and `Scp` as the two parts of a run, with the plans of transfers | |
| `CommPort`, `MCCommPort` | opening, reading and closing of TCP connections, serial ports and named pipes, with the reader threads; the kinds for TLC | |
| `Telnet` | option negotiation and the modes that follow it | |
| `TelnetProofs` | | theorems about `Telnet` |
| `TelnetKeepAlive` | the keep-alive thread and the window thread | |
| `FileTransfer` | what any protocol of `ttpfile/` promises | abstract |
| `Xmodem`, `Ymodem`, `Zmodem`, `Kermit`, `Quickvan` | sender and receiver of each protocol on a bad line | |
| `Transfers`, `MCTransfers` | `filesys_proto.cpp`: two ends with one of the five; implements `FileTransfer` | composition |
| `TerminalPage` | what text the screen and the scrolled lines hold | abstract |
| `ScreenBuffer` | the ring of lines and the functions that move whole lines; implements `TerminalPage` | |
| `ScreenBufferProofs` | | theorems about `ScreenBuffer` |
| `VtCursor`, `MCVtCursor` | cursor, pending wrap, margins, scroll region, tab stops, saved cursors, status line, sizes under all control functions that change them; four parts for TLC | |
| `VtCursorProofs` | | theorems about `VtCursor` |
| `MacroLink` | the terminal's DDE server and the macro program, with the port, the transfers and the background send as far as they concern it | composition |
| `MacroText` | in which order a macro's lines are to be carried out | abstract |
| `MacroControl` | the control commands of the macro language; implements `MacroText` | |
| `MacroProofs` | | theorems about `MacroLink` and `MacroControl` |
| `MCMacro` | `MacroLink` and `MacroControl` as the two parts of a run, with the macros | |

A definition whose name ends in a suffix (`Fits_AnyRoom`, `OnNak_First`, ...) is a
deliberately wrong variant of the one after it. No specification uses it; it
shows which mistake in the code a property would notice (`mutants` in
`PROJECT.json`).

### SshChannel

State: `posted`, `readArmed`, `writeArmed` are Winsock's side of
`WSAAsyncSelect` (an FD_READ is posted once and again only after `recv`; an
FD_WRITE only after a `send` that blocked). `status`, `sockOpen`, `writebuf` are
the FWDChannel; `used`, `confirmed`, the windows, `bufchain` and
`recv_suspended` the Channel_t. `c2s` and `s2c` are the connection, a reliable FIFO
since TCP and the packet layer make it one. The `srv` record is a conforming
server. `recvd`, `sent`, `discarded`, `granted`, `gotCredit` and `gotData` are
history counters.

| actions | code |
|---|---|
| `Accept` | `accept_local_connection`, `SSH_open_channel` |
| `OnFdRead`, `ReadSome`, `ReadStops`, `ReadFails` | `read_local_connection`, one `recv` per step |
| `SendChannelData` | `SSH_channel_send`, `SSH2_send_channel_data`, `ssh2_channel_add_bufchain` |
| `OnFdClose`, `ClosedLocalConnection` | `closed_local_connection`, `channel_error` |
| `OnFdWrite`, `RcvData`, `SockBufferedWrite` | `write_local_connection_buffer`, `FWD_received_data`, the contract of `UTIL_sock_buffered_write` with the new selection of `blocking_write` |
| `RcvConfirm`, `RcvFailure`, `RcvEof`, `RcvClose` | `handle_SSH2_open_confirm`, `..._open_failure`, `..._channel_eof`, `..._channel_close` and the `FWD_` function each calls |
| `RcvAdjust`, `RetrySend`, `RetryEnds` | `handle_SSH2_window_adjust`, `ssh2_channel_retry_send_bufchain`, one chunk per step, and the resumption of reading |
| `RcvKexinit`, `RcvNewkeys` | the edges of a key re-exchange, which sets `KEX_FLAG_REKEYING` |

Handlers that loop over system calls are split at the calls, because the application
can write or close between two of them; `pc` keeps every other client action
out meanwhile, as the single thread does. Bytes are numbered, never spelled.

### SshChannelTable

`requests`, `fwd`, `channels` are the tables; a slot names its FWDChannel by
`local_num`, and `Lookup` goes back by searching for the number *without looking at
`used`*, as `ssh2_local_channel_lookup` does: a zeroed slot answers for
FWDChannel 0. `wm` holds the messages posted to `accept_wnd`, as a set: their senders end in any
order, and `safe_closesocket` posts those it keeps again; `resolving` the
threads of `WSAAsyncGetAddrInfo`, which store their result before they post;
`connecting` the sockets whose `connect` runs. Actions: `AcceptLocalConnection`,
`SocksRequest`, `SocksRefused`, `ClosedLocalConnection`; `ServerOpens`
(`handle_SSH2_channel_open`, `FWD_open`, `create_local_channel`); `GotName`
(`found_to_host_addr`, `failed_to_host_addr`); `OnFdConnect`
(`connected_local_connection`, `channel_opening_error`); `ServerConfirms`,
`ServerFails`, `ServerCloses`; `SetRequestSpecs` (`FWD_set_request_specs`, with
`delete_request` and the choice of entries); `OtherOpens`, `OtherCloses` for SCP
and SFTP slots. An answer of the server and its packet are one step here: windows
and the wire are `SshChannel`'s subject. `Setups` are the lists of forwards a
behaviour may start with and those the user may set later.

### SockWriteBuf and WriteQueue

`ring` is the structure `UTILSockWriteBuf` with its memory as a function, so that
an index outside of it has no value. `Grown` is the growth in
`UTIL_sock_buffered_write` with its two moves, `Put` the copy behind the data,
`Drop` the moved start, `FirstBytes` what `send` is given in one or two parts,
`Buffered` the part of the function after the direct send: keep what fits, or
flush what does not with blocking sends and then whatever the socket takes.
Sends return any number of bytes; a failing one ends the behaviour, as
the caller closes the socket. Bytes are numbered in the order they are handed over.
`WriteQueue` keeps a sequence instead: how many bytes may go
(`MayGo`), in what order (`Sends`), and whether an FD_WRITE is due (`armed`).

### Telnet and TelnetKeepAlive

`SaidYes` and `SaidNo` are the tables of `ParseTelWill`/`ParseTelDo` and
`ParseTelWont`/`ParseTelDont`, `Enable` and `Disable` those of `TelEnable...` and
`TelDisable...`; `AfterHis`, `AfterMine`, `LineModeAfter`, `SizeAfterDo` are what the
handlers do next. `TelChangeEcho` stands for its callers (the shortcut, the host's
SRM, a macro), `ChangeTerminalSize` for `TelInformWinSize`. The server is
external and follows RFC 1143; it uses the same option tables in mirror image and may
accept, refuse or change its mind. `TelnetKeepAlive` has the steps of
`TelKeepAliveThread` one by one, and a window thread that is either in its loop
or inside `WaitForSingleObject`; `SendMessage` is a rendezvous with that loop.

### File transfers

`Transfers` is `filesys_proto.cpp`: both ends are started with the same protocol,
and `ProtoDlgParse`, `ProtoDlgTimeOut`, `ProtoDlgCancel` call the protocol's own
functions. Each protocol is a module with the same variables, instantiated as `X`, `Y`,
`Z`, `K` and `Q`: `snd` and `rcv` hold the fields of its `TXVar`, `TYVar`, ...,
`toReceiver` and `toSender` the line, which may lose, cut or damage what it
carries (`Fault`, bounded). Frames are records; a data frame carries the
number of its block in the batch and the receiver writes what it *carries*
(`Grown`), so a block out of place shows.

| module | what is a step | notable |
|---|---|---|
| `Xmodem` | `XSendPacket` looks at *all* bytes that have arrived before it sends: a step takes a prefix of the line | the resent packet keeps the check it was built with; what `XSendNAK` flushes is an arbitrary prefix |
| `Ymodem` | the same, with header blocks, EOT twice and the empty header | `wrapped` tells the packet number 0 of a start from that of a wrap |
| `Zmodem` | one header or subpacket; `SenderGoesOn` sends while nothing comes | the sender has no timer; `ZRPOS`, `ZSKIP`, `ZFIN` at both ends |
| `Kermit` | one packet | `off` is the difference between `PktNum` and the number on the line, which damage can change; each end's timer runs of its own |
| `Quickvan` | all answers that wait, then what the window lets go | numbers of answers have seven bits; `PktIn[1]`, the type byte, is `NakByte` |

`Transfer == INSTANCE FileTransfer` maps the receiver's written blocks and the two
results; `ImplementsTransfer` says every step is one of `FileTransfer` or a stutter.

### SshLogin

`c` is the client: the packet types that have a handler (`enabled`), `kex`, the
keys of each direction, the two dialogs, the user's method, what of the login is
done. `Handle` is the table of handlers; a packet whose type has none ends the
connection, as in `handle_unimplemented` and `SSH_handle_packet2` before the login is
over. Dialogs are posted by a handler and shown by a later message
(`ShowHostDialog`, `ShowAuthDialog`), so packets are handled before and while they are open; their
buttons are `HostContinue`, `HostCancel`, `AuthOK`, `AskList`, `TISOK`, `AuthCancel`.
`joined` packets came in one segment and are handled in one go. The server keeps
to the protocol and may refuse, ask again, sign badly, close, interleave
`SSH2_MSG_IGNORE`, or start another key exchange after the login.

### Scp

`chan`, `thr` and `disk` are a transfer's channel, thread and file. The threads are
modelled step by step because `ssh2_channel_delete` waits for them in the window
thread (`DeleteBegins`, `DeleteEnds`), and their `SendMessage` to the dialog needs that thread
back (`Returns`). `closed` is the static variable all dialogs share. `ClientTakes` is
one packet of the server: `SSH2_scp_response`, `SSH2_scp_toremote` and `..._fromremote`
for DATA, the window's adjustment with `ssh2_channel_retry_send_bufchain`, EXIT, EOF and CLOSE.
`Cancel`, `CloseTCP` and `ServerCloses` may come at any moment. The server is
scp's sink and source as OpenSSH's, external.

### ScreenBuffer and TerminalPage

`buf` is the ring (`rows`, `n`, `start`, `end`, `endAbs`), the page's place in it
(`page`, `lines`), `ptr` (LinePtr), the cursor's line, the margins and the saved screen. The
operators carry the names of `buffer.c` (`BuffScroll`, `ChangeBuffer`,
`BuffChangeTerminalSize`, `BuffSaveScreen`, ...), the actions those of the control functions in
`vtterm.c` that call them. Each action ends where the handler does; `MoveCursor` is inside.
A line is two numbers: what is written in the columns between left and right
margin, and outside. `TerminalPage` has two sequences instead: the lines of the page and
those that left it. `Text == INSTANCE TerminalPage` reads them out of the ring (`Page`, `History`).

### VtCursor

`vt` is the record of what `vtterm.c` and `buffer.c` keep in global variables: `CursorX/Y`,
`Wrap`, the region (`CursorTop`, `CursorBottom`) and margins, `TabStops`, the modes of
DECAWM, DECOM, IRM, LNM, DECLRMM and DECSET 8200 (`mode`), the three `SBuff` slots (`saved`), the alternate screen's flag
and what the status line and the main screen keep for each other (`line`: `StatusX`, `StatusWrap`; `main`: `MainX`, ..., `MainBottom`).
`ts` are three settings of the user. An operation is an operator from terminal to
terminal with the name of its C function, so that functions made of others are compositions
(`HardwareReset(t) == ClearBuffer(ResetTerminal(HideStatusLine(t)))`), and every action is
`Becomes` of one. `entered` is a history: the saved cursor with which DECSET 1049 left the main
screen. `PutHalf`, `PutWide` and `PutKanji` are the cursor's side of `PutU32`, `RepeatChar` and `PutKanji`; the
cells themselves are not modelled. `lines` counts the status line as `NumOfLines` does; `isCursorOnStatusLine`
is the code's comparison, not a flag.

`Strays` and `KeepsWrap` are the actions after which the cursor can be outside of the page,
or a pending wrap away from the end of its line: what the code does, named one by one, and
excluded from `StaysInPage` and `WrapGoesWithCursor`. Everything else is not.

### CommPort

`cv` is `TComVar` with the number of its connection, `at` tells where the window's thread is (in its loop, in a lookup,
starting a port, in a blocking `ReadFile`), `wm` its posted messages and `timers` those that run; `Connecting` and `TCPIPClosed` are the
globals of `vtwin.cpp`. `dev` is the socket, driver or pipe: how much waits there, whether it will tell of it (`told`: a posted FD_READ
until the next `recv`, a serial event until `WaitCommEvent` takes it), whether it is dialling or broken. `threads` are the reader
threads of all connections, `event` is `ReadEnd` of each port, `other` the thread of another Tera Term with a pipe.

| actions | code |
|---|---|
| `NewConnection`, `CommOpen`, `GotHost` | `OnFileNewConnection`, `CommOpen` up to the lookup, and what follows it |
| `OnCommOpen` (`NextAddress`, `ConnectFails`, `Connected`, `CreatesThread`), `Started` | `OnCommOpen`, `CommStart` |
| `FdRead`, `OnIdle`, `ReadEnds` | `CommProcRRQ`, `CommReceive` of each kind of port |
| `FdClose`, `ComEnd`, `CancelConnect` | `OnCommNotify`, the timers with `CommCanClose` and `CommClose` |
| `Disconnect`, `OnSetupSerialPort`, `CommResetSerial` | the user's commands |
| `Begins`, `CallsWait`, `CommEvent`, `Peeks`, `PeekFailed`, `Checks`, `PostsRead`, `Wakes` | `SerialThread`, `NamedPipeThread` |
| `LookupEnds`, `ConnectAnswers`, `HostSends`, `HostCloses`, `OtherThread` | the lookup's thread, Winsock, the host, the other window |

The name of `ReadEnd` is made of the port's number, so a thread of a closed connection still waits for the event that the next connection to the port
sets; a pipe's number is always 0, so it is shared by every window with a pipe. Left out: `OpenSocket` always succeeds, `CommResetSerial`
is one step that clears the port, a new connection is made only when the port is closed (the user is slower than the
ComEnd timer), a behaviour uses one kind of port. `CommSend`, files as ports and USB arrival and removal are not modelled.

### MacroLink

`tt` is the terminal: the socket with what has arrived and the one outstanding
read request (`rrq`), `cv.InBuff`, `cv_LogBuf`, the DDE conversation with its advise loop, `sync`,
`free` (the space the macro told), `cmnd` (`DdeCmnd`), and whether a transfer or the
background send runs. `mac` is the macro program: `TTLStatus`, its ring, `sync`, `sent`,
timer and main loop. `mq` is the macro's message queue. `OnIdle` of the terminal
passes bytes from one buffer to the next and advises; a DDE transaction of the macro is a step
of both programs, as `DdeClientTransaction` is synchronous and refused while the terminal
is busy. `Executed` has one case per kind of command.

### MacroControl and MacroText

`ctl` is what `ttmbuff.c` and `ExecCmnd` keep: the open files with the place in each (`files`, `ptr`:
`INest`, `BuffPtr[]`), the control stack (`PtrStack`, `TypeStack`, `LevelStack`), `NextFlag`, and the counters
`IfNest`, `ElseFlag`, `EndIfFlag`, `EndWhileFlag`, `BreakFlag` and `ContinueFlag`. A macro's line is a sequence of words.
`ExecControl` is one line: `GetNewLine`, then `ExecCmnd` with the skipping branches in the code's order, then the command. A condition is open
(`holds`, `taken`), and so is the user's answer when a command fails (`DispErr`). "while" stands for `until` and
"endwhile" for `enduntil` too.

`MacroText` says the same of the text: a line's successors are found by the ends of its block (`Closer`, `Opener`,
`Branch`, `EndIf`, `Loop`), `call` and `include` add a place to come back to, and there is nothing to count or to skip. `ran` is a history:
the line carried out last and where its calls and files come back to. `ImplementsText` says that every line that is carried out follows in the text from the
one before, that lines which are skipped change nothing, and that no command fails.
It is stated for macros whose blocks are nested (`Nested`): for the others the manual promises nothing, and `StackOwned` is all that is claimed.

## Runs

| run | question | properties |
|---|---|---|
| `ssh_channel` | both directions at once: windows, list, suspension, a key exchange at any point, EOF and CLOSE of either end | `TypeOK`, `WindowRespected`, `UpstreamIntact`, `ServerNeverRejected`, `NoLostWrite`, `EndsInOrder`, `BufchainDrains`, `UpstreamRead`, `CloseAnswered` |
| `forwards` | two parts: the ring wrapped, grown while wrapped, flushed across its end; and connections over local, remote and dynamic forwards that come and go while the forwards are edited, names are looked up and SCP slots taken | `TypeOK`, `InOrder`, `ImplementsQueue`, `EntriesLinked`, `AnsweredOnce` |
| `ssh_session` | two parts: from the first KEXINIT to SUCCESS with every method, dialogs at any moment, a server with liberties; and an upload and a download, each alone and together, with every end | `KeysAgree`, `NothingUnexpected`, `NothingBeforeHostOK`, `RequestsInTurn`, `MCLoginEnds`, `FilesWhole`, `Ends` |
| `ssh_rekey` (violation) | a key exchange the server asks for after the login | `RekeyEnds` |
| `port` | connections of each kind opened, refused, read, reset, changed and closed, with threads and events of the one before left over | `HostRead`, `ConnectEnds` |
| `port_timeout` (violation) | an attempt to connect with a time limit | `LimitEndsConnect` |
| `telnet` | negotiation with crossing requests | `EndsAgree`, `NegotiationEnds` |
| `telnet_keepalive` (violation) | stopping the keep-alive | `StopReturns` |
| `transfers` | five protocols on a line that spoils what it carries | `ImplementsTransfer`, `Ends`, `Repaired` |
| `screen_lines` | every order of output, scrolling, margins, screen switches, resizing and resets | `RingWhole`, `OnlySetupMisleads`, `ImplementsPage` |
| `vt_cursor` | control functions, sizes and user commands in any order, in four parts: margins, status line, saved cursors, tab stops | `StaysInPage`, `WrapGoesWithCursor`, `ReportRoundTrip`, `MainCursorReturns`, `TabFindsNearest` |
| `macro` | two parts: host data, disconnection, timers, transfers and link ends against the macro's commands; and the order in which a macro's lines are carried out | `NothingLost`, `CommandEnds`, `StackOwned`, `ImplementsText` |

`EntriesLinked` speaks of behaviours with local forwards only
(`OnlyLocalForwards`): with an SCP channel or a dynamic forward below a live channel
it does not hold, see below. Its second part ends with the first OPEN of the server that is
denied (`NoneDenied`): `handle_SSH2_channel_open` takes a slot for it all the same (`ssh.c:8878`) and nothing frees
it, so from then on the slots are a place ahead of the FWDChannels, and the freed slot below answers for FWDChannel 0.
With three slots this cannot be seen, as the leaked one leaves no room; the proof for any number showed it.

### Bounds and why they are enough

* `SshChannel`: reads of up to 2 bytes against windows of 2 or 3 and 5 bytes in
  all: a read can be smaller than, equal to and larger than the window, chunks
  of both sizes can wait together, and the window is crossed several times.
  `HighWater = 2` suspends at the first full chunk, `LowWater = 0` resumes when
  the list is empty; in the code the two are 1 MiB and 0.
  `BothWays = 1` lets the application write one byte more once the server has written: each
  direction is explored alone to its bound, and both together with a byte of the other one.
  `AppBytes` is shared with the key exchanges (each takes one byte of it), which keeps
  the number of interleavings down without fixing where the exchange falls.
  Downstream, `WriteBufferSize = 2` with packets of up to 3 takes all three branches
  of the buffered write.
* `SshChannelTable`: two FWDChannels, three slots (one the shell's) and three
  connections: every entry can be freed and used again while another one lives,
  a table can be full, and a number can mean two different connections.
  Two request entries and three specifications allow a forward to be kept, replaced
  and moved. The behaviours begin with local forwards that are edited, or with
  a remote and a dynamic one that stay.
* `SockWriteBuf`: `WriteBufferSize = 5` and writes of up to 7 bytes: the memory
  grows in one or two steps, while the data is wrapped too, with more or less new room
  than the wrapped part needs; a write can exceed the room, the data that waits, and the
  whole buffer. Twelve bytes go round the ring more than twice. The proofs need no bound.
* `SshLogin`: two refusals let a user change the method once and fail twice; two exchanges
  are the first and one more; one key in the agent, since the code steps through them one at a
  time; no or one prompt, which are the two forms of the request.
* `Scp`: each transfer alone with an empty file and with four chunks against windows of two,
  so that both windows run out, twice; both together with one chunk and an empty file, where
  what they share (`closed`, `sending`, the window thread) matters and the windows do not.
* `Telnet`: options are independent but for what hangs on them, so the run follows
  those with consequences (NAWS, BINARY, ECHO) and one this side refuses (OTHER).
  Two changes by this side and two by the server fill a queue bit and clear it
  again on both ends while requests cross.
* `Transfers`: files of three blocks and of one, so a batch has a file whose numbers wrap
  and a second file. `NumMod = 3` (XMODEM, YMODEM) makes the packet number wrap within four packets;
  it is harder than 256, since a packet two ahead or one behind are neighbours. Kermit's
  numbers are modulo 4. Quick-VAN runs with windows of 2 and 4 (it acknowledges every and every
  second packet) and numbers modulo 16, which keep the window unambiguous as 128 and the default of 8
  do. The line spoils up to four things in XMODEM and Kermit, three in YMODEM, two in Quick-VAN and one
  in ZMODEM, where two leave a stale `ZRPOS` (below). Retry limits are the code's; `Patience` says how
  many timeouts of the receiver fit into one of the sender.
* `ScreenBuffer`: pages of two and three lines in rings of three and four: the ring wraps on
  the first scrolls, and a ring as large as the page is included. One text
  is enough: the functions move or blank whole lines and never look at them, so what
  happens to one line's text happens to any.
* `VtCursor`: pages of 4 x 3 and 3 x 2 with tabs every second column and parameters 0 (left out) to 3:
  each margin can be at the edge or not, with a column on either side, each parameter can be left out, inside and beyond
  the page, and a resize cuts and widens. `MCVtCursor` lets a run use one of four groups of control functions
  (their products would multiply, and what they share is proved for all of them); each group has the functions that read
  what the others in it write. A behaviour ends when the cursor has left its page (`Strays`), since nothing is
  claimed of it from there on. The proofs need no bound and know no groups.
* `MacroLink`: three bytes pass rings of two, so each buffer can be full, and the macro's be
  overwritten, with a byte still to come. Two commands of one macro: any command meets what any other one left.
  The run has one macro; the proofs have any number. Two macros with two commands each were checked without the second part of the run
  when the invariant was found. What the proof excuses between two macros is below (`Stranded`).
* `MacroControl`: all nested macros of up to six lines of loops and branches, with `break` and `continue` on
  any line in a loop: a loop or branch can be before, around, inside and behind another one that is left or skipped. All of up to three
  lines with `call`, `include` and `goto`, before a subroutine and with a file that themselves leave branches and loops. And every order of three
  lines out of nine, with five included files, for what no nesting holds. `MaxSP = 4` and `MaxNest = 2` stand for 10 and 10: a loop in a subroutine in a
  loop fits, and both limits are met. `MaxIfNest = 3` bounds what `return`, `exit` and `goto` leave in `IfNest`.
* `CommPort`: two connections and two bytes from the host: everything a first connection can leave behind (a thread at any place, a set event,
  a message, a timer) meets a second one. `InMax = 2` fills `InBuff`. Two addresses of a host, so an attempt can fail, go on and succeed; two serial ports,
  so one can be changed for another; one reset.
* `TelnetKeepAlive`: two connections and two changes of the setting.

`CHECK_DEADLOCK FALSE` is set throughout: each system may come to rest (everything
closed, negotiated or transferred), and the bounds end the environment's part.

### Fairness

* `SshChannel`: the message loop runs and handles each kind of notification and each
  packet that waits (`Client`, `ClientReceives`, `OnFd...`); the application's
  socket becomes writable again; the network delivers and the server answers,
  consumes and tops its window up. Nobody is obliged to write, close or
  re-exchange keys. That an exchange ends is part of the model here, as the protocol
  intends; `ssh_rekey` shows that the client's code does not let it.
* `SshLogin`: packets are handled, posted dialogs are shown, the server answers, and the user
  does something about an open dialog (else no login ends).
* `Scp`: the window thread runs, each transfer's thread runs when nothing it waits for is
  missing, and the server serves each transfer. No fairness of the user, the loss of
  the connection or the server's closing.
* `Telnet`: `OnIdle` calls `ParseTel` as long as there is input; the network delivers.
* `Transfers`: `OnIdle` calls the parser while the dialog is open, the timers fire,
  and the line delivers what it does not spoil. Kermit's two timers have strong fairness:
  each is started again by what arrives, and comes in the end when that stops. The number of
  faults is bounded, so no fairness of the line is needed beyond that.
* `MacroLink`: both message loops run, the terminal's `OnIdle` too, and a transfer or
  background send ends. Nobody is obliged to send, to close or to cancel.
* `CommPort`: the window's thread goes on, every reader thread runs, and a lookup or a connect is answered. The user and the host owe nothing.
* `SockWriteBuf`, `SshChannelTable`, `ScreenBuffer`, `VtCursor`: safety only, no fairness.
* `TelnetKeepAlive`: both threads run, a wait whose object is signalled ends, and a
  window in its loop handles what was sent to it.

## Proofs

`SshChannelProofs` proves, for every value of the constants allowed by
`SizeAssumption` (naturals, with a read buffer of at least one byte):

* `TypeCorrect`: `Spec => []TypeOK`. Not only types: window and byte counters never
  become negative and `local_window` never exceeds its maximum, which needs the
  guards of the send paths. It is split into the groups of `TypeOK`, a lemma per
  group, since an action disturbs one or two groups only.
* `NeverOverruns`: `Spec => []WindowRespected`, the client never sends more than the
  server granted. `sent <= srv.granted` is not inductive: the window in
  `remote_window` came from messages that may still have been on the wire. The
  strengthening has two parts. `WindowBalance`: `remote_window + sent <= gotCredit`, what
  is left and what was used come out of what arrived. `GrantsInOrder`: every message of the
  server carries a credit of at least what has arrived plus its own grant and at
  most `srv.granted`, and a later message carries at least an earlier
  one's credit plus its own grant. Receiving the head of the wire then keeps
  `gotCredit <= srv.granted`. The order is stated for pairs of positions, so no sum
  over the queue, and no induction, is needed.

* `NeverRejects`: `Spec => []ServerNeverRejected`. The handler of DATA looks for the channel and at `local_window`, so the proof is that the two
  ends agree: `Handshake`. About the channel's life (`AskedStep`, `Answered`): there is one request; the server speaks of the channel after it; in
  its messages CONFIRM is first and nothing follows FAILURE or CLOSE; while the server has it open, the client has it confirmed or CONFIRM is on the wire.
  About the window (`CreditKept`, `DataKept`, `WindowKept`): what was granted is at the server or in an ADJUST on the wire, what the server sent is
  here or on the wire, and `local_window` is the rest. The sums over a queue are running totals that each message
  carries (a history of the server's and the client's messages), so a sum is a relation of neighbours (`Follows`) and needs no induction.
* `WriteAnnounced`: `Spec => []NoLostWrite`. Inductive with `LinkUp`: the flags which `write_local_connection_buffer` tests are set while there is data to write.
* `EndsAreOrdered`: `Spec => []EndsInOrder`. Two halves. `Closing`: a client that sent CLOSE has closed the socket and says nothing more of the channel, and CLOSE is the
  last but for answers to key exchanges in the queue. And `Drained`, `AllIn`, `AllOut`: what came in is at the application or in the buffer, the EOF of the server
  comes behind all its data, so a socket is shut with all of it.
* `BytesInOrder`: `Spec => []UpstreamIntact`. Each byte has its number: those the server got, those in DATA on the wire, in the bufchain, and those thrown away in a key
  exchange come in the order they were read (`InReadOrder`), and as many as were read. Inductive with `Fresh`: before the request nothing of this exists.

`SshLoginProofs` proves, for every set of methods, prompts and liberties of the server, every number of keys, refusals and exchanges (`SettingAssumption`
says only that the setting is a Boolean), about the start of a connection:

* `KeysAlwaysAgree`: `Spec => []KeysAgree`. What is read next is written with the reader's keys. The two sides change them at different times, so the
  statement must hold of every packet on its way, and the change must be seen in the queue: `Reading` and `Writing` say that each packet has the reader's keys, or
  the next ones if a NEWKEYS is before it (`Keyed`), and that the writer is ahead by one exactly while a NEWKEYS is on its way.
* `NothingGoesBeforeHostOK`: `Spec => []NothingBeforeHostOK`. What the user sends is sent by a handler of a packet or a button. Each is enabled only after the
  exchange, which is what `Standing` says of the flags `kex_status`, `hostOK`, `nameOK` and of the dialog.
* `RequestsTakeTurns`: `Spec => []RequestsInTurn`. `Turns`: at most one question of the client is on its way, nothing but packets that are always handled
  comes towards it then, and which packet may follow which in what the server sends (`MayFollow`). A dialog that is open means that no question is (`InAuth`), but for the
  list of methods, which is asked for with the dialog open (`Listing`).
* `NothingIsUnexpected`: `Spec => []NothingUnexpected`, if the server does not ask for a new password. For each packet on its way there is a handler when its turn comes: `KexTold` and
  `UserTold` say which ones are enabled. That this holds across packets in front of it which change the enabled set is why `MayFollow` is needed. The
  hypothesis is needed: after a request with a password the code does not enable packet 60 (`ssh.c:6205`, `ssh.c:6279`), and a server that asks for a new
  password is left (see below). That leaving is the only way to `why = "unexpected"` is a second small invariant, `Calm`.
* `InvariantHolds`: `Spec => []IInv`, the conjunction of `TypeOK` and the five parts of which the four follow:
  `Turns`, `Exchanging` (where the key exchange stands, by what is on its way), `Reading`, `Writing`, `LoggingIn` (the same for the
  authentication). No part is inductive alone: who may speak depends on the phase, the phase on the packets, and the packets on who spoke.

The proof has one lemma for each packet the client handles, each answer of the user and each step of the server; the lemmas before them say what an operation of the
client does to the flags (`AuthRequestDoes`, `UserauthDoes`, ...) and what a queue with a packet more or less means for each part of the invariant.

`TelnetProofs` proves, for every set of options (`TelnetAssumption`: NAWS and ECHO, which the code names, among them), all sizes and any number
of changes of mind on both sides:

* `AgreementHolds`: `Spec => []EndsAgree`. `EndsAgree` speaks of a quiet line only, so the invariant has to say what holds while commands cross. Each option is a
  protocol of its own between two ends with the same tables, so `Deal` says it once and is used four times, for this side's options and the server's, seen from
  either end: of one option a queue carries nothing, one command, or two that differ (`Carries`), and what the two queues carry fits what both ends have (`Agree`).
  `Half` lists the cases in which it is the first end that waits; the others are the same with the ends changed, so a command heard by the server and one
  heard by this side are the same lemma. `Tidy` is why no wish outlives its request: the row of the tables for an option that is on with a wish
  queued is never reached. `Sized` says that the last size on its way, or the one the server has, is `tr.WinSize`; `Modes` that the flags follow their options, and the local echo what will be
  when requests and wishes are granted (`Wish`).
* `InvariantHolds`: `Spec => []IInv`. What the lemmas need of the mixed queues is that a command about one option changes nothing for another (`CarriesOther`, `FamilyOther`). The
  list of requests at the opening is followed one by one (`OpenedMore`), for the commands to be there once each.

`ForwardsProofs` proves about the ring buffer, for every value of the constants allowed by
`BufferAssumption` (a buffer of at least one byte):

* `TypeCorrect`: `Spec => []TypeOK`, the positions stay inside the memory and the memory
  inside the setting.
* `OrderCorrect`: `Spec => []InOrder`, the socket gets the bytes in order, none lost or repeated.
* `Implements`: `Spec => ImplementsQueue`, the step-by-step refinement of `WriteQueue`.

The invariant `Inv` says that the ring *holds* the bytes after those the socket has:
the i-th byte of its data, wherever that is, is the i-th after them. Each
operation has a lemma about any ring that holds consecutive bytes: `Dropping`, `Growing`
(over `Moves`, the three cases of the two copies), `Putting` (over `DataElsewhere` and
`BytesThere`: the copy hits no data and misses no byte) and `Flushing`; `Buffering` and
`Writing` chain them through one call. Runs of consecutive bytes are
equal when they start and end alike (`RunsEqual`), which turns the invariant into the
refinement without induction.

and about the tables, for any number of slots, FWDChannels, requests, connections and edits, and any lists of forwards
(`TableAssumption`: the numbers of slots and of FWDChannels are positive, and the table of requests is finite):

* `ConnectionsAnswered`: `TableSpec => []AnsweredOnce`. The property is about one FWDChannel, but its lookup belongs to its request, which other connections use,
  and whose count decides when it is cancelled. So `TableInv` first says that each request counts exactly the FWDChannels that are for it (`Tabled`, over
  `Users` and its cardinality, with `Taken` and `GivenBack` for every change). `Entered`: an entry is free or somebody's, no two are one connection's, none is of a connection that was
  refused, and who waits for a name has a request with a lookup (`Waits`). `Looked`: a lookup that is set belongs to one request and is in a thread or in a message. `Served` and
  `Peered`: what the server knows of a connection, and that the slot it answers to is that connection's; without it an answer could refuse another one a second time.
* `ForwardsLinked`: `TableSpec => []EntriesLinked`. With local forwards alone `LocalInv` adds `Owned`, a slot in use and its FWDChannel are of one connection which the server
  has been asked for under that slot; and `Paired`, slot n + 1 goes with FWDChannel n. The latter is why a search by a number which free slots have too finds the right one: both tables give
  their first free entry (`InStep`), and they are in step until an OPEN of the server is denied.

`MacroProofs` proves about `MacroControl`, for all macros, nested or not, with any number of files and lines, any answers of the conditions and of the user,
and all limits (`MacroAssumption`: a macro has its main file and the files that it includes):

* `StackKept`: `ControlSpec => []StackOwned`. A level of the stack is a number, and the file at that level may be closed and another be opened there. That what closes a file takes
  its entries along depends on the stack being sorted by level (`InOrder`), since `CloseBuff` looks at the top alone; and that a level is reached
  at all by a line that is jumped to depends on all places being in their files (`Placed`, `ComesBack`).
* `ControlCorrect`: `ControlSpec => []ControlInv`, which adds that a line is skipped for one reason at a time (`OneReason`): the four counters are never positive together in a way that
  `ExecCmnd`, which asks for them in a fixed order, would take for something else; and a branch that is looked for is one of an open "if".

It proves about `MacroLink`, for all sizes of the buffers, any margin of the log, a reserve of at least one byte (`LinkAssumption`; the code has 10), any commands,
sets of events and number of macros:

* `HostHeard`: `Spec => []NothingLost`. That everything is there and in its order (`Kept`) is one half, over the ring of the macro, the messages and the three
  buffers of the terminal: a step moves bytes between neighbours (`Joined`, `Takes`, `Hands`) or says that they are gone (`Thins`). The hard half is why nothing is overwritten in the
  ring. `Roomy`: with a synchronous macro there is at most one advise on its way and it fits beside what is in the ring; while the terminal may send one (`recv`)
  none is on its way, and what it may send fits. `free` was told when the ring was emptier or as full as it is, and a full ring was told 1, of which the
  reserve leaves nothing. `Talking` is what both sides know of the conversation in the middle of its start and end: without it a macro could be synchronous with a
  terminal that is not. `Reading` and `Fetched` are why a connection that closes has been read to its end.
* `LinkInvariant`: `Spec => []Inv`, the conjunction of these.

A macro that ends with text in the log leaves the terminal with a request and nothing to parse. If the connection closes before the next `OnIdle`, `CommCanClose` does
not see that there is more, and the bytes are lost for the next macro, which may have started in between. The proof found this: `Fetched` is inductive only if these
bytes are excused, and they alone are (`Stranded`).

`ScreenBufferProofs` proves, for all heights, ring sizes, counts and lengths of the run:

* `RingCorrect`: `Spec => []RingWhole`, the absolute end of the ring is where the start and the
  number of lines say. Inductive only with the ring's shape (`RingInv`: the ring has at least the
  page's lines, the page ends where the lines do, start and end are inside). It assumes
  `ClearOnResize`, the default: without it resizing breaks the equation (below).
* `WritesWhereCursorIs`: `Spec => OnlySetupMisleads`, LinePtr stays at the cursor's line. Every function that moves the page or
  the cursor ends with NewLine (`LookedUp`), the others leave alone what the address is made of (`SamePlace`); `Leads(b, c)` is
  transitive, so a function made of others follows from theirs. No assumption on `ClearOnResize`.
* `PageImplemented`: `Spec => ImplementsPage`, every step is a step of `TerminalPage` or none, but for text written while LinePtr is
  elsewhere. The lines are numbered from the oldest on (`At(b, v)`), so that a scroll continues the numbers and an address is
  a number plus the start, less the ring's size once or twice (`AddressIs`); two numbers less than a ring apart have two addresses (`OneLine`). `After(b, k, m, v)` says what
  the v-th line is after a scroll by k that keeps m lines below the region, and `ScrollIs` that BuffScroll leaves the last of these there is room for; the loop that takes
  the lines below along is followed by the least number of turns after which it would be wrong (`Climbs`, `AllMoved`). The sequences of `TerminalPage` are compared with
  this position by position (`Joins`, `SubSeqIs`, `NewestIs`), and one lemma per group of actions concludes (`LinesFit`, `AlternateFits`, ...). The invariant is
  `Whole`: the ring's, where its lines end, and that a page is kept while the other screen is shown. Two hypotheses: `ClearOnResize`, and
  `InReach`, that a parameter and the lines below the smallest region fit into the ring. A larger scroll overwrites
  lines it has yet to move (`buffer.c:672`, below), so the theorem is false without it; it holds in `screen_lines`, and with
  the 10000 lines of `TERATERM.INI` for any page and parameter that add up to less; a ring without room above the page meets it with parameters up to 2.

`VtCursorProofs` proves, for all sizes of at least two columns, all parameters and tab widths
(`CursorAssumption`) and every order of the actions, the four groups of `MCVtCursor` mixed:

* `TypeCorrect`: `Spec => []Typed(vt)`: numbers never become negative, which MoveCursor's callers have to see to.
* `PageKept`: `Spec => StaysInPage`, `WrapKept`: `Spec => WrapGoesWithCursor`. What an
  operation promises is one operator on two terminals, `Keeps(t, u)`: if `t` is in its page so is `u`, a pending wrap stays at
  the end of its line, and the main screen's saved cursor is untouched while the alternate screen is shown. `Keeps` is transitive, so
  the operations made of others follow from theirs; those that end in MoveCursor need only that the place is allowed
  (`Lands`, `ThenMoves`). The operations that may stray keep the page off the status line (`KeepsOnPage`);
  those that move the end of the line promise all but the wrap (`Holds`). One lemma per operation, and one per group of actions.
* `Reported`: `Spec => []ReportRoundTrip`, from the types alone.
* `MainReturns`: `Spec => MainCursorReturns`. The invariant `MainKnown` says that the history is the main screen's slot
  as long as the alternate screen is shown; a slot belongs to one screen, which is what the proof needs of SaveCursor,
  RestoreCursor and SoftReset.
* `NearestFound`: `Spec => []TabFindsNearest`. The invariant is that the stops stand in strictly rising order; `StoresStay`
  carries it along with the types, and only setting and clearing a stop could break it (`StopsRise`). The code counts
  the stops up to a column where the property asks for the nearest one: in a rising sequence the number of stops below a column
  is the place where the search ends (`PrecedingIs`), which `TabAhead` and `TabBehind` turn into the two directions.

Model-checked only: all liveness (`BufchainDrains`, `UpstreamRead`, `CloseAnswered`,
`NegotiationEnds`, `Ends` of transfers and SCP, `Repaired`, `MCLoginEnds`, `HostRead`, `ConnectEnds`, `CommandEnds`), which is out of this
prover's reach; `FilesWhole` of SCP; and the refinements by `Transfers` and `MacroControl`, which need an induction over the text or over five protocols' queues.
Every other property of a passing run is a theorem.

## What the violations show

* `telnet.c:946`: turning the keep-alive off, or closing, can wait for ever for a thread that waits for the waiter.
* `ssh.c:2998`: after a key exchange the server asks for, the client waits for a NEWKEYS
  of the server before it sends its own, and leaves the exchange only when it has sent it;
  the exchange never ends, and what is sent meanwhile is dropped.
* `vtwin.cpp:2622`: the time limit of an attempt to connect closes the socket, which then tells nothing more, and the message that would end the
  attempt is commented out: the window goes on connecting for ever, and refuses another connection.

`PROJECT.json` quotes the line each of them disagrees with.

## Known disagreements without a run

Definitions marked "The code does not keep this" state the following; TLC finds a
counterexample when one is added to the module's run.

* `ssh.c:289` against `ssh.c:3564`: a chunk exactly as large as the window is never retried
  (`BufchainDrains` with `ServerWindow = 2`).
* `fwd.c:277`: CLOSE after EOF throws away what the application has not taken yet (`EofDataDelivered`).
* `fwd.c:720`: a dynamic connection is read before it has a channel, and the lookup's result
  is used unchecked (`ReadFindsSlot`).
* `fwd.c:452`: a failed connect leaves its slot behind, and the next connection's success is
  reported for it (`ConfirmNamesOwn`).
* `ssh.c:8878`: an OPEN of the server that is denied leaves its slot behind as well, and the lookup from FWDChannel 0 finds a free slot
  (`EntriesLinked` without `NoneDenied`, with four slots, four connections and one local forward).
* `kermit.c:1436`: a damaged packet number makes the receiver acknowledge a block it has not
  written; both ends report success (`SuccessIsWhole` with `HeaderDamage`; `kmtrecv.html:28` says otherwise).
* `ttmmain.cpp:585`: the timer of a `waitevent` that an event ended stays and ends a later `pause` early (`Pauses`).
* `ssh.c:9022`: the server's CLOSE is not answered for an SCP channel, against the comment in `ssh.c:9013`
  (`CloseAnswered` of `Scp`).
* `ssh.c:8266`: a download whose connection is lost, or whose channel the server closes early, hangs the
  window thread: it waits for a receiving thread that waits for data (`NeverHangs` of `Scp`; `Ends` excludes it).
* `commlib.c:974`: a pipe's `ReadFile` is called "so that it does not block", but the event that lets it is shared with every other window that has a
  pipe (`ReadEnd0`): a thread that another window woke sees bytes its own window is about to read, and its FD_READ finds none left (`PipeNeverBlocks` of `CommPort` with `other`).
* `xmodem.c:604`: after a NAK to the first packet the kind of check changes and the packet is sent
  again without being rebuilt, against the comment in `xmodem.c:509`. `Repaired` excludes faults before the first ACK.

Met while modelling and left outside of the models' reach, or excluded by a bound:

* SCP: a status that follows the last chunk of a download is not read (`ssh.c:8294`), so a file the
  server could not read to its end is kept; `fwrite` errors are ignored (`ssh.c:8314`); dropped
  files may overlap since any transfer's end resets `g_scp_sending`; the buffer of a window below 4096 (`ssh.c:8098`).
* Login: a request with two prompts cycles (`ssh.c:7080`); PASSWD_CHANGEREQ ends the connection
  with CheckAuthListFirst (`ssh.c:6205`); an agent that refuses leaves the login hanging (`ssh.c:7114`).
* Port: a reader thread that runs before `CommStart` has set `cv.Ready` ends and no other is started, so nothing is read (`HasReader` excludes it); the late
  FD_CLOSE of a pipe's thread closes the connection after it; `OnSetupSerialPort` can open another port while the ComEnd timer runs, which then closes it; when
  the retry loop finds no address that `OpenSocket` takes, no message ends the attempt; a USB device that comes back before its close is done is ignored (`vtwin.cpp:2752`).
* YMODEM: a later file that cannot be opened counts as success (`ymodem.c:771`), and a receiver asks for ever.
* ZMODEM: a stale `ZRPOS` 0 skips the second file after two faults; the sender has no timer, so a lost
  ZFILE, NAK or last ZFIN is final. Kermit: a lost attribute packet or its answer is never repaired.
* Quick-VAN: `QVParseVNAK` compares the type byte instead of the block number (`quickvan.c:1101`); a second
  VNAK in flight cancels the transfer; an acknowledgement stops the sender's timer.
* Macro: `IfNest` stays raised after a `return`, `exit` or `goto` out of a branch, so a stray `else` or `endif` is no error later (`ttl.cpp:978`); `return` inside
  a loop of a subroutine is an error (`ttmbuff.c:428`). `sendfile` never ends (`ttdde.c:644`, `sendmem.cpp:142`); `xmodemrecv` and `xmodemsend` are swapped
  (`ttdde.c:701`); a transfer that begins during a background send leaves it busy (`filesys_proto.cpp:402`); `send` to a terminal that
  is gone spins (`ttmdde.c:393`).
* Screen: with ClearOnResize off `BuffEndAbs` is not updated by resizing (`buffer.c:4540`); a scroll by almost the
  whole buffer loses lines below the region (`buffer.c:672`); the setup dialog leaves LinePtr at 0 (`buffer.c:489`,
  which is why `OnlySetupMisleads` names `ChangeWin`).
* Status line: DECRC, BS with BACKWRAP, VPA, VPB, VPR, DECSLRM and DECCOLM take the cursor off it and leave the region on it (`Strays`);
  clearing the buffer puts it into the page's region (`buffer.c:4683`); a drag of the window's border hides it but keeps what it saved for the
  page (`vtwin.cpp:2401`); the way back restores `Wrap` and then clears it by MoveCursor (`vtterm.c:420`).
* A pending wrap survives a resize (`buffer.c:4498`) and the status line, so the next character may go a line too low (`KeepsWrap`); a wide
  character does not see the right margin when it looks for room (`NoRoom`), and on a page of one column PutU32 does not return.
* Origin mode: left of the left margin the column reported is not positive (`vtterm.c:2323`); DECSTBM and DECOM do not go to the
  left margin; NEL goes to the margin after C1 and to the first column after ESC (`vtterm.c:1332`); ED 2 after DECSET 8200 homes to the
  margins without origin mode and to the page's corner with it (`vtterm.c:1924`).

## Not modelled

* In the SSH modules: SSH1, X11 forwards (the remote-forward code with another request
  type), agent and session consumers, growth of the arrays, the bytes of the SOCKS
  request, an OPEN refused with the slot table full. `SshChannel` has one channel
  and `SshChannelTable` has no windows and no key exchange. `dummy_blocking_write`, which
  makes a full buffer an error while a SOCKS client is answered, is left out. The keys themselves, the
  choice of algorithms and the MACs are values, not bits.
* In SCP: time stamps, key exchange in the middle of a transfer, a file that goes between open and stat.
* In Telnet: the byte-by-byte parser, TERMTYPE and TERMSPEED answers, a NAWS command
  sent by the server, break and AYT, a full output buffer.
* In the transfers: text conversion, block lengths, sizes and times, YMODEM-g, ZMODEM's escapes and ZSINIT,
  long Kermit packets and Get/Finish, the dialogs. Assumed: timers are longer than a round trip and noise
  never turns into an EOT byte. B-Plus: only the terminal's half of it is in the repository.
* Of the screen: cells within a line, attributes, the parser of escape sequences, drawing. `ScreenBuffer` has no status line,
  `VtCursor` no text and no limits of the scroll buffer; the two share the cursor's line and the region.
* Of the macro: expressions, variables, `execcmnd` and the commands that stay inside the macro and leave the control alone: a sequential interpreter. In a loop that is
  not entered (`ttl.cpp:5617`) an `if x while ...` on one line is counted by neither the code nor the model's macros.
* The terminal log's thread: one queue of messages to one thread with one file; it is
  stopped by a message behind all others, so nothing overtakes.
* Other components, with reasons, in `PROJECT.json`: cryptography and framing
  (bytes, sequential), GUI, dialogs, settings, drawing, the installer. They are most of the
  repository's lines, and hold no state that two parties change.

## Plan

Order in which the modules came, and what is next.

1. `SshChannel`, `SshChannelProofs`; `SshChannelTable`.
2. `Telnet`, `TelnetKeepAlive`; `WriteQueue`, `SockWriteBuf` with its proofs.
3. `FileTransfer` with `Xmodem`, then the other protocols and `Transfers`.
4. `SshLogin`; `TerminalPage`, `ScreenBuffer` and the first proof about it; `MacroLink`; `Scp`.
5. `VtCursor` and its proofs; `MacroText`, `MacroControl`.
6. `CommPort`; the proofs of the rest of `SshChannel`'s invariants, of `SshLogin`'s, of `Telnet`'s, of `MacroLink`'s and of `VtCursor`'s `TabFindsNearest`; that `ScreenBuffer` implements `TerminalPage`;
   the proofs about `MacroControl`'s stack and about `SshChannelTable`.
7. Next, models: the cells of a line (ICH, DCH, ECH, rectangles, wide characters) between `VtCursor` and `ScreenBuffer`.
8. Next, proofs: `FilesWhole`;
   that `Xmodem`'s receiver implements `FileTransfer`; that `MacroControl` implements `MacroText`.
