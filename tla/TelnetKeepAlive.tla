--------------------------- MODULE TelnetKeepAlive ---------------------------
(***************************************************************************)
(* The keep-alive thread of a telnet connection (teraterm/teraterm/telnet.c, *)
(* TelKeepAliveThread) and the window thread that starts and stops it.       *)
(*                                                                         *)
(* The thread asks the window thread to send a NOP with SendMessage, which   *)
(* returns when the window thread has handled the message, and it does so    *)
(* between two messages only.                                                *)
(***************************************************************************)
EXTENDS Naturals

CONSTANTS MaxStarts, MaxSettings    \* bounds: connections, changes of the setting

VARIABLES
    open,            \* cv.Open
    setting,         \* ts.TelKeepAliveInterval, 0 is off
    nop_interval,
    handle,          \* keepalive_thread # INVALID_HANDLE_VALUE
    thread,          \* where the thread is; "ended" also before the first
    window,          \* "loop", or in WaitForSingleObject: "stopping", "ending"
    starts, settings \* counters of the bounds

vars == <<open, setting, nop_interval, handle, thread, window, starts, settings>>

Init ==
    /\ open = FALSE /\ setting \in 0..2 /\ nop_interval = 0 /\ handle = FALSE
    /\ thread = "ended" /\ window = "loop" /\ starts = 0 /\ settings = 0

-----------------------------------------------------------------------------
(* The window thread.                                                      *)

TelStartKeepAliveThread(interval) ==
    IF interval > 0 THEN nop_interval' = interval /\ handle' = TRUE /\ thread' = "testing"
                    ELSE UNCHANGED <<nop_interval, handle, thread>>

\* CommOpen, OnCommOpen: the connection is open and negotiation begins.
OnCommOpen ==
    /\ window = "loop" /\ ~open /\ ~handle /\ starts < MaxStarts
    /\ open' = TRUE /\ starts' = starts + 1
    /\ TelStartKeepAliveThread(setting)
    /\ UNCHANGED <<setting, window, settings>>

\* nop_interval = 0 and a wait without end for the thread.
TelStopKeepAliveThread(at) ==
    IF handle THEN nop_interval' = 0 /\ window' = at ELSE UNCHANGED <<nop_interval, window>>

\* The connection is closed: EndTelnet, then CommClose.
EndTelnet ==
    /\ window = "loop" /\ open
    /\ TelStopKeepAliveThread("ending")
    /\ open' = handle                    \* CommClose once the wait is over
    /\ UNCHANGED <<setting, handle, thread, starts, settings>>

\* The user changes the interval in the TCP/IP dialog.
TelUpdateKeepAliveInterval ==
    /\ window = "loop" /\ settings < MaxSettings /\ settings' = settings + 1
    /\ setting' \in 0..2
    /\ \/ ~open /\ UNCHANGED <<nop_interval, handle, thread, window>>
       \/ open /\ setting' > 0 /\ ~handle /\ TelStartKeepAliveThread(setting')
          /\ UNCHANGED window
       \/ open /\ setting' = 0 /\ handle /\ TelStopKeepAliveThread("stopping")
          /\ UNCHANGED <<handle, thread>>
       \/ open /\ ((setting' > 0) = handle) /\ nop_interval' = setting'
          /\ UNCHANGED <<handle, thread, window>>
    /\ UNCHANGED <<open, starts>>

\* WaitForSingleObject returns.
WaitEnds ==
    /\ window # "loop" /\ thread = "ended"
    /\ window' = "loop" /\ handle' = FALSE
    /\ open' = (open /\ window # "ending")
    /\ UNCHANGED <<setting, nop_interval, thread, starts, settings>>

\* telnet_heartbeat_dlg_proc: the NOP is sent and SendMessage returns.
SendHeartbeat ==
    /\ window = "loop" /\ thread = "sending" /\ thread' = "asleep"
    /\ UNCHANGED <<open, setting, nop_interval, handle, window, starts, settings>>

-----------------------------------------------------------------------------
(* TelKeepAliveThread.                                                      *)

Test ==
    /\ thread = "testing"
    /\ thread' = IF open /\ nop_interval > 0 THEN "due?" ELSE "ended"
    /\ UNCHANGED <<open, setting, nop_interval, handle, window, starts, settings>>

\* time(NULL) >= cv.LastSendTime + nop_interval, or not.
Due ==
    /\ thread = "due?" /\ thread' \in {"sending", "asleep"}
    /\ UNCHANGED <<open, setting, nop_interval, handle, window, starts, settings>>

Wakes ==
    /\ thread = "asleep" /\ thread' = "testing"
    /\ UNCHANGED <<open, setting, nop_interval, handle, window, starts, settings>>

-----------------------------------------------------------------------------
Thread == Test \/ Due \/ Wakes

Next ==
    \/ OnCommOpen \/ EndTelnet \/ TelUpdateKeepAliveInterval \/ WaitEnds \/ SendHeartbeat
    \/ Thread

\* Both threads run; a message loop handles what was sent to its windows.
Spec == Init /\ [][Next]_vars
FairSpec == Spec /\ WF_vars(Thread) /\ WF_vars(SendHeartbeat) /\ WF_vars(WaitEnds)

-----------------------------------------------------------------------------
\* setup-tcpip.html: an interval of "0 to turn off": whenever the keep-alive is
\* turned off, or the connection closed, the window thread comes back from it
\* (TelStopKeepAliveThread).
StopReturns == (window # "loop") ~> (window = "loop")
=============================================================================
