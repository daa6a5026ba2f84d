--------------------------- MODULE SshChannelTable ---------------------------
(***************************************************************************)
(* The three tables behind TTSSH's port forwarding over SSH2 and the reuse  *)
(* of their entries: the FWDRequests the user edits, the FWDChannels (one   *)
(* local socket each) of fwd.c, and the Channel_t slots of ssh.c.  A slot   *)
(* names its FWDChannel by local_num, and ssh2_local_channel_lookup goes    *)
(* back from an FWDChannel to a slot by searching for that number.          *)
(*                                                                         *)
(* The server handles a packet and its answer arrives in one step: what     *)
(* overlaps here is the life of several channels.  Data and windows are     *)
(* the subject of SshChannel.  X11 requests go through the same code as     *)
(* remote forwards and are left out.                                        *)
(*                                                                         *)
(* A connection k is history: it is the number the server gives its end of  *)
(* a channel, 0 being the shell.                                            *)
(***************************************************************************)
EXTENDS Integers, FiniteSets

CONSTANTS
    ChannelMax,      \* CHANNEL_MAX, slots of Channel_t
    FwdMax,          \* bound: FWDChannels in use at once
    Requests,        \* bound: entries of the request table, a set of numbers
    MaxConns,        \* bound: forwarded connections ever started
    MaxSocks,        \* bound: connects ever started
    Setups           \* the uses of the program that a run follows, see Setup

Types == {"LOCAL_TO_REMOTE", "LOCAL_DYNAMIC", "REMOTE_TO_LOCAL"}

Forward == [type : Types, port : Nat, host : Nat]

\* One use of the program: the forwards the user may ask for, the forward of each
\* entry at start, how often the user changes them (a bound), and whether SCP and
\* SFTP channels come and go as well.
Setup(s) ==
    /\ s.specs \subseteq Forward
    /\ s.init \in [Requests -> s.specs]
    /\ s.edits \in Nat /\ s.others \in BOOLEAN

ASSUME TableAssumption ==
    /\ ChannelMax \in Nat \ {0} /\ FwdMax \in Nat \ {0}
    /\ Requests \subseteq Nat /\ IsFiniteSet(Requests)
    /\ MaxConns \in Nat /\ MaxSocks \in Nat
    /\ \A s \in Setups : Setup(s)

VARIABLES
    requests,        \* FWDRequest by number
    fwd,             \* FWDChannel by number
    channels,        \* Channel_t by slot
    wm,              \* messages posted to accept_wnd, see Drained
    resolving,       \* name lookups running in threads of their own
    connecting,      \* sockets whose connect has not ended
    srv,             \* what the server knows of each connection
    setup,           \* the member of Setups this run follows
    nconn, nsock, edits

tables == <<requests, fwd, channels>>
tableVars == <<tables, wm, resolving, connecting, srv, setup, nconn, nsock, edits>>

Nums  == 0..(FwdMax - 1)
Slots == 0..(ChannelMax - 1)
Both  == {"REMOTE_CONNECTED", "LOCAL_CONNECTED"}

None == -1                 \* INVALID_SOCKET, request_num -1, local_num -1

FreeFwdEntry == [status |-> {}, sock |-> None, request |-> None, conn |-> 0]

\* memset(c, 0): an unused slot has local_num 0 and remote_id 0.
FreeSlot == [used |-> FALSE, forward |-> FALSE, local_num |-> 0, remote |-> 0, conn |-> 0]

Shell == [used |-> TRUE, forward |-> FALSE, local_num |-> None, remote |-> 0, conn |-> 0]

Request(spec) ==
    [deleted |-> FALSE, spec |-> spec, num_channels |-> 0, addrs |-> FALSE,
     lookup |-> 0]

TableInit ==
    /\ setup \in Setups
    /\ requests = [r \in Requests |-> Request(setup.init[r])]
    /\ fwd = [n \in Nums |-> FreeFwdEntry]
    /\ channels = [i \in Slots |-> IF i = 0 THEN Shell ELSE FreeSlot]
    /\ wm = {} /\ resolving = {} /\ connecting = {}
    /\ srv = [k \in 1..MaxConns |->
                [st |-> "none", peer |-> None, confirms |-> 0, failures |-> 0, eofs |-> 0]]
    /\ nconn = 0 /\ nsock = 0 /\ edits = 0

-----------------------------------------------------------------------------
(* Searching and allocating.                                               *)

Least(S) == CHOOSE x \in S : \A y \in S : x <= y

\* ssh2_local_channel_lookup does not look at used.
LookupSet(n) == {i \in Slots : channels[i].local_num = n}
Lookup(n) == IF LookupSet(n) = {} THEN None ELSE Least(LookupSet(n))

\* alloc_channel: the first entry with no status.
FreeNums == {n \in Nums : fwd[n].status = {}}
Allocated(n) == FreeNums # {} /\ n = Least(FreeNums)

\* ssh2_channel_new: the first slot not used.
FreeSlots == {i \in Slots : ~channels[i].used}
NewSlot_Last == CHOOSE i \in FreeSlots : \A j \in FreeSlots : j <= i
NewSlot == Least(FreeSlots)

\* FWD_free_channel for every entry of N: the request's count goes down, and
\* a deleted request that loses its last one cancels its lookup.
Freed(f, N) == [n \in Nums |-> IF n \in N THEN FreeFwdEntry ELSE f[n]]

ReleasedBy(f, N, r) == Cardinality({n \in N : f[n].request = r})

Released(q, f, N) ==
    [r \in Requests |->
        LET left == q[r].num_channels - ReleasedBy(f, N, r) IN
        [q[r] EXCEPT !.num_channels = left,
                     !.lookup = IF left = 0 /\ q[r].deleted /\ ReleasedBy(f, N, r) > 0
                                  THEN 0 ELSE @]]

\* safe_closesocket: messages still queued for the socket are drained.  What is kept is
\* posted again behind the others (drain_matching_messages), and sockets and threads end
\* in any order: the messages are a set.
Drained(S) == {m \in wm : ~(m.type = "CONNECT" /\ m.id \in S)}

Sockets(f, N) == {f[n].sock : n \in N} \ {None}

\* The answers the server gets: CONFIRM names the slot, FAILURE the connection.
Confirmed(s, i) ==
    LET k == channels[i].remote IN
    IF k \notin DOMAIN s THEN s
    ELSE [s EXCEPT ![k].confirms = @ + 1,
                   ![k].peer = IF s[k].st = "asked" THEN i ELSE @,
                   ![k].st = IF @ = "asked" THEN "open" ELSE @]

Failed(s, K) ==
    [k \in DOMAIN s |->
        IF k \notin K THEN s[k]
        ELSE [s[k] EXCEPT !.failures = @ + 1,
                          !.st = IF @ = "asked" THEN "failed" ELSE @]]

-----------------------------------------------------------------------------
(* Local connections.                                                      *)

\* SSH_open_channel for entry n: a slot is taken and OPEN sent; with no slot
\* left the entry is given back.  q and f are the tables as they stand.
OpenChannel(q, f, n, k) ==
    IF FreeSlots # {}
      THEN /\ channels' = [channels EXCEPT ![NewSlot] =
                  [used |-> TRUE, forward |-> TRUE, local_num |-> n, remote |-> None, conn |-> k]]
           /\ srv' = [srv EXCEPT ![k].st = "asked", ![k].peer = NewSlot]
           /\ requests' = q /\ fwd' = f
      ELSE /\ requests' = Released(q, f, {n})
           /\ fwd' = Freed(f, {n})
           /\ UNCHANGED <<channels, srv>>

Counted(r) == [requests EXCEPT ![r].num_channels = @ + 1]

\* accept_local_connection on a listening request: a fixed forward asks the
\* server at once, a dynamic one waits for the SOCKS request with both
\* connected flags set.
AcceptLocalConnection(r) ==
    /\ ~requests[r].deleted /\ requests[r].spec.type # "REMOTE_TO_LOCAL"
    /\ nconn < MaxConns
    /\ nconn' = nconn + 1
    /\ nsock' = nsock + 1 /\ nsock < MaxSocks
    /\ \E n \in Nums :
         LET dynamic == requests[r].spec.type = "LOCAL_DYNAMIC"
             entry == [status |-> IF dynamic THEN Both ELSE {"LOCAL_CONNECTED"},
                       sock |-> nsock + 1, request |-> r, conn |-> nconn + 1]
             f == [fwd EXCEPT ![n] = entry]
         IN /\ Allocated(n)
            /\ IF dynamic
                 THEN requests' = Counted(r) /\ fwd' = f /\ UNCHANGED <<channels, srv>>
                 ELSE OpenChannel(Counted(r), f, n, nconn + 1)
    /\ UNCHANGED <<wm, resolving, connecting, edits, setup>>

Undialled(n) ==
    /\ fwd[n].conn # 0 /\ requests[fwd[n].request].spec.type = "LOCAL_DYNAMIC"
    /\ srv[fwd[n].conn].st = "none"

\* FD_READ on a dynamic forward: read_local_connection looks the slot up
\* before recv, and uses what it finds without a check; then SOCKS_filter
\* takes the request, clears the flag that was set too early, and opens.
SocksRequest(n) ==
    /\ Undialled(n) /\ fwd[n].sock # None /\ Lookup(n) # None
    /\ OpenChannel(requests, [fwd EXCEPT ![n].status = @ \ {"REMOTE_CONNECTED"}], n, fwd[n].conn)
    /\ UNCHANGED <<wm, resolving, connecting, nconn, nsock, edits, setup>>

\* A request SOCKS_filter cannot read closes the connection; the flag is
\* cleared first, so no EOF is sent.
SocksRefused(n) ==
    /\ Undialled(n) /\ fwd[n].sock # None /\ Lookup(n) # None
    /\ fwd' = [fwd EXCEPT ![n].sock = None, ![n].status = @ \ {"REMOTE_CONNECTED"}]
    /\ UNCHANGED <<requests, channels, wm, resolving, connecting, srv, nconn, nsock, edits, setup>>

\* SSH_channel_input_eof: the EOF goes to whatever slot the lookup finds.
EofTarget(n) == IF Lookup(n) = None THEN None ELSE channels[Lookup(n)].remote

\* closed_local_connection, the local side having closed or failed.
ClosedLocalConnection(n) ==
    /\ fwd[n].sock # None /\ "LOCAL_CONNECTED" \in fwd[n].status
    /\ fwd' = [fwd EXCEPT ![n].sock = None,
                          ![n].status = IF Both \subseteq @ THEN @ \cup {"CLOSED_LOCAL"} ELSE @]
    /\ srv' = IF Both \subseteq fwd[n].status /\ EofTarget(n) \in DOMAIN srv
                THEN [srv EXCEPT ![EofTarget(n)].eofs = @ + 1] ELSE srv
    /\ wm' = Drained({fwd[n].sock})
    /\ UNCHANGED <<requests, channels, resolving, connecting, nconn, nsock, edits, setup>>

-----------------------------------------------------------------------------
(* Connections from the server.                                            *)

Matches(port) ==
    {r \in Requests : /\ ~requests[r].deleted
                      /\ requests[r].spec.type = "REMOTE_TO_LOCAL"
                      /\ requests[r].spec.port = port}

\* handle_SSH2_channel_open after FWD_open gave chan_num n (None if it denied
\* the connection): a slot is taken for it either way.
Registered(n, k) ==
    channels' = [channels EXCEPT ![NewSlot] =
        [used |-> TRUE, forward |-> TRUE, local_num |-> n, remote |-> k, conn |-> k]]

\* WSAAsyncGetAddrInfo may be unable to start its thread.
LookupFails(r) == ~requests[r].addrs /\ requests[r].lookup = 0

\* handle_SSH2_channel_open: FWD_open finds the request by port,
\* create_local_channel starts the name lookup, waits for the one running or
\* connects at once.  Should no slot be left chan_num is released again; with
\* chan_num None that would release entry -1, so such an OPEN is left out.
ServerOpens(port) ==
    /\ nconn < MaxConns /\ nconn' = nconn + 1
    /\ FreeSlots # {}
    /\ LET k == nconn + 1
           asked == [srv EXCEPT ![k].st = "asked"]
       IN \/ /\ \A r \in Matches(port) : r = Least(Matches(port)) => LookupFails(r)
             /\ srv' = Failed(asked, {k})
             /\ Registered(None, k)
             /\ UNCHANGED <<requests, fwd, wm, resolving, connecting, nsock>>
          \/ /\ Matches(port) # {}
             /\ \E n \in Nums :
                  LET r == Least(Matches(port))
                      q == Counted(r)
                      entry == [status |-> {"REMOTE_CONNECTED"}, sock |-> None,
                                request |-> r, conn |-> k]
                      f == [fwd EXCEPT ![n] = entry]
                  IN /\ Allocated(n)
                     /\ Registered(n, k)
                     /\ \/ /\ ~requests[r].addrs /\ requests[r].lookup # 0
                           /\ requests' = q /\ fwd' = f /\ srv' = asked
                           /\ UNCHANGED <<wm, resolving, connecting, nsock>>
                        \/ /\ ~requests[r].addrs /\ requests[r].lookup = 0
                           /\ requests' = [q EXCEPT ![r].lookup = k]
                           /\ resolving' = resolving \cup {[handle |-> k, request |-> r, done |-> FALSE]}
                           /\ fwd' = f /\ srv' = asked
                           /\ UNCHANGED <<wm, connecting, nsock>>
                        \/ /\ requests[r].addrs /\ nsock < MaxSocks
                           /\ nsock' = nsock + 1
                           /\ connecting' = connecting \cup {nsock + 1}
                           /\ fwd' = [f EXCEPT ![n].sock = nsock + 1]
                           /\ requests' = q /\ srv' = asked
                           /\ UNCHANGED <<wm, resolving>>
                        \/ /\ requests[r].addrs
                           /\ srv' = Failed(asked, {k})
                           /\ requests' = Released(q, f, {n})
                           /\ fwd' = Freed(f, {n})
                           /\ UNCHANGED <<wm, resolving, connecting, nsock>>
    /\ UNCHANGED <<edits, setup>>

\* getaddrinfo in its thread: the addresses are stored straight into the
\* request, and a message is posted after that.
Resolved(t) ==
    /\ t \in resolving /\ ~t.done
    /\ requests' = [requests EXCEPT ![t.request].addrs = TRUE]
    /\ resolving' = (resolving \ {t}) \cup {[t EXCEPT !.done = TRUE]}
    /\ UNCHANGED <<fwd, channels, wm, connecting, srv, nconn, nsock, edits, setup>>

PostName(t, ok) ==
    /\ t \in resolving /\ t.done = ok
    /\ resolving' = resolving \ {t}
    /\ wm' = wm \cup {[type |-> "GOTNAME", id |-> t.handle, ok |-> ok]}
    /\ UNCHANGED <<tables, connecting, srv, nconn, nsock, edits, setup>>

\* find_request_num_from_async_request: a deleted request is not found.
Named(h) == {r \in Requests : ~requests[r].deleted /\ requests[r].lookup = h}

\* Channels the result of a lookup is for.
Waiting_First(r) == {n \in Nums : fwd[n].request = r /\ \A m \in Nums : m < n => fwd[m].request # r}
Waiting(r) == {n \in Nums : fwd[n].request = r}

\* The handler ends by forgetting the lookup.
Forget(q, r) == [q EXCEPT ![r].lookup = 0]

\* WM_SOCK_GOTNAME: failed_to_host_addr fails every channel of the request,
\* found_to_host_addr connects them; some connects may fail at once.
GotName(m) ==
    /\ m \in wm /\ m.type = "GOTNAME" /\ wm' = wm \ {m}
    /\ LET r == Least(Named(m.id)) IN
         IF Named(m.id) = {} THEN UNCHANGED <<requests, fwd, srv, connecting, nsock>>
         ELSE \E bad \in SUBSET Waiting(r) :
                LET good == Waiting(r) \ bad
                    id(n) == nsock + Cardinality({p \in good : p <= n})
                IN /\ ~m.ok => bad = Waiting(r)
                   /\ nsock + Cardinality(good) <= MaxSocks
                   /\ nsock' = nsock + Cardinality(good)
                   /\ requests' = Forget(Released(requests, fwd, bad), r)
                   /\ fwd' = [n \in Nums |-> IF n \in bad THEN FreeFwdEntry
                                             ELSE IF n \in good THEN [fwd[n] EXCEPT !.sock = id(n)]
                                             ELSE fwd[n]]
                   /\ srv' = Failed(srv, {fwd[n].conn : n \in bad})
                   /\ connecting' = connecting \cup {id(n) : n \in good}
    /\ UNCHANGED <<channels, resolving, nconn, edits, setup>>

\* Winsock ends a connect; the other addresses of the host have been tried.
ConnectEnds(s, ok) ==
    /\ s \in connecting
    /\ connecting' = connecting \ {s}
    /\ wm' = wm \cup {[type |-> "CONNECT", id |-> s, ok |-> ok]}
    /\ UNCHANGED <<tables, resolving, srv, nconn, nsock, edits, setup>>

Holder(s) == {n \in Nums : fwd[n].sock = s}

\* channel_opening_error frees the FWDChannel and leaves its Channel_t.
OpeningError(n) ==
    /\ srv' = Failed(srv, {fwd[n].conn})
    /\ requests' = Released(requests, fwd, {n})
    /\ fwd' = Freed(fwd, {n})

\* FD_CONNECT: connected_local_connection confirms through the lookup.
OnFdConnect(m) ==
    /\ m \in wm /\ m.type = "CONNECT" /\ wm' = wm \ {m}
    /\ \/ Holder(m.id) = {} /\ UNCHANGED <<requests, fwd, srv>>
       \/ \E n \in Holder(m.id) :
            \/ /\ m.ok
               /\ srv' = IF Lookup(n) = None THEN srv ELSE Confirmed(srv, Lookup(n))
               /\ fwd' = [fwd EXCEPT ![n].status = @ \cup {"LOCAL_CONNECTED"}]
               /\ UNCHANGED requests
            \/ ~m.ok /\ OpeningError(n)
    /\ UNCHANGED <<channels, resolving, connecting, nconn, nsock, edits, setup>>

-----------------------------------------------------------------------------
(* The server's answers and closing.                                       *)

\* FWD_confirmed_open by way of handle_SSH2_open_confirm.
ServerConfirms(k) ==
    /\ srv[k].st = "asked" /\ srv[k].peer # None
    /\ LET i == srv[k].peer
           n == channels[i].local_num
       IN IF ~channels[i].used THEN UNCHANGED <<fwd, channels>> /\ srv' = [srv EXCEPT ![k].st = "open"]
          ELSE /\ channels' = [channels EXCEPT ![i].remote = k]
               /\ IF fwd[n].sock # None
                    THEN /\ fwd' = [fwd EXCEPT ![n].status = @ \cup {"REMOTE_CONNECTED"}]
                         /\ srv' = [srv EXCEPT ![k].st = "open"]
                    ELSE /\ fwd' = [fwd EXCEPT ![n].status = @ \cup {"CLOSED_LOCAL"}]
                         /\ srv' = [srv EXCEPT ![k].st = "open", ![k].eofs = @ + 1]
    /\ UNCHANGED <<requests, wm, resolving, connecting, nconn, nsock, edits, setup>>

\* FWD_free_channel and ssh2_channel_delete on slot i.
DeleteChannel(i) ==
    LET N == IF channels[i].forward THEN {channels[i].local_num} \cap Nums ELSE {} IN
    /\ requests' = Released(requests, fwd, N)
    /\ fwd' = Freed(fwd, N)
    /\ wm' = Drained(Sockets(fwd, N))
    /\ channels' = [channels EXCEPT ![i] = FreeSlot]

\* handle_SSH2_open_failure.
ServerFails(k) ==
    /\ srv[k].st = "asked" /\ srv[k].peer # None
    /\ srv' = [srv EXCEPT ![k].st = "failed"]
    /\ IF channels[srv[k].peer].used THEN DeleteChannel(srv[k].peer)
                                     ELSE UNCHANGED <<tables, wm>>
    /\ UNCHANGED <<resolving, connecting, nconn, nsock, edits, setup>>

\* handle_SSH2_channel_close.
ServerCloses(k) ==
    /\ srv[k].st = "open"
    /\ srv' = [srv EXCEPT ![k].st = "closed"]
    /\ IF channels[srv[k].peer].used THEN DeleteChannel(srv[k].peer)
                                     ELSE UNCHANGED <<tables, wm>>
    /\ UNCHANGED <<resolving, connecting, nconn, nsock, edits, setup>>

\* SSH_start_scp, SSH_sftp: a slot of another kind, with local_num -1.
OtherOpens ==
    /\ setup.others /\ FreeSlots # {}
    /\ channels' = [channels EXCEPT ![NewSlot] = Shell]
    /\ UNCHANGED <<requests, fwd, wm, resolving, connecting, srv, nconn, nsock, edits, setup>>

OtherCloses(i) ==
    /\ i # 0 /\ channels[i] = Shell
    /\ DeleteChannel(i)
    /\ UNCHANGED <<resolving, connecting, srv, nconn, nsock, edits, setup>>

-----------------------------------------------------------------------------
(* FWD_set_request_specs: the user edits the list of forwards.             *)

\* No two specs listen on the same port of the same side.
Listens(spec) == <<spec.type = "REMOTE_TO_LOCAL", spec.port>>
Editable == {S \in SUBSET setup.specs : \A a, b \in S : Listens(a) = Listens(b) => a = b}

\* delete_request; with no channel left its lookup is cancelled.
Deleted(req) ==
    [req EXCEPT !.deleted = TRUE, !.lookup = IF req.num_channels = 0 THEN 0 ELSE @]

Reusable(req) == req.deleted /\ req.num_channels = 0

\* Specs that did not change keep their entry; the other entries are deleted,
\* and the new specs go to the lowest entries that have no channel.
\* (The table grows in the code when there is no room for them.)
SetRequestSpecs ==
    /\ edits < setup.edits /\ edits' = edits + 1
    /\ \E S \in Editable :
         LET kept  == {r \in Requests : ~requests[r].deleted /\ requests[r].spec \in S}
             q     == [r \in Requests |-> IF r \in kept \/ requests[r].deleted
                                            THEN requests[r] ELSE Deleted(requests[r])]
             new   == S \ {requests[r].spec : r \in kept}
             room  == {r \in Requests : Reusable(q[r])}
             first == {r \in room : Cardinality({p \in room : p < r}) < Cardinality(new)}
         IN /\ Cardinality(new) <= Cardinality(room)
            /\ \E a \in [first -> new] :
                 /\ \A r, p \in first : a[r] = a[p] => r = p
                 /\ requests' = [r \in Requests |->
                       IF r \in first
                         THEN [Request(a[r]) EXCEPT !.num_channels = q[r].num_channels]
                         ELSE q[r]]
    /\ UNCHANGED <<fwd, channels, wm, resolving, connecting, srv, nconn, nsock, setup>>

-----------------------------------------------------------------------------
Ports == {spec.port : spec \in setup.specs}

Conns == {k \in 1..MaxConns : k <= nconn}

Threads == \E t \in resolving : Resolved(t) \/ (\E ok \in BOOLEAN : PostName(t, ok))

Winsock == \E s \in connecting, ok \in BOOLEAN : ConnectEnds(s, ok)

TableNext ==
    \/ \E r \in Requests : AcceptLocalConnection(r)
    \/ \E n \in Nums : SocksRequest(n) \/ SocksRefused(n) \/ ClosedLocalConnection(n)
    \/ \E p \in Ports : ServerOpens(p)
    \/ Threads \/ Winsock \/ (\E m \in wm : GotName(m) \/ OnFdConnect(m))
    \/ \E k \in Conns : ServerConfirms(k) \/ ServerFails(k) \/ ServerCloses(k)
    \/ OtherOpens \/ (\E i \in Slots : OtherCloses(i))
    \/ SetRequestSpecs

TableSpec == TableInit /\ [][TableNext]_tableVars

-----------------------------------------------------------------------------
(* Properties.                                                             *)

RequestType ==
    [deleted : BOOLEAN, spec : Forward, num_channels : Nat, addrs : BOOLEAN,
     lookup : 0..MaxConns]

FwdType ==
    [status : SUBSET (Both \cup {"CLOSED_LOCAL"}), sock : Nat \cup {None},
     request : Requests \cup {None}, conn : 0..MaxConns]

SlotType ==
    [used : BOOLEAN, forward : BOOLEAN, local_num : Nums \cup {None},
     remote : 0..MaxConns \cup {None}, conn : 0..MaxConns]

\* Every table entry keeps its type; no request count goes below zero.
TableTypeOK ==
    /\ requests \in [Requests -> RequestType]
    /\ fwd \in [Nums -> FwdType]
    /\ channels \in [Slots -> SlotType]
    /\ nconn \in 0..MaxConns /\ nsock \in 0..MaxSocks /\ edits \in 0..setup.edits /\ setup \in Setups

\* A connection that waits for its host's name has a lookup on its way as long as the user
\* keeps the forward, and whichever of the lookup, the connect and the table refuses a
\* connection, the server is told of it once.
AnsweredOnce ==
    /\ \A n \in Nums :
         LET r == fwd[n].request IN
         (fwd[n].status = {"REMOTE_CONNECTED"} /\ fwd[n].sock = None /\ ~requests[r].deleted) =>
            \/ \E t \in resolving : t.handle = requests[r].lookup
            \/ \E m \in wm : m.type = "GOTNAME" /\ m.id = requests[r].lookup
    /\ \A k \in Conns : srv[k].failures <= 1

OnlyLocalForwards ==
    ~setup.others /\ \A spec \in setup.specs : spec.type = "LOCAL_TO_REMOTE"

\* No OPEN of the server was denied: the slot that a denied one takes is never freed.
NoneDenied == \A i \in Slots : channels[i].used /\ channels[i].forward => channels[i].local_num # None

\* With local forwards alone every connection keeps its own entries, however they are
\* reused: while the server has a channel open its slot is that channel's and leads to
\* that channel's FWDChannel; and from an FWDChannel in use one gets the Channel_t that
\* was set up for it (ssh2_local_channel_lookup).  A denied OPEN of the server ends the
\* latter: its slot puts the others out of step, and a free slot answers for FWDChannel 0.
EntriesLinked ==
    OnlyLocalForwards =>
        /\ \A k \in Conns :
              srv[k].st = "open" =>
                  LET i == srv[k].peer IN
                  /\ channels[i].used /\ channels[i].conn = k
                  /\ fwd[channels[i].local_num].conn = k
        /\ NoneDenied =>
              \A n \in Nums :
                  fwd[n].status # {} =>
                      Lookup(n) # None /\ channels[Lookup(n)].conn = fwd[n].conn

\* read_local_connection uses the Channel_t it looks up whenever both flags
\* are set: there must be one ("sure to be successful", ssh.c).  The code does not
\* keep this with dynamic forwards: see README.
ReadFindsSlot ==
    \A n \in Nums : (Both \subseteq fwd[n].status /\ fwd[n].sock # None) => Lookup(n) # None

\* The connection whose success is reported to the server is the one whose
\* local socket has just connected (SSH_confirm_channel_open).  The code does not keep
\* this after a connect that failed: see README.
ConfirmNamesOwn ==
    [][\A k \in DOMAIN srv :
         srv'[k].confirms # srv[k].confirms =>
            \E n \in Nums : fwd[n].conn = k /\ "LOCAL_CONNECTED" \in fwd'[n].status]_tableVars
=============================================================================
