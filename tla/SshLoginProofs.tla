--------------------------- MODULE SshLoginProofs ---------------------------
(***************************************************************************)
(* Proofs about the start of an SSH2 connection (SshLogin), for every set   *)
(* of methods, keys, prompts and liberties of the server.                   *)
(*                                                                         *)
(* One inductive invariant serves all four properties.  Its parts:          *)
(*   Turns      who may speak: one question at a time on its way to the     *)
(*              server, and which packets may follow which to the client    *)
(*   Exchanging where a key exchange stands, told by what is on its way     *)
(*   Reading    the keys of what the client reads                           *)
(*   Writing    the keys of what the client writes                          *)
(*   LoggingIn  where the user's authentication stands                      *)
(***************************************************************************)
EXTENDS SshLogin, FiniteSetTheorems, SequenceTheorems, TLAPS

-----------------------------------------------------------------------------
(* Types.                                                                   *)

ClientTypes == {"KEXINIT", "GEX_REQUEST", "INIT", "GEX_INIT", "NEWKEYS", "SERVICE_REQUEST",
                "AUTH", "INFO_RESPONSE", "OPEN", "DISCONNECT"}
Whats == {"", "none", "keyboard", "query", "signed", "password", "newpassword", "session",
          "dh", "gex", "group", "good", "bad", "prompts", "pk_ok", "changereq"}
Told == [t : Types, what : Whats, n : Prompts \cup {0}, keys : Nat, joined : BOOLEAN]
Said == [t : ClientTypes, what : Whats, n : Prompts \cup {0}, keys : Nat, joined : BOOLEAN]

Shown == {"none", "posted", "open"}
Stages == {{}, {"sent"}, {"received"}, {"done"}, {"rekeying"}, {"rekeying", "received"}}

ClientState ==
    [listFirst : BOOLEAN, kex : SUBSET {"sent", "received", "done", "rekeying"}, enabled : SUBSET Types, kind : {"none", "dh", "gex"},
     derived : Nat, inKeys : Nat, outKeys : Nat,
     hostOK : BOOLEAN, hostDlg : Shown, nameOK : BOOLEAN,
     method : Methods \cup {"none", "keyboard"}, tryed : BOOLEAN, retried : Nat,
     tis : BOOLEAN, typed : BOOLEAN, listAsked : BOOLEAN, authDlg : Shown,
     keyAt : Nat, keyFinal : BOOLEAN, handles60 : BOOLEAN, payload : Told, success : BOOLEAN,
     link : {"up", "closing", "closed"}, why : {"none", "user", "kex", "server", "unexpected"},
     out : Seq(Said)]

ServerState ==
    [kex : {"kexinit", "init", "newkeys", "idle"}, in : Nat, out : Nat, auth : BOOLEAN,
     fails : Nat, asked : Prompts \cup {-1}, left : BOOLEAN, noisy : BOOLEAN]

TypeOK ==
    /\ c \in ClientState /\ c.out = <<>> /\ c.kex \in Stages
    /\ srv \in ServerState
    /\ toServer \in Seq(Said)
    /\ toClient \in Seq(Told)

-----------------------------------------------------------------------------
(* The inductive invariant.                                                 *)

KexAsks == {"GEX_REQUEST", "INIT", "GEX_INIT"}
UserAsks == {"SERVICE_REQUEST", "AUTH", "INFO_RESPONSE"}
UserAnswers == {"SERVICE_ACCEPT", "60", "FAILURE", "SUCCESS", "BANNER"}
Auth == {"SUCCESS", "FAILURE", "BANNER"}

Packets(q) == {q[i] : i \in DOMAIN q}
In(q, T) == \E p \in Packets(q) : p.t \in T
Before(q, n, T) == \E i \in DOMAIN q : i < n /\ q[i].t \in T
Questions == KexAsks \cup UserAsks
Quiet == \A p \in Packets(toClient) : p.t \in Always

\* The reply that ends an exchange: the other 31 brings a group.
IsReply(m) == m.t = "33" \/ (m.t = "31" /\ m.what # "group")
HasReply == \E p \in Packets(toClient) : IsReply(p)

\* Which packet may come, sooner or later, after a packet m to the client.
MayFollow(m, t) ==
    \/ t \in Always \/ m.t = "IGNORE"
    \/ IsReply(m) /\ t \in {"NEWKEYS", "EXT_INFO"}
    \/ m.t = "NEWKEYS" /\ t = "EXT_INFO"
    \/ m.t = "BANNER" /\ t = "FAILURE"
    \/ m.t = "SUCCESS" /\ t = "KEXINIT"
    \/ m.t = "DATA" /\ t \in {"DATA", "KEXINIT"}

Turns ==
    /\ \A i, j \in DOMAIN toServer :
         toServer[i].t \in Questions /\ toServer[j].t \in Questions => i = j
    /\ In(toServer, Questions) => Quiet
    /\ \A i, j \in DOMAIN toClient : i < j => MayFollow(toClient[i], toClient[j].t)
    /\ \A i \in DOMAIN toClient : toClient[i].t = "EXT_INFO" =>
         toClient[i].joined /\ (i > 1 => toClient[i - 1].t = "NEWKEYS")
    /\ In(toClient, {"IGNORE"}) => srv.noisy
    /\ In(toClient, {"DISCONNECT"}) => srv.left

\* A key exchange of which the client has no reply: the first, or a later one.
Pending ==
    \/ c.kex = {} /\ ~c.success /\ c.hostDlg = "none" /\ c.derived = 0
    \/ c.kex = {"rekeying"} /\ c.success

KexAsked(m) ==
    /\ m.t \in KexAsks => Pending
    /\ m.t = "GEX_REQUEST" => c.enabled = Always \cup {"31"} /\ c.kind = "gex"
    /\ m.t = "INIT" => c.enabled = Always \cup {"31"} /\ c.kind = "dh"
    /\ m.t = "GEX_INIT" => c.enabled = Always \cup {"33"} /\ c.kind = "gex"

KexTold(m) ==
    /\ m.t \in {"31", "33"} => Pending /\ c.enabled = Always \cup {m.t} /\ c.kind # "none"
    /\ m.t = "31" => (m.what = "group" <=> c.kind = "gex")
    /\ m.t = "33" => c.kind = "gex"
    /\ m.t = "KEXINIT" =>
         \/ c.kex = {} /\ Pending /\ c.enabled = Always \cup {"KEXINIT"} /\ srv.out = 0
            /\ m.what \in {"dh", "gex", "none"}
         \/ c.kex = {"done"} /\ srv.auth /\ m.what \in {"dh", "gex"}
            /\ (c.success => c.enabled = Always \cup Transfer)
    /\ m.t = "NEWKEYS" =>
         /\ c.kex \in {{}, {"sent"}, {"rekeying"}}
         /\ HasReply \/ (c.why = "none" => c.enabled = Always \cup {"NEWKEYS"})
    /\ m.t = "EXT_INFO" => ~c.tryed
    /\ m.t = "DATA" => c.success /\ c.enabled = Always \cup Transfer

\* What the client's flags say of the exchange.
Standing ==
    /\ c.hostOK <=> c.kex \notin {{}, {"received"}}
    /\ c.nameOK <=> c.kex \notin {{}, {"sent"}, {"received"}}
    /\ c.kex \in {{"rekeying"}, {"rekeying", "received"}} => c.success
    /\ c.success => c.nameOK
    /\ "NEWKEYS" \in c.enabled => c.derived > 0
    /\ c.kex = {"received"} => c.derived > 0
    /\ c.kex = {"sent"} => c.outKeys = c.derived
    /\ c.nameOK => c.outKeys > 0
    /\ c.hostDlg # "none" /\ ~c.hostOK /\ c.why = "none" => c.derived = 1
    /\ c.hostDlg # "none" /\ ~c.success => ~c.hostOK
    /\ srv.out = 0 => c.kex = {} /\ c.hostDlg = "none"

Exchanging ==
    /\ Standing
    /\ \A p \in Packets(toServer) : KexAsked(p)
    /\ \A p \in Packets(toClient) : KexTold(p)
    /\ toClient # <<>> /\ Head(toClient).t = "EXT_INFO" /\ c.why = "none" => "EXT_INFO" \in c.enabled
    /\ HasReply => In(toClient, {"NEWKEYS"})
    /\ srv.out = 0 => ~In(toClient, {"NEWKEYS"})

\* The packets of q are written with keys k, with the next keys after NEWKEYS;
\* nothing is said of those after a DISCONNECT, which nobody reads.
Keyed(q, k) ==
    \A i \in DOMAIN q :
        ~Before(q, i, {"DISCONNECT"}) => q[i].keys = IF Before(q, i, {"NEWKEYS"}) THEN k + 1 ELSE k

Reading ==
    c.why = "none" =>
        /\ srv.out = IF In(toClient, {"NEWKEYS"}) THEN c.inKeys + 1 ELSE c.inKeys
        /\ c.derived = IF HasReply THEN srv.out - 1 ELSE srv.out
        /\ Keyed(toClient, c.inKeys)

Writing ==
    /\ c.link = "up" => c.why = "none"
    /\ c.why = "none" => /\ ~In(toServer, {"DISCONNECT"})
                         /\ c.outKeys = IF In(toServer, {"NEWKEYS"}) THEN srv.in + 1 ELSE srv.in
    /\ c.why # "none" => srv.left \/ In(toServer, {"DISCONNECT"})
    /\ srv.left \/ Keyed(toServer, srv.in)
    /\ \A i, j \in DOMAIN toServer : toServer[i].t = "NEWKEYS" /\ toServer[j].t = "NEWKEYS" => i = j
    /\ srv.in \in {0, 1}
    /\ In(toServer, {"NEWKEYS"}) => c.hostOK /\ srv.in = 0
    /\ ~c.hostOK => c.outKeys = 0 /\ srv.in = 0

\* The list of methods is being asked for while the dialog stays open.
Listing == c.listAsked /\ c.listFirst /\ ~c.tryed /\ ~c.tis /\ c.authDlg = "open"
InAuth == c.kex = {"done"} /\ ~c.success /\ c.handles60 /\ (c.authDlg = "none" \/ Listing)
Fits(n) == n = srv.asked \/ srv.noisy \/ srv.left

UserAsked(m) ==
    /\ m.t \in UserAsks => InAuth /\ m.keys > 0 /\ ~srv.auth
    /\ m.t = "SERVICE_REQUEST" => ~c.tryed /\ c.enabled = Always \cup {"SERVICE_ACCEPT"}
    /\ m.t \in {"AUTH", "INFO_RESPONSE"} => Auth \subseteq c.enabled
    /\ m.t = "AUTH" => IF m.what = "none" THEN ~c.tryed ELSE c.tryed /\ c.authDlg = "none"
    /\ m.t = "AUTH" /\ m.what = "keyboard" => c.method = "keyboard" /\ "60" \in c.enabled
    /\ m.t = "AUTH" /\ m.what = "query" => c.method = "pageant" /\ "60" \in c.enabled
    /\ m.t = "AUTH" /\ m.what = "password" => c.method = "password"
    /\ m.t = "INFO_RESPONSE" => /\ c.tryed /\ c.authDlg = "none"
                                /\ c.method = "keyboard" /\ "60" \in c.enabled /\ Fits(m.n)
    /\ m.t = "OPEN" => c.success

UserTold(m) ==
    /\ m.t \in UserAnswers => InAuth /\ (srv.auth => m.t = "SUCCESS")
    /\ m.t = "SERVICE_ACCEPT" => ~c.tryed /\ c.enabled = Always \cup {"SERVICE_ACCEPT"}
    /\ m.t \in Auth \cup {"60"} => Auth \subseteq c.enabled
    /\ m.t \in {"SUCCESS", "60"} => c.tryed /\ c.authDlg = "none"
    /\ m.t = "SUCCESS" => srv.auth
    /\ m.t = "60" =>
         \/ m.what = "prompts" /\ c.method = "keyboard" /\ "60" \in c.enabled /\ Fits(m.n)
         \/ m.what = "pk_ok" /\ c.method = "pageant" /\ "60" \in c.enabled
         \/ m.what = "changereq" /\ "changereq" \in ServerMay /\ c.method = "password"

\* What the client's flags say of the login.
Progress ==
    /\ c.success => srv.auth /\ c.authDlg = "none"
    /\ c.retried > 0 \/ c.tis => c.tryed
    /\ c.tryed \/ c.handles60
    /\ c.tryed => c.nameOK /\ (~c.success => Auth \subseteq c.enabled)
    /\ c.tis /\ ~c.success => "60" \in c.enabled
    /\ c.authDlg # "none" => /\ c.kex = {"done"} /\ ~c.success /\ c.handles60 /\ c.method = "none"
                             /\ (c.tis => Fits(c.payload.n))
    /\ srv.auth => srv.in = 1
    /\ srv.kex = "idle" /\ c.success => c.kex = {"done"} /\ c.enabled = Always \cup Transfer

LoggingIn ==
    /\ Progress
    /\ \A p \in Packets(toServer) : UserAsked(p)
    /\ \A p \in Packets(toClient) : UserTold(p)
    /\ srv.auth => c.success \/ In(toClient, {"SUCCESS"})
    /\ srv.kex = "idle" =>
         /\ ~In(toClient, {"KEXINIT"})
         /\ c.success => \A p \in Packets(toClient) : p.t \in Always \cup {"DATA"}

IInv == TypeOK /\ Turns /\ Exchanging /\ Reading /\ Writing /\ LoggingIn

-----------------------------------------------------------------------------
(* Queues of packets.                                                       *)

\* A queue that grew by e.
LEMMA Grown ==
    ASSUME NEW S, NEW q \in Seq(S), NEW e \in Seq(S)
    PROVE  /\ q \o e \in Seq(S)
           /\ \A i \in DOMAIN q : i \in DOMAIN (q \o e) /\ (q \o e)[i] = q[i] /\ i <= Len(q) /\ i \in Nat
           /\ \A j \in DOMAIN e : Len(q) + j \in DOMAIN (q \o e) /\ (q \o e)[Len(q) + j] = e[j]
                                  /\ j \in Nat \ {0}
           /\ \A i \in DOMAIN (q \o e) :
                i \in DOMAIN q \/ \E j \in DOMAIN e : i = Len(q) + j /\ (q \o e)[i] = e[j]
           /\ Len(q) \in Nat
  <1>1. /\ q \o e \in Seq(S) /\ Len(q \o e) = Len(q) + Len(e)
        /\ \A i \in 1..Len(q) + Len(e) : (q \o e)[i] = IF i <= Len(q) THEN q[i] ELSE e[i - Len(q)]
    BY ConcatProperties
  <1>2. /\ Len(q) \in Nat /\ DOMAIN q = 1..Len(q) /\ Len(e) \in Nat /\ DOMAIN e = 1..Len(e)
        /\ DOMAIN (q \o e) = 1..Len(q) + Len(e)
    BY <1>1, LenProperties
  <1>3. ASSUME NEW i \in DOMAIN (q \o e), i \notin DOMAIN q
        PROVE  \E j \in DOMAIN e : i = Len(q) + j /\ (q \o e)[i] = e[j]
    <2>1. i - Len(q) \in DOMAIN e /\ i = Len(q) + (i - Len(q))
      BY <1>2, <1>3
    <2>2. (q \o e)[i] = e[i - Len(q)]
      BY <1>1, <1>2, <1>3
    <2> QED
      BY <2>1, <2>2
  <1>4. \A j \in DOMAIN e : Len(q) + j \in DOMAIN (q \o e) /\ (q \o e)[Len(q) + j] = e[j] /\ j \in Nat \ {0}
    BY <1>1, <1>2
  <1>5. \A i \in DOMAIN q : i \in DOMAIN (q \o e) /\ (q \o e)[i] = q[i] /\ i <= Len(q) /\ i \in Nat
    BY <1>1, <1>2
  <1> QED
    BY <1>1, <1>2, <1>3, <1>4, <1>5

\* A queue whose first packet was taken.
LEMMA Shorter ==
    ASSUME NEW S, NEW q \in Seq(S), q # <<>>
    PROVE  /\ Head(q) \in S /\ Tail(q) \in Seq(S)
           /\ 1 \in DOMAIN q /\ Head(q) = q[1]
           /\ \A i \in DOMAIN Tail(q) : i \in Nat \ {0} /\ i + 1 \in DOMAIN q /\ Tail(q)[i] = q[i + 1]
           /\ \A i \in DOMAIN q : i \in Nat \ {0} /\ (i # 1 => i - 1 \in DOMAIN Tail(q) /\ Tail(q)[i - 1] = q[i])
  <1>1. /\ Head(q) \in S /\ Tail(q) \in Seq(S) /\ Len(Tail(q)) = Len(q) - 1
        /\ \A i \in 1..Len(Tail(q)) : Tail(q)[i] = q[i + 1]
    BY HeadTailProperties
  <1>2. Len(q) \in Nat \ {0}
    BY EmptySeq
  <1>3. DOMAIN q = 1..Len(q) /\ DOMAIN Tail(q) = 1..Len(Tail(q))
    BY <1>1, LenProperties
  <1>4. Head(q) = q[1]
    OBVIOUS
  <1> QED
    BY <1>1, <1>2, <1>3, <1>4

LEMMA PacketsGrown ==
    ASSUME NEW S, NEW q \in Seq(S), NEW e \in Seq(S)
    PROVE  Packets(q \o e) = Packets(q) \cup Packets(e)
  <1> DEFINE r == q \o e
  <1>0. /\ \A l \in DOMAIN q : l \in DOMAIN r /\ r[l] = q[l]
        /\ \A h \in DOMAIN e : Len(q) + h \in DOMAIN r /\ r[Len(q) + h] = e[h]
        /\ \A l \in DOMAIN r : l \in DOMAIN q \/ \E h \in DOMAIN e : l = Len(q) + h /\ r[l] = e[h]
    BY Grown
  <1> HIDE DEF r
  <1>1. Packets(r) \subseteq Packets(q) \cup Packets(e)
    BY <1>0 DEF Packets
  <1>2. Packets(q) \subseteq Packets(r) /\ Packets(e) \subseteq Packets(r)
    BY <1>0 DEF Packets
  <1>3. Packets(r) = Packets(q) \cup Packets(e)
    BY <1>1, <1>2
  <1> QED
    BY <1>3 DEF r

LEMMA PacketsShorter ==
    ASSUME NEW S, NEW q \in Seq(S), q # <<>>
    PROVE  Packets(q) = {Head(q)} \cup Packets(Tail(q))
  <1>1. /\ 1 \in DOMAIN q /\ Head(q) = q[1]
        /\ \A i \in DOMAIN Tail(q) : i + 1 \in DOMAIN q /\ Tail(q)[i] = q[i + 1]
        /\ \A i \in DOMAIN q : i # 1 => i - 1 \in DOMAIN Tail(q) /\ Tail(q)[i - 1] = q[i]
    BY Shorter
  <1>2. {Head(q)} \cup Packets(Tail(q)) \subseteq Packets(q)
    BY <1>1 DEF Packets
  <1>3. Packets(q) \subseteq {Head(q)} \cup Packets(Tail(q))
    BY <1>1 DEF Packets
  <1> QED
    BY <1>2, <1>3

LEMMA InGrown ==
    ASSUME NEW S, NEW q \in Seq(S), NEW e \in Seq(S), NEW T
    PROVE  In(q \o e, T) <=> In(q, T) \/ In(e, T)
  BY PacketsGrown DEF In

LEMMA InShorter ==
    ASSUME NEW S, NEW q \in Seq(S), q # <<>>, NEW T
    PROVE  In(q, T) <=> Head(q).t \in T \/ In(Tail(q), T)
  BY PacketsShorter DEF In

LEMMA PacketsIn ==
    ASSUME NEW S, NEW q \in Seq(S)
    PROVE  Packets(q) \subseteq S
  BY ElementOfSeq DEF Packets

\* Packets added to a queue are written with the keys that are due there.
LEMMA KeyedGrown ==
    ASSUME NEW S, NEW q \in Seq(S), NEW e \in Seq(S), NEW k, Keyed(q, k),
           \A j \in DOMAIN e : ~In(q, {"DISCONNECT"}) /\ ~Before(e, j, {"DISCONNECT"}) =>
              e[j].keys = IF In(q, {"NEWKEYS"}) \/ Before(e, j, {"NEWKEYS"}) THEN k + 1 ELSE k
    PROVE  Keyed(q \o e, k)
  <1> DEFINE r == q \o e
  <1> SUFFICES ASSUME NEW i \in DOMAIN r, ~Before(r, i, {"DISCONNECT"})
               PROVE  r[i].keys = IF Before(r, i, {"NEWKEYS"}) THEN k + 1 ELSE k
    BY DEF Keyed
  <1>0. /\ \A l \in DOMAIN q : l \in DOMAIN r /\ r[l] = q[l] /\ l <= Len(q) /\ l \in Nat
        /\ \A h \in DOMAIN e : Len(q) + h \in DOMAIN r /\ r[Len(q) + h] = e[h] /\ h \in Nat \ {0}
        /\ \A l \in DOMAIN r : l \in DOMAIN q \/ \E h \in DOMAIN e : l = Len(q) + h /\ r[l] = e[h]
        /\ Len(q) \in Nat
    BY Grown
  <1> HIDE DEF r
  <1>1. CASE i \in DOMAIN q
    <2>1. r[i] = q[i]
      BY <1>0, <1>1
    <2>2. ASSUME NEW T PROVE Before(r, i, T) <=> Before(q, i, T)
      BY <1>0, <1>1 DEF Before
    <2> QED
      BY <1>1, <2>1, <2>2 DEF Keyed
  <1>2. CASE i \notin DOMAIN q
    <2>1. PICK j \in DOMAIN e : i = Len(q) + j /\ r[i] = e[j]
      BY <1>0, <1>2
    <2>2. ASSUME NEW T PROVE Before(r, i, T) <=> In(q, T) \/ Before(e, j, T)
      <3>1. In(q, T) => Before(r, i, T)
        BY <1>0, <2>1 DEF Before, In, Packets
      <3>2. Before(e, j, T) => Before(r, i, T)
        BY <1>0, <2>1 DEF Before
      <3>3. ASSUME NEW l \in DOMAIN r, l < i, r[l].t \in T PROVE In(q, T) \/ Before(e, j, T)
        <4>1. CASE l \in DOMAIN q
          BY <1>0, <3>3, <4>1 DEF In, Packets
        <4>2. CASE l \notin DOMAIN q
          <5>1. PICK h \in DOMAIN e : l = Len(q) + h /\ r[l] = e[h]
            BY <1>0, <4>2
          <5>2. h < j
            BY <1>0, <2>1, <3>3, <5>1
          <5> QED
            BY <3>3, <5>1, <5>2 DEF Before
        <4> QED
          BY <4>1, <4>2
      <3> QED
        BY <3>1, <3>2, <3>3 DEF Before
    <2> QED
      BY <2>1, <2>2
  <1> QED
    BY <1>1, <1>2

\* The reader of a queue changes its keys with NEWKEYS.
LEMMA KeyedShorter ==
    ASSUME NEW S, NEW q \in Seq(S), q # <<>>, NEW k \in Nat, Keyed(q, k), Head(q).t # "DISCONNECT",
           \A i, j \in DOMAIN q : q[i].t = "NEWKEYS" /\ q[j].t = "NEWKEYS" => i = j
    PROVE  Keyed(Tail(q), IF Head(q).t = "NEWKEYS" THEN k + 1 ELSE k)
  <1> DEFINE r == Tail(q)
  <1> SUFFICES ASSUME NEW i \in DOMAIN r, ~Before(r, i, {"DISCONNECT"})
               PROVE  r[i].keys = IF Before(r, i, {"NEWKEYS"})
                                  THEN (IF Head(q).t = "NEWKEYS" THEN k + 1 ELSE k) + 1
                                  ELSE IF Head(q).t = "NEWKEYS" THEN k + 1 ELSE k
    BY DEF Keyed
  <1>1. i \in Nat \ {0} /\ i + 1 \in DOMAIN q /\ r[i] = q[i + 1] /\ 1 \in DOMAIN q /\ Head(q) = q[1]
    BY Shorter
  <1>2. ASSUME NEW T PROVE Before(q, i + 1, T) <=> Head(q).t \in T \/ Before(r, i, T)
    <2>1. Head(q).t \in T => Before(q, i + 1, T)
      BY <1>1 DEF Before
    <2>2. Before(r, i, T) => Before(q, i + 1, T)
      BY <1>1, Shorter DEF Before
    <2>3. ASSUME NEW l \in DOMAIN q, l < i + 1, q[l].t \in T, l # 1 PROVE Before(r, i, T)
      <3>1. l \in Nat /\ l - 1 \in DOMAIN r /\ r[l - 1] = q[l]
        BY <2>3, Shorter
      <3> QED
        BY <1>1, <2>3, <3>1 DEF Before
    <2> QED
      BY <1>1, <2>1, <2>2, <2>3 DEF Before
  <1>3. ~Before(q, i + 1, {"DISCONNECT"})
    BY <1>2
  <1>4. r[i].keys = IF Before(q, i + 1, {"NEWKEYS"}) THEN k + 1 ELSE k
    BY <1>1, <1>3 DEF Keyed
  <1>5. Head(q).t = "NEWKEYS" => ~Before(r, i, {"NEWKEYS"})
    BY <1>1, Shorter DEF Before
  <1> QED
    BY <1>2, <1>4, <1>5

-----------------------------------------------------------------------------
(* What the client's handlers do, told field by field: s is the state a     *)
(* handler finds, t the one it leaves, e the packets it sends.              *)

KexKept(s, t) ==
    /\ t.kex = s.kex /\ t.kind = s.kind /\ t.derived = s.derived
    /\ t.inKeys = s.inKeys /\ t.outKeys = s.outKeys
    /\ t.hostOK = s.hostOK /\ t.nameOK = s.nameOK /\ t.success = s.success
UserKept(s, t) ==
    /\ t.listFirst = s.listFirst /\ t.listAsked = s.listAsked /\ t.method = s.method
    /\ t.tryed = s.tryed /\ t.retried = s.retried /\ t.tis = s.tis
LinkKept(s, t) == t.link = s.link /\ t.why = s.why
DlgKept(s, t) == t.hostDlg = s.hostDlg /\ t.authDlg = s.authDlg

Own(s, t, what, n) == Packet(t, what, n, s.outKeys, FALSE)
Speaks(s, e, t, what, n) == e = <<Own(s, t, what, n)>>

\* The state of a handler that runs: nothing is sent yet.
Ready == {s \in ClientState : s.out = <<>>}

\* The connection is left, once.
Departs(s, t, e) ==
    /\ KexKept(s, t) /\ UserKept(s, t) /\ t.enabled = s.enabled
    /\ t.hostDlg \in {s.hostDlg, "none"} /\ t.authDlg \in {s.authDlg, "none"}
    /\ IF s.why = "none" THEN t.why # "none" /\ t.link = "closing" /\ Speaks(s, e, "DISCONNECT", "", 0)
       ELSE LinkKept(s, t) /\ e = <<>>

\* AUTH_advance_to_next_cred
Advances(s, t) == t.authDlg = (IF s.authDlg = "open" THEN "open" ELSE "posted") /\ t.method = "none"

\* do_SSH2_authrequest for a method, when the list of methods is known.
AuthSent(s, t, e) ==
    \/ e = <<>> /\ t.enabled = s.enabled
    \/ \E w \in {"keyboard", "query"} :
         /\ e = <<Own(s, "AUTH", w, 0)>> /\ t.enabled = s.enabled \cup {"60"}
         /\ t.method = IF w = "query" THEN "pageant" ELSE "keyboard"
    \/ \E w \in {"signed", "password"} :
         /\ e = <<Own(s, "AUTH", w, 0)>> /\ t.enabled = s.enabled
         /\ t.method = IF w = "signed" THEN "publickey" ELSE "password"

LEMMA OneOf ==
    ASSUME NEW S, NEW x \in S
    PROVE  <<x>> \in Seq(S) /\ <<>> \o <<x>> = <<x>> /\ DOMAIN <<x>> = {1} /\ <<x>>[1] = x
  OBVIOUS

LEMMA OwnSaid ==
    ASSUME NEW s \in ClientState, NEW t \in ClientTypes, NEW what \in Whats, NEW n \in Prompts \cup {0}
    PROVE  Own(s, t, what, n) \in Said /\ <<Own(s, t, what, n)>> \in Seq(Said)
  <1>1. Own(s, t, what, n) \in Said
    BY DEF Own, Packet, Said, ClientState
  <1> QED
    BY <1>1, OneOf

LEMMA SendIn ==
    ASSUME NEW s \in ClientState, NEW t \in ClientTypes, NEW what \in Whats, NEW n \in Prompts \cup {0}
    PROVE  /\ Send(s, t, what, n) \in ClientState
           /\ Send(s, t, what, n).out = s.out \o <<Own(s, t, what, n)>>
  <1>1. Own(s, t, what, n) \in Said /\ <<Own(s, t, what, n)>> \in Seq(Said)
    BY OwnSaid
  <1>2. s.out \in Seq(Said)
    BY DEF ClientState
  <1>3. Append(s.out, Own(s, t, what, n)) \in Seq(Said)
    BY <1>1, <1>2, AppendProperties
  <1>4. Append(s.out, Own(s, t, what, n)) = s.out \o <<Own(s, t, what, n)>>
    BY <1>1, <1>2, AppendIsConcat
  <1> DEFINE o == Append(s.out, Own(s, t, what, n))
  <1> HIDE DEF o
  <1>5. Send(s, t, what, n) = [s EXCEPT !.out = o]
    BY DEF Send, Own, o
  <1>6. o \in Seq(Said)
    BY <1>3 DEF o
  <1>7. [s EXCEPT !.out = o] \in ClientState /\ [s EXCEPT !.out = o].out = o
    BY <1>6 DEF ClientState
  <1> QED
    BY <1>4, <1>5, <1>7 DEF o

LEMMA SendFirst ==
    ASSUME NEW s \in Ready, NEW t \in ClientTypes, NEW what \in Whats, NEW n \in Prompts \cup {0}
    PROVE  /\ Send(s, t, what, n) \in ClientState
           /\ Send(s, t, what, n).out = <<Own(s, t, what, n)>>
  <1>1. s \in ClientState /\ s.out = <<>>
    BY DEF Ready
  <1>2. /\ Send(s, t, what, n) \in ClientState
        /\ Send(s, t, what, n).out = s.out \o <<Own(s, t, what, n)>>
    BY <1>1, SendIn
  <1>3. <<>> \o <<Own(s, t, what, n)>> = <<Own(s, t, what, n)>>
    BY <1>1, OwnSaid, OneOf
  <1> QED
    BY <1>1, <1>2, <1>3

LEMMA LeavingDoes ==
    ASSUME NEW s \in Ready, NEW why \in {"user", "kex", "server", "unexpected"}, NEW t, t = Leaving(s, why)
    PROVE  /\ t \in ClientState /\ Departs(s, t, t.out)
           /\ t.handles60 = s.handles60 /\ t.payload = s.payload
           /\ t.why \in {s.why, why}
  <1>1. CASE s.why # "none"
    BY <1>1 DEF Leaving, Departs, Ready, KexKept, UserKept, LinkKept
  <1>2. CASE s.why = "none"
    <2>1. "DISCONNECT" \in ClientTypes /\ "" \in Whats /\ 0 \in Prompts \cup {0}
      BY DEF ClientTypes, Whats
    <2>2. PICK u \in ClientState : u = Send(s, "DISCONNECT", "", 0) /\ u.out = <<Own(s, "DISCONNECT", "", 0)>>
      BY <2>1, SendFirst
    <2>3. /\ KexKept(s, u) /\ UserKept(s, u) /\ u.enabled = s.enabled /\ DlgKept(s, u)
          /\ u.handles60 = s.handles60 /\ u.payload = s.payload
      BY ZenonT(40), <2>2 DEF Send, Ready, ClientState, KexKept, UserKept, DlgKept
    <2>4. PICK a \in Shown : a = IF u.authDlg = "open" THEN "none" ELSE u.authDlg
      BY DEF ClientState, Shown
    <2>5. PICK h \in Shown : h = IF u.hostDlg = "open" THEN "none" ELSE u.hostDlg
      BY DEF ClientState, Shown
    <2>6. t = [u EXCEPT !.why = why, !.link = "closing", !.authDlg = a, !.hostDlg = h]
      BY <1>2, <2>2, <2>4, <2>5 DEF Leaving
    <2>7. t \in ClientState
      <3>1. [u EXCEPT !.why = why, !.link = "closing", !.authDlg = a, !.hostDlg = h] \in ClientState
        BY DEF ClientState
      <3> QED
        BY <2>6, <3>1
    <2>8. /\ KexKept(u, t) /\ UserKept(u, t) /\ t.enabled = u.enabled
          /\ t.handles60 = u.handles60 /\ t.payload = u.payload
          /\ t.why = why /\ t.link = "closing" /\ t.out = u.out
          /\ t.hostDlg \in {u.hostDlg, "none"} /\ t.authDlg \in {u.authDlg, "none"}
      BY <2>4, <2>5, <2>6 DEF ClientState, KexKept, UserKept
    <2> QED
      <3>1. KexKept(s, t)
        BY <2>3, <2>8 DEF KexKept
      <3>2. UserKept(s, t)
        BY <2>3, <2>8 DEF UserKept
      <3> QED
        BY <1>2, <2>2, <2>3, <2>7, <2>8, <3>1, <3>2 DEF Departs, DlgKept, Speaks
  <1> QED
    BY <1>1, <1>2

\* Everything but what is enabled, and what is sent.
Kept(s, t) ==
    /\ KexKept(s, t) /\ UserKept(s, t) /\ LinkKept(s, t) /\ DlgKept(s, t)
    /\ t.handles60 = s.handles60

LEMMA SendKeeps ==
    ASSUME NEW s \in ClientState, NEW t, NEW what, NEW n
    PROVE  Kept(s, Send(s, t, what, n)) /\ Send(s, t, what, n).enabled = s.enabled
  BY DEF Send, ClientState, Kept, KexKept, UserKept, LinkKept, DlgKept

LEMMA KeptTwice ==
    ASSUME NEW s, NEW t, NEW u, Kept(s, t), Kept(t, u)
    PROVE  Kept(s, u)
  BY DEF Kept, KexKept, UserKept, LinkKept, DlgKept

LEMMA EnablingDoes ==
    ASSUME NEW s \in Ready, NEW msgs \in SUBSET Types
    PROVE  /\ Enabling(s, msgs) \in Ready /\ Kept(s, Enabling(s, msgs))
           /\ Enabling(s, msgs).enabled = s.enabled \cup msgs
  <1>1. s \in ClientState /\ s.out = <<>> /\ s.enabled \cup msgs \in SUBSET Types
    BY DEF Ready, ClientState
  <1>2. PICK e \in SUBSET Types : e = s.enabled \cup msgs
    BY <1>1
  <1>3. [s EXCEPT !.enabled = e] \in ClientState
    BY <1>1 DEF ClientState
  <1>4. /\ Kept(s, [s EXCEPT !.enabled = e]) /\ [s EXCEPT !.enabled = e].enabled = e
        /\ [s EXCEPT !.enabled = e].out = <<>>
    BY <1>1 DEF ClientState, Kept, KexKept, UserKept, LinkKept, DlgKept
  <1>5. Enabling(s, msgs) = [s EXCEPT !.enabled = e]
    BY <1>2 DEF Enabling
  <1> QED
    BY <1>2, <1>3, <1>4, <1>5 DEF Ready

LEMMA DispatchDoes ==
    ASSUME NEW s \in ClientState, NEW msgs \in SUBSET Types
    PROVE  /\ Dispatch(s, msgs) \in ClientState /\ Kept(s, Dispatch(s, msgs))
           /\ Dispatch(s, msgs).enabled = Always \cup msgs /\ Dispatch(s, msgs).out = s.out
  <1>2. PICK e \in SUBSET Types : e = Always \cup msgs
    BY DEF Types
  <1>3. [s EXCEPT !.enabled = e] \in ClientState
    BY DEF ClientState
  <1>4. /\ Kept(s, [s EXCEPT !.enabled = e]) /\ [s EXCEPT !.enabled = e].enabled = e
        /\ [s EXCEPT !.enabled = e].out = s.out
    BY DEF ClientState, Kept, KexKept, UserKept, LinkKept, DlgKept
  <1>5. Dispatch(s, msgs) = [s EXCEPT !.enabled = e]
    BY <1>2 DEF Dispatch
  <1> QED
    BY <1>2, <1>3, <1>4, <1>5

\* do_SSH2_authrequest
LEMMA AuthRequestDoes ==
    ASSUME NEW s \in Ready
    PROVE  /\ AuthRequest(s) \in ClientState /\ Kept(s, AuthRequest(s))
           /\ IF s.tryed THEN AuthSent(s, AuthRequest(s), AuthRequest(s).out)
              ELSE AuthRequest(s).out = <<Own(s, "AUTH", "none", 0)>> /\ AuthRequest(s).enabled = s.enabled
  <1>0. /\ s \in ClientState /\ s.out = <<>> /\ s.tryed \in BOOLEAN
        /\ "AUTH" \in ClientTypes /\ 0 \in Prompts \cup {0} /\ {"60"} \in SUBSET Types
        /\ {"none", "keyboard", "query", "signed", "password"} \subseteq Whats
    BY DEF Ready, ClientState, ClientTypes, Whats, Types
  <1>1. ASSUME NEW what \in {"none", "keyboard", "query", "signed", "password"}, NEW u \in Ready,
               Kept(s, u)
        PROVE  /\ Send(u, "AUTH", what, 0) \in ClientState /\ Kept(s, Send(u, "AUTH", what, 0))
               /\ Send(u, "AUTH", what, 0).out = <<Own(s, "AUTH", what, 0)>>
               /\ Send(u, "AUTH", what, 0).enabled = u.enabled
    <2>1. u \in ClientState /\ what \in Whats
      BY <1>0 DEF Ready
    <2>2. Own(u, "AUTH", what, 0) = Own(s, "AUTH", what, 0)
      BY <1>1 DEF Own, Kept, KexKept
    <2>3. Send(u, "AUTH", what, 0) \in ClientState /\ Send(u, "AUTH", what, 0).out = <<Own(u, "AUTH", what, 0)>>
      BY <1>0, <2>1, SendFirst
    <2> QED
      BY <1>1, <2>1, <2>2, <2>3, SendKeeps, KeptTwice
  <1>2. Kept(s, s)
    BY DEF Kept, KexKept, UserKept, LinkKept, DlgKept
  <1>3. CASE ~s.tryed
    <2>1. AuthRequest(s) = Send(s, "AUTH", "none", 0)
      BY <1>3 DEF AuthRequest
    <2> QED
      BY <1>1, <1>2, <1>3, <2>1
  <1>4. CASE s.tryed /\ s.method = "keyboard"
    <2>1. AuthRequest(s) = Send(Enabling(s, {"60"}), "AUTH", "keyboard", 0)
      BY <1>4 DEF AuthRequest
    <2>2. Enabling(s, {"60"}) \in Ready /\ Kept(s, Enabling(s, {"60"})) /\ Enabling(s, {"60"}).enabled = s.enabled \cup {"60"}
      BY <1>0, EnablingDoes
    <2>3. /\ AuthRequest(s) \in ClientState /\ Kept(s, AuthRequest(s))
          /\ AuthRequest(s).out = <<Own(s, "AUTH", "keyboard", 0)>> /\ AuthRequest(s).enabled = s.enabled \cup {"60"}
      BY <1>1, <2>1, <2>2
    <2> QED
      BY <1>4, <2>3 DEF AuthSent, Kept, UserKept
  <1>5. CASE s.tryed /\ s.method = "pageant"
    <2>1. AuthRequest(s) = Send(Enabling([s EXCEPT !.keyAt = @ + 1], {"60"}), "AUTH", "query", 0)
      BY <1>5 DEF AuthRequest
    <2>2. PICK k \in Nat : k = s.keyAt + 1
      BY <1>0 DEF ClientState
    <2>3. [s EXCEPT !.keyAt = k] \in ClientState
      BY <1>0 DEF ClientState
    <2>4. [s EXCEPT !.keyAt = k].out = <<>> /\ Kept(s, [s EXCEPT !.keyAt = k]) /\ [s EXCEPT !.keyAt = k].enabled = s.enabled
      BY <1>0 DEF ClientState, Kept, KexKept, UserKept, LinkKept, DlgKept
    <2>5. PICK v \in Ready : v = [s EXCEPT !.keyAt = @ + 1] /\ Kept(s, v) /\ v.enabled = s.enabled
      BY <2>2, <2>3, <2>4 DEF Ready
    <2>6. Enabling(v, {"60"}) \in Ready /\ Kept(v, Enabling(v, {"60"})) /\ Enabling(v, {"60"}).enabled = s.enabled \cup {"60"}
      BY <1>0, <2>5, EnablingDoes
    <2>7. Kept(s, Enabling(v, {"60"}))
      BY <2>5, <2>6, KeptTwice
    <2>8. AuthRequest(s) = Send(Enabling(v, {"60"}), "AUTH", "query", 0)
      BY <2>1, <2>5
    <2>9. /\ AuthRequest(s) \in ClientState /\ Kept(s, AuthRequest(s))
          /\ AuthRequest(s).out = <<Own(s, "AUTH", "query", 0)>> /\ AuthRequest(s).enabled = s.enabled \cup {"60"}
      BY <1>1, <2>6, <2>7, <2>8
    <2> QED
      BY <1>5, <2>9 DEF AuthSent, Kept, UserKept
  <1>6. CASE s.tryed /\ s.method = "publickey"
    <2>1. AuthRequest(s) = Send(s, "AUTH", "signed", 0)
      BY <1>6 DEF AuthRequest
    <2>2. /\ AuthRequest(s) \in ClientState /\ Kept(s, AuthRequest(s))
          /\ AuthRequest(s).out = <<Own(s, "AUTH", "signed", 0)>> /\ AuthRequest(s).enabled = s.enabled
      BY <1>0, <1>1, <1>2, <2>1
    <2> QED
      BY <1>6, <2>2 DEF AuthSent, Kept, UserKept
  <1>7. CASE s.tryed /\ s.method = "password"
    <2>1. AuthRequest(s) = Send(s, "AUTH", "password", 0)
      BY <1>7 DEF AuthRequest
    <2>2. /\ AuthRequest(s) \in ClientState /\ Kept(s, AuthRequest(s))
          /\ AuthRequest(s).out = <<Own(s, "AUTH", "password", 0)>> /\ AuthRequest(s).enabled = s.enabled
      BY <1>0, <1>1, <1>2, <2>1
    <2> QED
      BY <1>7, <2>2 DEF AuthSent, Kept, UserKept
  <1>8. CASE s.tryed /\ s.method \notin {"keyboard", "pageant", "publickey", "password"}
    <2>1. AuthRequest(s) = s
      BY <1>8 DEF AuthRequest
    <2> QED
      BY <1>0, <1>2, <1>8, <2>1 DEF AuthSent
  <1> QED
    BY <1>0, <1>3, <1>4, <1>5, <1>6, <1>7, <1>8

\* do_SSH2_userauth
LEMMA UserauthDoes ==
    ASSUME NEW s \in Ready
    PROVE  /\ Userauth(s) \in ClientState /\ Kept(s, Userauth(s))
           /\ IF s.tryed THEN AuthSent(s, Userauth(s), Userauth(s).out)
              ELSE ~(s.retried > 0) =>
                     /\ Userauth(s).out = <<Own(s, "SERVICE_REQUEST", "", 0)>>
                     /\ Userauth(s).enabled = Always \cup {"SERVICE_ACCEPT"}
  <1>0. /\ s \in ClientState /\ s.out = <<>> /\ s.tryed \in BOOLEAN /\ s.retried \in Nat
        /\ "SERVICE_REQUEST" \in ClientTypes /\ 0 \in Prompts \cup {0} /\ {"SERVICE_ACCEPT"} \in SUBSET Types
        /\ "" \in Whats
    BY DEF Ready, ClientState, ClientTypes, Whats, Types
  <1>1. [s EXCEPT !.typed = FALSE] \in ClientState
    BY <1>0 DEF ClientState
  <1>2. /\ [s EXCEPT !.typed = FALSE].out = <<>> /\ Kept(s, [s EXCEPT !.typed = FALSE])
        /\ [s EXCEPT !.typed = FALSE].enabled = s.enabled
    BY <1>0 DEF ClientState, Kept, KexKept, UserKept, LinkKept, DlgKept
  <1>3. PICK u \in Ready : u = [s EXCEPT !.typed = FALSE] /\ Kept(s, u) /\ u.enabled = s.enabled
    BY <1>1, <1>2 DEF Ready
  <1>4. u.tryed = s.tryed /\ u.method = s.method /\ u.outKeys = s.outKeys
    BY <1>3 DEF Kept, UserKept, KexKept
  <1>5. Userauth(s) = IF s.retried > 0 \/ s.tryed THEN AuthRequest(u)
                      ELSE Dispatch(Send(u, "SERVICE_REQUEST", "", 0), {"SERVICE_ACCEPT"})
    BY <1>3 DEF Userauth
  <1>6. CASE s.retried > 0 \/ s.tryed
    <2>1. Userauth(s) = AuthRequest(u)
      BY <1>5, <1>6
    <2>2. /\ AuthRequest(u) \in ClientState /\ Kept(u, AuthRequest(u))
          /\ s.tryed => AuthSent(u, AuthRequest(u), AuthRequest(u).out)
      BY <1>4, AuthRequestDoes
    <2>3. AuthSent(u, AuthRequest(u), AuthRequest(u).out) => AuthSent(s, AuthRequest(u), AuthRequest(u).out)
      BY <1>3, <1>4 DEF AuthSent, Own
    <2>4. Kept(s, AuthRequest(u))
      BY <1>3, <2>2, KeptTwice
    <2> QED
      BY <1>6, <2>1, <2>2, <2>3, <2>4
  <1>7. CASE ~(s.retried > 0 \/ s.tryed)
    <2>1. PICK v \in ClientState : v = Send(u, "SERVICE_REQUEST", "", 0) /\ v.out = <<Own(s, "SERVICE_REQUEST", "", 0)>> /\ Kept(s, v)
      <3>1. u \in ClientState /\ Own(u, "SERVICE_REQUEST", "", 0) = Own(s, "SERVICE_REQUEST", "", 0)
        BY <1>4 DEF Ready, Own
      <3>2. Send(u, "SERVICE_REQUEST", "", 0) \in ClientState /\ Send(u, "SERVICE_REQUEST", "", 0).out = <<Own(u, "SERVICE_REQUEST", "", 0)>>
        BY <1>0, SendFirst
      <3> QED
        BY <1>3, <3>1, <3>2, SendKeeps, KeptTwice
    <2>2. Userauth(s) = Dispatch(v, {"SERVICE_ACCEPT"})
      BY <1>5, <1>7, <2>1
    <2>3. /\ Dispatch(v, {"SERVICE_ACCEPT"}) \in ClientState /\ Kept(v, Dispatch(v, {"SERVICE_ACCEPT"}))
          /\ Dispatch(v, {"SERVICE_ACCEPT"}).enabled = Always \cup {"SERVICE_ACCEPT"}
          /\ Dispatch(v, {"SERVICE_ACCEPT"}).out = v.out
      BY <1>0, DispatchDoes
    <2>4. Kept(s, Dispatch(v, {"SERVICE_ACCEPT"}))
      BY <2>1, <2>3, KeptTwice
    <2> QED
      BY <1>7, <2>1, <2>2, <2>3, <2>4
  <1> QED
    BY <1>6, <1>7

\* handle_SSH2_service_accept, before the list of methods is known.
LEMMA ServiceAcceptDoes ==
    ASSUME NEW s \in Ready, ~s.tryed
    PROVE  /\ ServiceAccept(s) \in ClientState /\ Kept(s, ServiceAccept(s))
           /\ ServiceAccept(s).out = <<Own(s, "AUTH", "none", 0)>>
           /\ Auth \subseteq ServiceAccept(s).enabled /\ "NEWKEYS" \notin ServiceAccept(s).enabled
  <1>1. PICK msgs \in SUBSET Types :
          msgs = {"SUCCESS", "FAILURE", "BANNER"} \cup
                 (IF s.method \in {"keyboard", "pageant", "password"} THEN {"60"} ELSE {})
    BY DEF Types
  <1>2. s \in ClientState /\ s.out = <<>>
    BY DEF Ready
  <1>3. PICK u \in Ready : u = Dispatch(s, msgs) /\ Kept(s, u) /\ u.enabled = Always \cup msgs
    BY <1>2, DispatchDoes DEF Ready
  <1>4. ServiceAccept(s) = AuthRequest(u)
    BY <1>1, <1>3 DEF ServiceAccept
  <1>5. ~u.tryed /\ u.outKeys = s.outKeys
    BY <1>3 DEF Kept, UserKept, KexKept
  <1>6. /\ AuthRequest(u) \in ClientState /\ Kept(u, AuthRequest(u))
        /\ AuthRequest(u).out = <<Own(u, "AUTH", "none", 0)>> /\ AuthRequest(u).enabled = u.enabled
    BY <1>5, AuthRequestDoes
  <1>7. Kept(s, AuthRequest(u))
    BY <1>3, <1>6, KeptTwice
  <1>8. Auth \subseteq u.enabled /\ "NEWKEYS" \notin u.enabled
    BY <1>1, <1>3 DEF Auth, Always
  <1>9. Own(u, "AUTH", "none", 0) = Own(s, "AUTH", "none", 0)
    BY <1>5 DEF Own
  <1> QED
    BY <1>4, <1>6, <1>7, <1>8, <1>9

\* Some field of the user's authentication changes; the rest is kept.
RestKept(s, t) ==
    /\ KexKept(s, t) /\ LinkKept(s, t) /\ t.hostDlg = s.hostDlg
    /\ t.listFirst = s.listFirst /\ t.listAsked = s.listAsked

\* handle_SSH2_userauth_failure: the answer to "none".
FirstFailure(s, t, e) ==
    /\ RestKept(s, t) /\ t.authDlg = s.authDlg /\ t.handles60 = s.handles60
    /\ t.tryed /\ t.method = s.method /\ t.retried = s.retried /\ t.tis = s.tis
    /\ AuthSent(s, t, e)
\* The next key of the agent is tried.
NextKey(s, t, e) ==
    Kept(s, t) /\ s.tryed /\ AuthSent(s, t, e)
\* The user is asked again.
AskedAgain(s, t, e) ==
    /\ RestKept(s, t) /\ t.handles60 = s.handles60 /\ t.enabled = s.enabled
    /\ Advances(s, t)
    /\ s.tryed /\ t.tryed /\ t.retried = s.retried + 1 /\ ~t.tis /\ e = <<>>

LEMMA FailureDoes ==
    ASSUME NEW s \in Ready, NEW t, t = UserauthFailure(s)
    PROVE  /\ t \in ClientState
           /\ \/ ~s.tryed /\ FirstFailure(s, t, t.out)
              \/ NextKey(s, t, t.out)
              \/ AskedAgain(s, t, t.out)
  <1>0. s \in ClientState /\ s.out = <<>> /\ s.tryed \in BOOLEAN /\ s.retried \in Nat /\ s.keyFinal \in BOOLEAN
    BY DEF Ready, ClientState
  <1>1. CASE ~s.tryed
    <2>1. [s EXCEPT !.tryed = TRUE] \in ClientState
      BY <1>0 DEF ClientState
    <2>2. /\ [s EXCEPT !.tryed = TRUE].out = <<>> /\ RestKept(s, [s EXCEPT !.tryed = TRUE])
          /\ [s EXCEPT !.tryed = TRUE].authDlg = s.authDlg /\ [s EXCEPT !.tryed = TRUE].handles60 = s.handles60
          /\ [s EXCEPT !.tryed = TRUE].tryed /\ [s EXCEPT !.tryed = TRUE].method = s.method
          /\ [s EXCEPT !.tryed = TRUE].retried = s.retried /\ [s EXCEPT !.tryed = TRUE].tis = s.tis
          /\ [s EXCEPT !.tryed = TRUE].enabled = s.enabled
      BY <1>0 DEF ClientState, RestKept, KexKept, LinkKept
    <2>3. PICK u \in Ready : /\ u = [s EXCEPT !.tryed = TRUE] /\ RestKept(s, u)
                             /\ u.authDlg = s.authDlg /\ u.handles60 = s.handles60
                             /\ u.tryed /\ u.method = s.method /\ u.retried = s.retried /\ u.tis = s.tis
                             /\ u.enabled = s.enabled
      BY <2>1, <2>2 DEF Ready
    <2>4. t = AuthRequest(u)
      BY <1>1, <2>3 DEF UserauthFailure
    <2>5. t \in ClientState /\ Kept(u, t) /\ AuthSent(u, t, t.out)
      BY <2>3, <2>4, AuthRequestDoes
    <2>6. AuthSent(s, t, t.out)
      BY <2>3, <2>5 DEF AuthSent, Own, RestKept, KexKept
    <2>7. FirstFailure(s, t, t.out)
      BY <2>3, <2>5, <2>6 DEF FirstFailure, Kept, RestKept, KexKept, LinkKept, UserKept, DlgKept
    <2> QED
      BY <1>1, <2>5, <2>7
  <1>2. CASE s.tryed /\ s.method = "pageant" /\ s.keyAt < KeyCount /\ ~s.keyFinal
    <2>1. t = AuthRequest(s)
      BY <1>2 DEF UserauthFailure
    <2> QED
      BY <1>2, <2>1, AuthRequestDoes DEF NextKey
  <1>3. CASE s.tryed /\ ~(s.method = "pageant" /\ s.keyAt < KeyCount /\ ~s.keyFinal)
    <2>1. PICK n \in Nat : n = s.retried + 1
      BY <1>0
    <2>2. [s EXCEPT !.retried = n, !.tis = FALSE] \in ClientState
      BY <1>0 DEF ClientState
    <2>3. PICK u \in ClientState : u = [s EXCEPT !.retried = n, !.tis = FALSE]
      BY <2>2
    <2>4. t = AdvanceToNextCred(u)
      BY <1>3, <2>1, <2>3 DEF UserauthFailure
    <2>5. /\ RestKept(s, u) /\ u.handles60 = s.handles60 /\ u.enabled = s.enabled /\ u.out = <<>>
          /\ u.authDlg = s.authDlg /\ u.tryed = s.tryed /\ u.retried = n /\ u.tis = FALSE
      BY <1>0, <2>3 DEF ClientState, RestKept, KexKept, LinkKept
    <2>6. PICK a \in Shown : a = IF u.authDlg = "open" THEN "open" ELSE "posted"
      BY DEF Shown
    <2>7. [u EXCEPT !.authDlg = a, !.method = "none"] \in ClientState
      BY DEF ClientState
    <2>8. PICK v \in ClientState : v = [u EXCEPT !.authDlg = a, !.method = "none"]
      BY <2>7
    <2>9. /\ RestKept(u, v) /\ v.handles60 = u.handles60 /\ v.enabled = u.enabled /\ v.out = u.out
          /\ v.authDlg = a /\ v.method = "none" /\ v.tryed = u.tryed /\ v.retried = u.retried /\ v.tis = u.tis
      BY <2>8 DEF ClientState, RestKept, KexKept, LinkKept
    <2>10. t = v
      BY <2>4, <2>6, <2>8 DEF AdvanceToNextCred
    <2>11. AskedAgain(s, v, v.out)
      BY <1>3, <2>1, <2>5, <2>6, <2>9 DEF AskedAgain, Advances, RestKept, KexKept, LinkKept
    <2> QED
      BY <2>10, <2>11
  <1> QED
    BY <1>0, <1>1, <1>2, <1>3

\* handle_SSH2_userauth_success
LoggedIn(s, t, e) ==
    /\ UserKept(s, t) /\ LinkKept(s, t) /\ DlgKept(s, t) /\ t.handles60 = s.handles60
    /\ t.kind = s.kind /\ t.derived = s.derived /\ t.inKeys = s.inKeys /\ t.outKeys = s.outKeys
    /\ t.hostOK = s.hostOK /\ t.nameOK = s.nameOK
    /\ t.success /\ t.kex = {"done"} /\ t.enabled = Always \cup Transfer
    /\ e = <<Own(s, "OPEN", "session", 0)>>

LEMMA SuccessDoes ==
    ASSUME NEW s \in Ready, NEW t, t = UserauthSuccess(s)
    PROVE  t \in ClientState /\ LoggedIn(s, t, t.out)
  <1>0. s \in ClientState /\ s.out = <<>>
    BY DEF Ready
  <1>1. [s EXCEPT !.success = TRUE, !.kex = {"done"}] \in ClientState
    BY <1>0 DEF ClientState
  <1>2. PICK u \in ClientState : u = [s EXCEPT !.success = TRUE, !.kex = {"done"}]
    BY <1>1
  <1>3. /\ UserKept(s, u) /\ LinkKept(s, u) /\ DlgKept(s, u) /\ u.handles60 = s.handles60
        /\ u.kind = s.kind /\ u.derived = s.derived /\ u.inKeys = s.inKeys /\ u.outKeys = s.outKeys
        /\ u.hostOK = s.hostOK /\ u.nameOK = s.nameOK
        /\ u.success /\ u.kex = {"done"} /\ u.out = <<>>
    BY <1>0, <1>2 DEF ClientState, UserKept, LinkKept, DlgKept
  <1>4. PICK v \in Ready : v = Dispatch(u, Transfer) /\ Kept(u, v) /\ v.enabled = Always \cup Transfer
    <2>1. Transfer \in SUBSET Types
      BY DEF Types
    <2> QED
      BY <1>3, <2>1, DispatchDoes DEF Ready
  <1>5. t = Send(v, "OPEN", "session", 0)
    BY <1>2, <1>4 DEF UserauthSuccess
  <1>6. t \in ClientState /\ t.out = <<Own(v, "OPEN", "session", 0)>> /\ Kept(v, t) /\ t.enabled = v.enabled
    <2>1. v \in ClientState /\ "OPEN" \in ClientTypes /\ "session" \in Whats /\ 0 \in Prompts \cup {0}
      BY DEF Ready, ClientTypes, Whats
    <2> QED
      BY <1>5, <2>1, SendFirst, SendKeeps
  <1>7. Own(v, "OPEN", "session", 0) = Own(s, "OPEN", "session", 0)
    BY <1>3, <1>4 DEF Own, Kept, KexKept
  <1> QED
    BY <1>3, <1>4, <1>6, <1>7 DEF LoggedIn, Kept, KexKept, UserKept, LinkKept, DlgKept

\* handle_SSH2_userauth_inforeq: the prompts are answered, or the dialog is shown.
Responds(s, t, e) ==
    Kept(s, t) /\ t.enabled = s.enabled /\ e = <<Own(s, "INFO_RESPONSE", "", s.payload.n)>>
ShowsPrompts(s, t, e) ==
    /\ RestKept(s, t) /\ t.handles60 = s.handles60 /\ t.enabled = s.enabled
    /\ Advances(s, t)
    /\ t.tryed = s.tryed /\ t.retried = s.retried /\ t.tis /\ t.payload = s.payload /\ e = <<>>

LEMMA InfoReqDoes ==
    ASSUME NEW s \in Ready, NEW t, t = InfoReq(s)
    PROVE  t \in ClientState /\ (Responds(s, t, t.out) \/ ShowsPrompts(s, t, t.out))
  <1>0. s \in ClientState /\ s.out = <<>> /\ s.payload.n \in Prompts \cup {0}
    BY DEF Ready, ClientState, Told
  <1>1. CASE s.payload.n = 0 \/ (s.payload.n = 1 /\ s.typed)
    <2>1. [s EXCEPT !.typed = FALSE] \in ClientState
      BY <1>0 DEF ClientState
    <2>2. /\ [s EXCEPT !.typed = FALSE].out = <<>> /\ Kept(s, [s EXCEPT !.typed = FALSE])
          /\ [s EXCEPT !.typed = FALSE].enabled = s.enabled
      BY <1>0 DEF ClientState, Kept, KexKept, UserKept, LinkKept, DlgKept
    <2>3. PICK u \in Ready : u = [s EXCEPT !.typed = FALSE] /\ Kept(s, u) /\ u.enabled = s.enabled
      BY <2>1, <2>2 DEF Ready
    <2>4. t = Send(u, "INFO_RESPONSE", "", s.payload.n)
      BY <1>1, <2>3 DEF InfoReq
    <2>5. u \in ClientState /\ "INFO_RESPONSE" \in ClientTypes /\ "" \in Whats
      BY DEF Ready, ClientTypes, Whats
    <2>6. t \in ClientState /\ t.out = <<Own(u, "INFO_RESPONSE", "", s.payload.n)>> /\ Kept(u, t) /\ t.enabled = u.enabled
      <3>1. PICK n \in Prompts \cup {0} : n = s.payload.n
        BY <1>0
      <3>2. Send(u, "INFO_RESPONSE", "", n) \in ClientState /\ Send(u, "INFO_RESPONSE", "", n).out = <<Own(u, "INFO_RESPONSE", "", n)>>
        BY <2>5, SendFirst
      <3>3. t = Send(u, "INFO_RESPONSE", "", n)
        BY <2>4, <3>1
      <3>4. Kept(u, Send(u, "INFO_RESPONSE", "", n)) /\ Send(u, "INFO_RESPONSE", "", n).enabled = u.enabled
        BY <2>5, SendKeeps
      <3> QED
        BY <3>1, <3>2, <3>3, <3>4
    <2>7. Own(u, "INFO_RESPONSE", "", s.payload.n) = Own(s, "INFO_RESPONSE", "", s.payload.n)
      BY <2>3 DEF Own, Kept, KexKept
    <2>8. Kept(s, t)
      BY <2>3, <2>6, KeptTwice
    <2> QED
      BY <2>3, <2>6, <2>7, <2>8 DEF Responds
  <1>2. CASE ~(s.payload.n = 0 \/ (s.payload.n = 1 /\ s.typed))
    <2>1. [s EXCEPT !.typed = FALSE, !.tis = TRUE] \in ClientState
      BY <1>0 DEF ClientState
    <2>2. PICK u \in ClientState : u = [s EXCEPT !.typed = FALSE, !.tis = TRUE]
      BY <2>1
    <2>3. /\ RestKept(s, u) /\ u.handles60 = s.handles60 /\ u.enabled = s.enabled /\ u.out = <<>>
          /\ u.authDlg = s.authDlg /\ u.tryed = s.tryed /\ u.retried = s.retried /\ u.tis /\ u.payload = s.payload
      BY <1>0, <2>2 DEF ClientState, RestKept, KexKept, LinkKept
    <2>4. t = AdvanceToNextCred(u)
      BY <1>2, <2>2 DEF InfoReq
    <2>5. PICK a \in Shown : a = IF u.authDlg = "open" THEN "open" ELSE "posted"
      BY DEF Shown
    <2>6. [u EXCEPT !.authDlg = a, !.method = "none"] \in ClientState
      BY DEF ClientState
    <2>7. PICK v \in ClientState : v = [u EXCEPT !.authDlg = a, !.method = "none"]
      BY <2>6
    <2>8. /\ RestKept(u, v) /\ v.handles60 = u.handles60 /\ v.enabled = u.enabled /\ v.out = u.out
          /\ v.authDlg = a /\ v.method = "none" /\ v.tryed = u.tryed /\ v.retried = u.retried /\ v.tis = u.tis /\ v.payload = u.payload
      BY <2>7 DEF ClientState, RestKept, KexKept, LinkKept
    <2>9. t = v
      BY <2>4, <2>5, <2>7 DEF AdvanceToNextCred
    <2>10. ShowsPrompts(s, v, v.out)
      BY <2>3, <2>5, <2>8 DEF ShowsPrompts, Advances, RestKept, KexKept, LinkKept
    <2> QED
      BY <2>9, <2>10
  <1> QED
    BY <1>1, <1>2

\* The agent signs, or the user gives a new password.
Signs(s, t, e) ==
    /\ Kept(s, t) /\ t.enabled = s.enabled
    /\ \E w \in {"signed", "newpassword"} : e = <<Own(s, "AUTH", w, 0)>>
\* Neither: packet 60 has no handler from now on.
Declines(s, t, e) ==
    /\ ~t.handles60 /\ t.why \in {s.why, "user"}
    /\ \/ Departs(s, t, e)
       \/ KexKept(s, t) /\ UserKept(s, t) /\ LinkKept(s, t) /\ DlgKept(s, t) /\ t.enabled = s.enabled /\ e = <<>>

LEMMA SignsDoes ==
    ASSUME NEW s \in Ready, NEW w \in {"signed", "newpassword"}
    PROVE  /\ Send(s, "AUTH", w, 0) \in ClientState
           /\ Signs(s, Send(s, "AUTH", w, 0), Send(s, "AUTH", w, 0).out)
  <1>1. s \in ClientState /\ "AUTH" \in ClientTypes /\ w \in Whats /\ 0 \in Prompts \cup {0}
    BY DEF Ready, ClientTypes, Whats
  <1>2. Send(s, "AUTH", w, 0) \in ClientState /\ Send(s, "AUTH", w, 0).out = <<Own(s, "AUTH", w, 0)>>
    BY <1>1, SendFirst
  <1>3. Kept(s, Send(s, "AUTH", w, 0)) /\ Send(s, "AUTH", w, 0).enabled = s.enabled
    BY <1>1, SendKeeps
  <1> QED
    BY <1>2, <1>3 DEF Signs

LEMMA Unhandled ==
    ASSUME NEW s \in ClientState
    PROVE  /\ [s EXCEPT !.handles60 = FALSE] \in ClientState
           /\ ~[s EXCEPT !.handles60 = FALSE].handles60
           /\ [s EXCEPT !.handles60 = FALSE].enabled = s.enabled
           /\ [s EXCEPT !.handles60 = FALSE].out = s.out
           /\ KexKept(s, [s EXCEPT !.handles60 = FALSE]) /\ UserKept(s, [s EXCEPT !.handles60 = FALSE])
           /\ LinkKept(s, [s EXCEPT !.handles60 = FALSE]) /\ DlgKept(s, [s EXCEPT !.handles60 = FALSE])
  <1>1. [s EXCEPT !.handles60 = FALSE] \in ClientState
    BY DEF ClientState
  <1>2. /\ ~[s EXCEPT !.handles60 = FALSE].handles60
        /\ [s EXCEPT !.handles60 = FALSE].enabled = s.enabled
        /\ [s EXCEPT !.handles60 = FALSE].out = s.out
        /\ KexKept(s, [s EXCEPT !.handles60 = FALSE]) /\ UserKept(s, [s EXCEPT !.handles60 = FALSE])
        /\ LinkKept(s, [s EXCEPT !.handles60 = FALSE]) /\ DlgKept(s, [s EXCEPT !.handles60 = FALSE])
    BY DEF ClientState, KexKept, UserKept, LinkKept, DlgKept
  <1> QED
    BY <1>1, <1>2

\* handle_SSH2_userauth_msg60
LEMMA Msg60Does ==
    ASSUME NEW s \in Ready, NEW agrees \in BOOLEAN, s.method \in {"keyboard", "pageant", "password"},
           NEW t, t = Msg60(s, agrees)
    PROVE  /\ t \in ClientState
           /\ s.method = "keyboard" => Responds(s, t, t.out) \/ ShowsPrompts(s, t, t.out)
           /\ s.method # "keyboard" => Signs(s, t, t.out) \/ Declines(s, t, t.out)
  <1>0. s \in ClientState /\ s.out = <<>>
    BY DEF Ready
  <1>1. CASE s.method = "keyboard"
    <2>1. t = InfoReq(s)
      BY <1>1 DEF Msg60
    <2> QED
      BY <1>1, <2>1, InfoReqDoes
  <1>2. CASE s.method = "pageant"
    <2>1. t = PkOk(s, agrees)
      BY <1>2 DEF Msg60
    <2>2. CASE agrees
      <3>1. PICK u \in ClientState : u = Send(s, "AUTH", "signed", 0) /\ Signs(s, u, u.out)
        BY SignsDoes
      <3>2. t = [u EXCEPT !.keyFinal = TRUE]
        BY <2>1, <2>2, <3>1 DEF PkOk
      <3>3. [u EXCEPT !.keyFinal = TRUE] \in ClientState
        BY DEF ClientState
      <3>4. /\ Kept(u, [u EXCEPT !.keyFinal = TRUE]) /\ [u EXCEPT !.keyFinal = TRUE].enabled = u.enabled
            /\ [u EXCEPT !.keyFinal = TRUE].out = u.out
        BY DEF ClientState, Kept, KexKept, UserKept, LinkKept, DlgKept
      <3>5. t \in ClientState /\ Kept(u, t) /\ t.enabled = u.enabled /\ t.out = u.out
        BY <3>2, <3>3, <3>4
      <3>6. Signs(s, t, t.out)
        BY <3>1, <3>5, KeptTwice DEF Signs
      <3> QED
        BY <1>2, <3>5, <3>6
    <2>3. CASE ~agrees
      <3>1. t = [s EXCEPT !.handles60 = FALSE]
        BY <2>1, <2>3 DEF PkOk
      <3>2. Declines(s, t, t.out)
        BY <1>0, <3>1, Unhandled DEF Declines, LinkKept
      <3> QED
        BY <1>0, <1>2, <3>1, <3>2, Unhandled
    <2> QED
      BY <2>2, <2>3
  <1>3. CASE s.method = "password"
    <2>1. t = ChangeReq(s, agrees)
      BY <1>3 DEF Msg60
    <2>2. CASE agrees
      <3>1. t = Send(s, "AUTH", "newpassword", 0)
        BY <2>1, <2>2 DEF ChangeReq
      <3> QED
        BY <1>3, <3>1, SignsDoes
    <2>3. CASE ~agrees
      <3>1. PICK u \in ClientState : /\ u = Leaving(s, "user") /\ Departs(s, u, u.out)
                                     /\ u.why \in {s.why, "user"}
        BY LeavingDoes
      <3>2. t = [u EXCEPT !.handles60 = FALSE]
        BY <2>1, <2>3, <3>1 DEF ChangeReq
      <3>3. /\ t \in ClientState /\ ~t.handles60 /\ t.enabled = u.enabled /\ t.out = u.out
            /\ KexKept(u, t) /\ UserKept(u, t) /\ LinkKept(u, t) /\ DlgKept(u, t)
        BY <3>2, Unhandled
      <3>4. Departs(s, t, t.out)
        <4>1. KexKept(s, t)
          BY <3>1, <3>3 DEF Departs, KexKept
        <4>2. UserKept(s, t)
          BY <3>1, <3>3 DEF Departs, UserKept
        <4> QED
          BY <3>1, <3>3, <4>1, <4>2 DEF Departs, LinkKept, DlgKept
      <3>5. Declines(s, t, t.out)
        BY <3>1, <3>3, <3>4 DEF Declines, LinkKept
      <3> QED
        BY <1>3, <3>3, <3>5
    <2> QED
      BY <2>2, <2>3
  <1> QED
    BY <1>1, <1>2, <1>3

\* handle_SSH2_kexinit
BeginsKex(s, t, e, kind) ==
    /\ UserKept(s, t) /\ LinkKept(s, t) /\ DlgKept(s, t) /\ t.handles60 = s.handles60
    /\ t.derived = s.derived /\ t.inKeys = s.inKeys /\ t.outKeys = s.outKeys
    /\ t.hostOK = s.hostOK /\ t.nameOK = s.nameOK /\ t.success = s.success
    /\ t.kind = kind /\ t.enabled = Always \cup {"31"}
    /\ LET ask == <<Own(s, IF kind = "gex" THEN "GEX_REQUEST" ELSE "INIT", "", 0)>>
       IN IF s.kex = {"done"} THEN t.kex = {"rekeying"} /\ e = <<Own(s, "KEXINIT", "", 0)>> \o ask
          ELSE t.kex = s.kex /\ e = ask

LEMMA KexInitDoes ==
    ASSUME NEW s \in Ready, NEW kind \in {"none", "dh", "gex"}, s.kex = {"done"} => kind # "none",
           NEW t, t = KexInit(s, kind)
    PROVE  IF kind = "none" THEN t = Leaving(s, "kex")
           ELSE t \in ClientState /\ BeginsKex(s, t, t.out, kind)
  <1> DEFINE r == IF s.kex = {"done"} THEN Send([s EXCEPT !.kex = {"rekeying"}], "KEXINIT", "", 0) ELSE s
             a == IF kind = "gex" THEN "GEX_REQUEST" ELSE "INIT"
  <1>0. /\ s \in ClientState /\ s.out = <<>> /\ 0 \in Prompts \cup {0} /\ "" \in Whats
        /\ {"KEXINIT", "GEX_REQUEST", "INIT"} \subseteq ClientTypes /\ {"31"} \in SUBSET Types
    BY DEF Ready, ClientTypes, Whats, Types
  <1>1. CASE kind = "none"
    BY <1>1 DEF KexInit
  <1>2. CASE kind # "none"
    <2>1. /\ r \in ClientState /\ r.out \in Seq(Said)
          /\ UserKept(s, r) /\ LinkKept(s, r) /\ DlgKept(s, r) /\ r.handles60 = s.handles60
          /\ r.derived = s.derived /\ r.inKeys = s.inKeys /\ r.outKeys = s.outKeys
          /\ r.hostOK = s.hostOK /\ r.nameOK = s.nameOK /\ r.success = s.success
          /\ IF s.kex = {"done"} THEN r.kex = {"rekeying"} /\ r.out = <<Own(s, "KEXINIT", "", 0)>>
             ELSE r.kex = s.kex /\ r.out = <<>>
      <3>1. CASE s.kex # {"done"}
        <4>1. r = s
          BY <3>1
        <4>2. <<>> \in Seq(Said)
          OBVIOUS
        <4> HIDE DEF r
        <4> QED
          BY <1>0, <3>1, <4>1, <4>2 DEF UserKept, LinkKept, DlgKept
      <3>2. CASE s.kex = {"done"}
        <4>1. [s EXCEPT !.kex = {"rekeying"}] \in ClientState
          BY <1>0 DEF ClientState
        <4>2. PICK u \in ClientState : u = [s EXCEPT !.kex = {"rekeying"}]
          BY <4>1
        <4>3. /\ UserKept(s, u) /\ LinkKept(s, u) /\ DlgKept(s, u) /\ u.handles60 = s.handles60
              /\ u.derived = s.derived /\ u.inKeys = s.inKeys /\ u.outKeys = s.outKeys
              /\ u.hostOK = s.hostOK /\ u.nameOK = s.nameOK /\ u.success = s.success
              /\ u.kex = {"rekeying"} /\ u.out = <<>>
          BY ZenonT(40), <1>0, <4>2 DEF ClientState, UserKept, LinkKept, DlgKept
        <4>4. r = Send(u, "KEXINIT", "", 0) /\ u \in Ready
          BY <3>2, <4>2, <4>3 DEF Ready
        <4>5. Send(u, "KEXINIT", "", 0) \in ClientState /\ Send(u, "KEXINIT", "", 0).out = <<Own(u, "KEXINIT", "", 0)>>
          BY <1>0, <4>4, SendFirst
        <4>6. Kept(u, Send(u, "KEXINIT", "", 0))
          BY SendKeeps
        <4>7. Own(u, "KEXINIT", "", 0) = Own(s, "KEXINIT", "", 0) /\ <<Own(s, "KEXINIT", "", 0)>> \in Seq(Said)
          BY <1>0, <4>3, OwnSaid DEF Own
        <4> HIDE DEF r
        <4> QED
          BY <3>2, <4>3, <4>4, <4>5, <4>6, <4>7 DEF Kept, KexKept, UserKept, LinkKept, DlgKept
      <3> QED
        BY <3>1, <3>2
    <2>2. PICK v \in ClientState : v = r
      BY <2>1
    <2> HIDE DEF r
    <2>3. a \in ClientTypes /\ kind \in {"dh", "gex"}
      BY <1>0, <1>2
    <2>4. /\ Send(v, a, "", 0) \in ClientState /\ Send(v, a, "", 0).out = v.out \o <<Own(v, a, "", 0)>>
          /\ Kept(v, Send(v, a, "", 0))
      BY <1>0, <2>3, SendIn, SendKeeps
    <2>5. PICK w \in ClientState : w = Send(v, a, "", 0) /\ w.out = v.out \o <<Own(s, a, "", 0)>> /\ Kept(v, w)
      BY <2>1, <2>2, <2>4 DEF Own
    <2>6. [w EXCEPT !.kind = kind] \in ClientState
      BY <2>3 DEF ClientState
    <2>7. PICK x \in ClientState : x = [w EXCEPT !.kind = kind]
      BY <2>6
    <2>8. /\ UserKept(w, x) /\ LinkKept(w, x) /\ DlgKept(w, x) /\ x.handles60 = w.handles60
          /\ x.derived = w.derived /\ x.inKeys = w.inKeys /\ x.outKeys = w.outKeys /\ x.kex = w.kex
          /\ x.hostOK = w.hostOK /\ x.nameOK = w.nameOK /\ x.success = w.success
          /\ x.kind = kind /\ x.out = w.out
      BY <2>7 DEF ClientState, UserKept, LinkKept, DlgKept
    <2>9. t = Dispatch(x, {"31"})
      BY <1>2, <2>2, <2>3, <2>5, <2>7 DEF KexInit, r
    <2>10. t \in ClientState /\ Kept(x, t) /\ t.enabled = Always \cup {"31"} /\ t.out = x.out
      <3>1. /\ Dispatch(x, {"31"}) \in ClientState /\ Kept(x, Dispatch(x, {"31"}))
            /\ Dispatch(x, {"31"}).enabled = Always \cup {"31"} /\ Dispatch(x, {"31"}).out = x.out
        BY <1>0, DispatchDoes
      <3> QED
        BY <2>9, <3>1
    <2>11. v.out = <<>> => v.out \o <<Own(s, a, "", 0)>> = <<Own(s, a, "", 0)>>
      BY <1>0, <2>3, OwnSaid, OneOf
    <2>12. /\ UserKept(s, t) /\ LinkKept(s, t) /\ DlgKept(s, t) /\ t.handles60 = s.handles60
           /\ t.derived = s.derived /\ t.inKeys = s.inKeys /\ t.outKeys = s.outKeys
           /\ t.hostOK = s.hostOK /\ t.nameOK = s.nameOK /\ t.success = s.success /\ t.kind = kind
           /\ t.kex = v.kex
      <3>a. /\ UserKept(s, v) /\ LinkKept(s, v) /\ DlgKept(s, v) /\ v.handles60 = s.handles60
            /\ v.derived = s.derived /\ v.inKeys = s.inKeys /\ v.outKeys = s.outKeys
            /\ v.hostOK = s.hostOK /\ v.nameOK = s.nameOK /\ v.success = s.success
        BY <2>1, <2>2
      <3>b. Kept(v, w) /\ Kept(x, t)
        BY <2>5, <2>10
      <3>1. UserKept(s, t)
        BY <2>8, <3>a, <3>b DEF Kept, UserKept
      <3>2. LinkKept(s, t) /\ DlgKept(s, t)
        BY <2>8, <3>a, <3>b DEF Kept, LinkKept, DlgKept
      <3>3. t.handles60 = s.handles60
        BY <2>8, <3>a, <3>b DEF Kept
      <3>4. /\ t.derived = s.derived /\ t.inKeys = s.inKeys /\ t.outKeys = s.outKeys
            /\ t.hostOK = s.hostOK /\ t.nameOK = s.nameOK /\ t.success = s.success /\ t.kind = kind
            /\ t.kex = v.kex
        BY <2>8, <3>a, <3>b DEF Kept, KexKept
      <3> QED
        BY <3>1, <3>2, <3>3, <3>4
    <2>13. IF s.kex = {"done"} THEN t.kex = {"rekeying"} /\ t.out = <<Own(s, "KEXINIT", "", 0)>> \o <<Own(s, a, "", 0)>>
           ELSE t.kex = s.kex /\ t.out = <<Own(s, a, "", 0)>>
      <3>1. t.out = v.out \o <<Own(s, a, "", 0)>>
        BY <2>5, <2>8, <2>10
      <3>2. IF s.kex = {"done"} THEN v.kex = {"rekeying"} /\ v.out = <<Own(s, "KEXINIT", "", 0)>>
            ELSE v.kex = s.kex /\ v.out = <<>>
        BY <2>1, <2>2
      <3>3. t.kex = v.kex
        BY <2>12
      <3> HIDE DEF a
      <3> QED
        BY <2>11, <3>1, <3>2, <3>3
    <2> QED
      BY <1>2, <2>10, <2>12, <2>13 DEF BeginsKex
  <1> QED
    BY <1>1, <1>2

\* handle_SSH2_dh_gex_group
LEMMA GexGroupDoes ==
    ASSUME NEW s \in Ready, NEW t, t = GexGroup(s)
    PROVE  /\ t \in ClientState /\ Kept(s, t) /\ t.enabled = Always \cup {"33"}
           /\ t.out = <<Own(s, "GEX_INIT", "", 0)>>
  <1>0. /\ s \in ClientState /\ 0 \in Prompts \cup {0} /\ "" \in Whats
        /\ "GEX_INIT" \in ClientTypes /\ {"33"} \in SUBSET Types
    BY DEF Ready, ClientTypes, Whats, Types
  <1>1. PICK u \in ClientState : u = Send(s, "GEX_INIT", "", 0) /\ u.out = <<Own(s, "GEX_INIT", "", 0)>> /\ Kept(s, u)
    BY <1>0, SendFirst, SendKeeps
  <1>2. t = Dispatch(u, {"33"})
    BY <1>1 DEF GexGroup
  <1>3. t \in ClientState /\ Kept(u, t) /\ t.enabled = Always \cup {"33"} /\ t.out = u.out
    <2> DEFINE S == {"33"}
    <2>1. S \in SUBSET Types /\ t = Dispatch(u, S) /\ Always \cup S = Always \cup {"33"}
      BY <1>0, <1>2
    <2> HIDE DEF S
    <2>2. t \in ClientState /\ Kept(u, t) /\ t.enabled = Always \cup S /\ t.out = u.out
      BY <2>1, DispatchDoes
    <2> QED
      BY <2>1, <2>2
  <1> QED
    BY <1>1, <1>3, KeptTwice

\* What the keys' handlers leave of the login.
LoginKept(s, t) ==
    /\ t.listFirst = s.listFirst /\ t.listAsked = s.listAsked
    /\ t.tryed = s.tryed /\ t.retried = s.retried /\ t.tis = s.tis
    /\ t.handles60 = s.handles60 /\ t.success = s.success
    /\ LinkKept(s, t)

\* The end of the first exchange: the user is asked.
Finishes(s, t) ==
    /\ LoginKept(s, t) /\ t.kind = s.kind /\ t.derived = s.derived
    /\ t.inKeys = s.inKeys /\ t.outKeys = s.outKeys /\ t.hostOK = s.hostOK
    /\ t.hostDlg = s.hostDlg /\ t.enabled = s.enabled
    /\ t.kex = {"done"} /\ t.nameOK /\ Advances(s, t)

LEMMA KexDoneDoes ==
    ASSUME NEW s \in ClientState, "rekeying" \notin s.kex
    PROVE  /\ KexDone(s) \in ClientState /\ Finishes(s, KexDone(s)) /\ KexDone(s).out = s.out
  <1>1. [s EXCEPT !.nameOK = TRUE] \in ClientState
    BY DEF ClientState
  <1>2. PICK u \in ClientState : u = [s EXCEPT !.nameOK = TRUE]
    BY <1>1
  <1>3. PICK a \in Shown : a = IF u.authDlg = "open" THEN "open" ELSE "posted"
    BY DEF Shown
  <1>4. [u EXCEPT !.authDlg = a, !.method = "none"] \in ClientState
    BY DEF ClientState
  <1>5. PICK v \in ClientState : v = [u EXCEPT !.authDlg = a, !.method = "none"]
    BY <1>4
  <1>6. [v EXCEPT !.kex = {"done"}] \in ClientState
    BY DEF ClientState
  <1>7. PICK w \in ClientState : w = [v EXCEPT !.kex = {"done"}]
    BY <1>6
  <1>8. KexDone(s) = w
    BY <1>2, <1>3, <1>5, <1>7 DEF KexDone, AdvanceToNextCred
  <1>9. /\ LoginKept(s, u) /\ u.kind = s.kind /\ u.derived = s.derived
        /\ u.inKeys = s.inKeys /\ u.outKeys = s.outKeys /\ u.hostOK = s.hostOK
        /\ u.hostDlg = s.hostDlg /\ u.enabled = s.enabled /\ u.out = s.out
        /\ u.nameOK /\ u.authDlg = s.authDlg
    BY <1>2 DEF ClientState, LoginKept, LinkKept
  <1>10. /\ LoginKept(u, v) /\ v.kind = u.kind /\ v.derived = u.derived
         /\ v.inKeys = u.inKeys /\ v.outKeys = u.outKeys /\ v.hostOK = u.hostOK
         /\ v.hostDlg = u.hostDlg /\ v.enabled = u.enabled /\ v.out = u.out
         /\ v.nameOK = u.nameOK /\ v.authDlg = a /\ v.method = "none"
    BY <1>5 DEF ClientState, LoginKept, LinkKept
  <1>11. /\ LoginKept(v, w) /\ w.kind = v.kind /\ w.derived = v.derived
         /\ w.inKeys = v.inKeys /\ w.outKeys = v.outKeys /\ w.hostOK = v.hostOK
         /\ w.hostDlg = v.hostDlg /\ w.enabled = v.enabled /\ w.out = v.out
         /\ w.nameOK = v.nameOK /\ w.authDlg = v.authDlg /\ w.method = v.method
         /\ w.kex = {"done"}
    BY <1>7 DEF ClientState, LoginKept, LinkKept
  <1>12. LoginKept(s, w)
    BY <1>9, <1>10, <1>11 DEF LoginKept, LinkKept
  <1>13. Finishes(s, w) /\ w.out = s.out
    BY <1>3, <1>9, <1>10, <1>11, <1>12 DEF Finishes, Advances
  <1> QED
    BY <1>8, <1>13

\* ssh2_send_newkeys when the host's key has been accepted: NEWKEYS goes out
\* with the old keys; if the server's has come, the exchange is over.
TurnsOut(s, t) ==
    /\ LoginKept(s, t) /\ t.kind = s.kind /\ t.derived = s.derived /\ t.inKeys = s.inKeys
    /\ t.hostDlg = s.hostDlg /\ t.enabled = s.enabled
    /\ t.hostOK /\ t.outKeys = s.derived
    /\ IF s.kex = {} THEN t.kex = {"sent"} /\ t.nameOK = s.nameOK /\ t.authDlg = s.authDlg /\ t.method = s.method
       ELSE t.kex = {"done"} /\ t.nameOK /\ Advances(s, t)

LEMMA NotifyHostOKDoes ==
    ASSUME NEW s \in ClientState, ~s.hostOK, s.kex \in {{}, {"received"}}
    PROVE  /\ NotifyHostOK(s) \in ClientState /\ TurnsOut(s, NotifyHostOK(s))
           /\ NotifyHostOK(s).out = s.out \o <<Own(s, "NEWKEYS", "", 0)>>
  <1>0. "NEWKEYS" \in ClientTypes /\ "" \in Whats /\ 0 \in Prompts \cup {0}
    BY DEF ClientTypes, Whats
  <1>1. [s EXCEPT !.hostOK = TRUE] \in ClientState
    BY DEF ClientState
  <1>2. PICK u \in ClientState : u = [s EXCEPT !.hostOK = TRUE]
    BY <1>1
  <1>3. /\ LoginKept(s, u) /\ u.kind = s.kind /\ u.derived = s.derived /\ u.inKeys = s.inKeys /\ u.outKeys = s.outKeys
        /\ u.hostDlg = s.hostDlg /\ u.enabled = s.enabled /\ u.hostOK /\ u.kex = s.kex
        /\ u.nameOK = s.nameOK /\ u.authDlg = s.authDlg /\ u.method = s.method /\ u.out = s.out
    BY <1>2 DEF ClientState, LoginKept, LinkKept
  <1>a. /\ Send(u, "NEWKEYS", "", 0) \in ClientState
        /\ Send(u, "NEWKEYS", "", 0).out = u.out \o <<Own(u, "NEWKEYS", "", 0)>>
    BY <1>0, SendIn
  <1>b. PICK v \in ClientState : v = Send(u, "NEWKEYS", "", 0)
    BY <1>a
  <1>4. Kept(u, v) /\ v.enabled = u.enabled
    <2>1. Kept(u, Send(u, "NEWKEYS", "", 0)) /\ Send(u, "NEWKEYS", "", 0).enabled = u.enabled
      BY ZenonT(40), SendKeeps
    <2> QED
      BY <1>b, <2>1
  <1>5. Own(u, "NEWKEYS", "", 0) = Own(s, "NEWKEYS", "", 0)
    BY <1>3 DEF Own
  <1>6. PICK k \in SUBSET {"sent", "received", "done", "rekeying"} : k = v.kex \cup {"sent"}
    BY DEF ClientState
  <1>7. PICK n \in Nat : n = u.derived
    BY DEF ClientState
  <1>8. [v EXCEPT !.outKeys = n, !.kex = k] \in ClientState
    BY DEF ClientState
  <1>9. PICK w \in ClientState : w = [v EXCEPT !.outKeys = n, !.kex = k]
    BY <1>8
  <1>10. /\ LoginKept(v, w) /\ w.kind = v.kind /\ w.derived = v.derived /\ w.inKeys = v.inKeys
         /\ w.hostDlg = v.hostDlg /\ w.enabled = v.enabled /\ w.hostOK = v.hostOK /\ w.kex = k
         /\ w.nameOK = v.nameOK /\ w.authDlg = v.authDlg /\ w.method = v.method /\ w.out = v.out
         /\ w.outKeys = n
    BY <1>9 DEF ClientState, LoginKept, LinkKept
  <1>11. LoginKept(s, w)
    BY <1>3, <1>4, <1>10 DEF LoginKept, LinkKept, Kept, UserKept, KexKept
  <1>12. /\ w.kind = s.kind /\ w.derived = s.derived /\ w.inKeys = s.inKeys
         /\ w.hostDlg = s.hostDlg /\ w.enabled = s.enabled /\ w.hostOK /\ w.kex = s.kex \cup {"sent"}
         /\ w.nameOK = s.nameOK /\ w.authDlg = s.authDlg /\ w.method = s.method
         /\ w.outKeys = s.derived
    BY <1>3, <1>4, <1>6, <1>7, <1>10 DEF Kept, UserKept, KexKept, DlgKept
  <1>13. w.out = s.out \o <<Own(s, "NEWKEYS", "", 0)>>
    BY <1>3, <1>a, <1>b, <1>5, <1>10
  <1>14. NotifyHostOK(s) = IF "received" \in w.kex THEN KexDone(w) ELSE w
    <2>1. NotifyHostOK(s) = SendNewKeys(u)
      BY <1>2 DEF NotifyHostOK
    <2>2. w = [Send(u, "NEWKEYS", "", 0) EXCEPT !.outKeys = u.derived, !.kex = @ \cup {"sent"}]
      BY <1>b, <1>6, <1>7, <1>9
    <2> QED
      BY <2>1, <2>2 DEF SendNewKeys
  <1>15. CASE s.kex = {}
    <2>1. NotifyHostOK(s) = w
      BY <1>12, <1>14, <1>15
    <2> QED
      BY <1>11, <1>12, <1>13, <1>15, <2>1 DEF TurnsOut
  <1>16. CASE s.kex = {"received"}
    <2>1. NotifyHostOK(s) = KexDone(w)
      BY <1>12, <1>14, <1>16
    <2>2. "rekeying" \notin w.kex
      BY <1>12, <1>16
    <2>3. PICK x \in ClientState : x = KexDone(w) /\ Finishes(w, x) /\ x.out = w.out
      BY <2>2, KexDoneDoes
    <2>4. LoginKept(s, x)
      BY <1>11, <2>3 DEF LoginKept, LinkKept, Finishes
    <2>5. TurnsOut(s, x)
      BY <1>12, <1>16, <2>3, <2>4 DEF TurnsOut, Finishes, Advances
    <2> QED
      BY <1>13, <2>1, <2>3, <2>5
  <1> QED
    BY <1>15, <1>16

\* handle_SSH2_newkeys
NewKeysRead(s, t) ==
    /\ LoginKept(s, t) /\ t.kind = s.kind /\ t.derived = s.derived /\ t.outKeys = s.outKeys
    /\ t.hostDlg = s.hostDlg /\ t.hostOK = s.hostOK
    /\ t.inKeys = s.derived /\ t.enabled = s.enabled \cup {"EXT_INFO"}
    /\ IF s.kex = {"sent"} THEN t.kex = {"done"} /\ t.nameOK /\ Advances(s, t)
       ELSE t.kex = s.kex \cup {"received"} /\ t.nameOK = s.nameOK /\ t.authDlg = s.authDlg /\ t.method = s.method

LEMMA NewKeysDoes ==
    ASSUME NEW s \in Ready, s.kex \in {{}, {"sent"}, {"rekeying"}}, NEW t, t = NewKeys(s)
    PROVE  t \in ClientState /\ NewKeysRead(s, t) /\ t.out = <<>>
  <1>0. s \in ClientState /\ s.out = <<>> /\ {"EXT_INFO"} \in SUBSET Types
    BY DEF Ready, Types
  <1>1. PICK k \in SUBSET {"sent", "received", "done", "rekeying"} : k = s.kex \cup {"received"}
    BY <1>0 DEF ClientState
  <1>2. PICK n \in Nat : n = s.derived
    BY <1>0 DEF ClientState
  <1>3. [s EXCEPT !.kex = k, !.inKeys = n] \in ClientState
    BY <1>0 DEF ClientState
  <1>4. PICK u \in ClientState : u = [s EXCEPT !.kex = k, !.inKeys = n]
    BY <1>3
  <1>5. /\ LoginKept(s, u) /\ u.kind = s.kind /\ u.derived = s.derived /\ u.outKeys = s.outKeys
        /\ u.hostDlg = s.hostDlg /\ u.hostOK = s.hostOK /\ u.inKeys = n /\ u.enabled = s.enabled
        /\ u.kex = k /\ u.nameOK = s.nameOK /\ u.authDlg = s.authDlg /\ u.method = s.method /\ u.out = <<>>
    BY <1>0, <1>4 DEF ClientState, LoginKept, LinkKept
  <1>6. PICK v \in Ready : v = Enabling(u, {"EXT_INFO"}) /\ Kept(u, v) /\ v.enabled = u.enabled \cup {"EXT_INFO"}
    <2>1. u \in Ready
      BY <1>5 DEF Ready
    <2> QED
      BY <1>0, <2>1, EnablingDoes
  <1>7. /\ LoginKept(s, v) /\ v.kind = s.kind /\ v.derived = s.derived /\ v.outKeys = s.outKeys
        /\ v.hostDlg = s.hostDlg /\ v.hostOK = s.hostOK /\ v.inKeys = s.derived /\ v.enabled = s.enabled \cup {"EXT_INFO"}
        /\ v.kex = s.kex \cup {"received"} /\ v.nameOK = s.nameOK /\ v.authDlg = s.authDlg /\ v.method = s.method
        /\ v \in ClientState /\ v.out = <<>>
    <2>1. LoginKept(s, v)
      BY <1>5, <1>6 DEF LoginKept, LinkKept, Kept, UserKept, KexKept
    <2> QED
      BY <1>1, <1>2, <1>5, <1>6, <2>1 DEF Kept, KexKept, DlgKept, UserKept, Ready
  <1>8. t = IF "sent" \in v.kex THEN KexDone(v) ELSE v
    <2>1. u = [s EXCEPT !.kex = @ \cup {"received"}, !.inKeys = s.derived]
      BY <1>1, <1>2, <1>4
    <2> QED
      BY <1>6, <2>1 DEF NewKeys
  <1>9. CASE s.kex = {"sent"}
    <2>1. t = KexDone(v) /\ "rekeying" \notin v.kex
      BY <1>7, <1>8, <1>9
    <2>2. PICK x \in ClientState : x = KexDone(v) /\ Finishes(v, x) /\ x.out = v.out
      BY <1>7, <2>1, KexDoneDoes
    <2>3. LoginKept(s, x)
      BY <1>7, <2>2 DEF LoginKept, LinkKept, Finishes
    <2>4. NewKeysRead(s, x)
      BY <1>7, <1>9, <2>2, <2>3 DEF NewKeysRead, Finishes, Advances
    <2> QED
      BY <1>7, <2>1, <2>2, <2>4
  <1>10. CASE s.kex # {"sent"}
    <2>1. t = v
      BY <1>7, <1>8, <1>10
    <2> QED
      BY <1>7, <1>10, <2>1 DEF NewKeysRead
  <1> QED
    BY <1>9, <1>10

\* ssh2_kex_finish when the signature is good.
KeyMade(s, t) ==
    /\ UserKept(s, t) /\ LinkKept(s, t) /\ DlgKept(s, t) /\ t.handles60 = s.handles60
    /\ t.kex = s.kex /\ t.kind = s.kind /\ t.inKeys = s.inKeys /\ t.outKeys = s.outKeys
    /\ t.hostOK = s.hostOK /\ t.nameOK = s.nameOK /\ t.success = s.success
    /\ t.derived = s.derived + 1 /\ t.enabled = Always \cup {"NEWKEYS"}
\* ... and when it is not.
KeyRefused(s, t) ==
    /\ Departs(s, t, t.out) /\ t.handles60 = s.handles60 /\ t.why \in {s.why, "kex"}

LEMMA KexFinishDoes ==
    ASSUME NEW s \in Ready, NEW good \in BOOLEAN
    PROVE  /\ KexFinish(s, good) \in ClientState
           /\ \/ KeyMade(s, KexFinish(s, good)) /\ KexFinish(s, good).out = <<>>
              \/ KeyRefused(s, KexFinish(s, good))
  <1>0. s \in ClientState /\ s.out = <<>> /\ s.derived \in Nat /\ {"NEWKEYS"} \in SUBSET Types
    BY DEF Ready, ClientState, Types
  <1>1. CASE good
    <2>1. PICK n \in Nat : n = s.derived + 1
      BY <1>0
    <2>2. [s EXCEPT !.derived = n] \in ClientState
      BY <1>0 DEF ClientState
    <2>3. PICK u \in ClientState : u = [s EXCEPT !.derived = n]
      BY <2>2
    <2>4. /\ UserKept(s, u) /\ LinkKept(s, u) /\ DlgKept(s, u) /\ u.handles60 = s.handles60
          /\ u.kex = s.kex /\ u.kind = s.kind /\ u.inKeys = s.inKeys /\ u.outKeys = s.outKeys
          /\ u.hostOK = s.hostOK /\ u.nameOK = s.nameOK /\ u.success = s.success
          /\ u.derived = n /\ u.out = <<>>
      BY <1>0, <2>3 DEF ClientState, UserKept, LinkKept, DlgKept
    <2>5. /\ Dispatch(u, {"NEWKEYS"}) \in ClientState /\ Kept(u, Dispatch(u, {"NEWKEYS"}))
          /\ Dispatch(u, {"NEWKEYS"}).enabled = Always \cup {"NEWKEYS"} /\ Dispatch(u, {"NEWKEYS"}).out = u.out
      BY <1>0, DispatchDoes
    <2>6. KexFinish(s, good) = Dispatch(u, {"NEWKEYS"})
      BY <1>1, <2>1, <2>3 DEF KexFinish
    <2>7. KeyMade(s, Dispatch(u, {"NEWKEYS"}))
      BY <2>1, <2>4, <2>5 DEF KeyMade, Kept, KexKept, UserKept, LinkKept, DlgKept
    <2> QED
      BY <2>4, <2>5, <2>6, <2>7
  <1>2. CASE ~good
    <2>1. KexFinish(s, good) = Leaving(s, "kex")
      BY <1>2 DEF KexFinish
    <2>2. /\ Leaving(s, "kex") \in ClientState /\ Departs(s, Leaving(s, "kex"), Leaving(s, "kex").out)
          /\ Leaving(s, "kex").handles60 = s.handles60
          /\ Leaving(s, "kex").why \in {s.why, "kex"}
      BY LeavingDoes
    <2> QED
      BY <2>1, <2>2 DEF KeyRefused
  <1> QED
    BY <1>1, <1>2

\* The user is asked about the host's key.
HostAsked(s, t) ==
    /\ KexKept(s, t) /\ UserKept(s, t) /\ LinkKept(s, t) /\ t.handles60 = s.handles60
    /\ t.enabled = s.enabled /\ t.authDlg = s.authDlg /\ t.hostDlg = "posted"

\* What comes of the host's key.
HostSettled(u, t) ==
    \/ u.hostOK /\ t = u
    \/ ~u.hostOK /\ TurnsOut(u, t) /\ t.out = u.out \o <<Own(u, "NEWKEYS", "", 0)>>
    \/ HostAsked(u, t) /\ t.out = u.out

\* The reply with the host's key.
LEMMA KexReplyDoes ==
    ASSUME NEW s \in Ready, ~s.hostOK => s.kex \in {{}, {"received"}}, NEW good \in BOOLEAN, NEW known \in BOOLEAN,
           NEW t, t = KexReply(s, good, known)
    PROVE  /\ t \in ClientState
           /\ \E u \in ClientState : /\ (KeyMade(s, u) /\ u.out = <<>>) \/ KeyRefused(s, u)
                                     /\ HostSettled(u, t)
  <1>1. PICK u \in ClientState : u = KexFinish(s, good) /\ ((KeyMade(s, u) /\ u.out = <<>>) \/ KeyRefused(s, u))
    BY KexFinishDoes
  <1>2. ~u.hostOK => u.kex \in {{}, {"received"}}
    BY <1>1 DEF KeyMade, KeyRefused, Departs, KexKept
  <1>3. t \in ClientState /\ HostSettled(u, t)
    <2>1. CASE known /\ u.hostOK
      <3>1. t = u
        BY <1>1, <2>1 DEF KexReply, NotifyHostOK
      <3> QED
        BY <2>1, <3>1 DEF HostSettled
    <2>2. CASE known /\ ~u.hostOK
      <3>1. t = NotifyHostOK(u)
        BY <1>1, <2>2 DEF KexReply
      <3>2. /\ NotifyHostOK(u) \in ClientState /\ TurnsOut(u, NotifyHostOK(u))
            /\ NotifyHostOK(u).out = u.out \o <<Own(u, "NEWKEYS", "", 0)>>
        BY <1>2, <2>2, NotifyHostOKDoes
      <3> QED
        BY <2>2, <3>1, <3>2 DEF HostSettled
    <2>3. CASE ~known
      <3>1. [u EXCEPT !.hostDlg = "posted"] \in ClientState
        BY DEF ClientState, Shown
      <3>2. PICK v \in ClientState : v = [u EXCEPT !.hostDlg = "posted"]
        BY <3>1
      <3>3. HostAsked(u, v) /\ v.out = u.out
        BY <3>2 DEF ClientState, HostAsked, KexKept, UserKept, LinkKept
      <3>4. t = v
        BY <1>1, <2>3, <3>2 DEF KexReply
      <3> QED
        BY <3>3, <3>4 DEF HostSettled
    <2> QED
      BY <2>1, <2>2, <2>3
  <1> QED
    BY <1>1, <1>3

-----------------------------------------------------------------------------
(* The queues in a step.                                                    *)

\* The client takes m, and its packets e go out.
Takes(m) == toClient # <<>> /\ m = Head(toClient) /\ toClient' = Tail(toClient) /\ srv' = srv
Says(e) == toServer' = toServer \o e

LEMMA Taking ==
    ASSUME IInv, NEW m, Takes(m)
    PROVE  /\ m \in Told /\ Packets(toClient) = {m} \cup Packets(toClient')
           /\ toClient' \in Seq(Told) /\ Packets(toClient') \subseteq Told
           /\ \A p \in Packets(toClient') : MayFollow(m, p.t)
           /\ toClient' # <<>> /\ Head(toClient').t = "EXT_INFO" => m.t = "NEWKEYS"
           /\ m.t \notin Always => \A p \in Packets(toServer) : p.t \notin Questions
           /\ m.t = "IGNORE" => srv.noisy
           /\ m.t = "DISCONNECT" => srv.left
  <1>0. toClient \in Seq(Told) /\ toClient # <<>>
    BY DEF IInv, TypeOK, Takes
  <1> DEFINE q == toClient
             r == Tail(toClient)
  <1>1. /\ m \in Told /\ r \in Seq(Told) /\ 1 \in DOMAIN q /\ m = q[1]
        /\ \A i \in DOMAIN r : i \in Nat \ {0} /\ i + 1 \in DOMAIN q /\ r[i] = q[i + 1]
    BY <1>0, Shorter DEF Takes
  <1>2. Packets(q) = {m} \cup Packets(r)
    BY <1>0, PacketsShorter DEF Takes
  <1>3. Packets(r) \subseteq Told
    BY <1>1, PacketsIn
  <1> HIDE DEF q, r
  <1>4. \A i, j \in DOMAIN q : i < j => MayFollow(q[i], q[j].t)
    BY DEF IInv, Turns, q
  <1>5. ASSUME NEW p \in Packets(r) PROVE MayFollow(m, p.t)
    <2>1. PICK i \in DOMAIN r : p = r[i]
      BY DEF Packets
    <2> QED
      BY <1>1, <1>4, <2>1
  <1>6. ASSUME r # <<>>, Head(r).t = "EXT_INFO" PROVE m.t = "NEWKEYS"
    <2>1. 1 \in DOMAIN r /\ Head(r) = r[1]
      BY <1>1, <1>6, Shorter
    <2>2. 2 \in DOMAIN q /\ q[2] = Head(r)
      BY <1>1, <2>1
    <2>3. \A i \in DOMAIN q : q[i].t = "EXT_INFO" => (i > 1 => q[i - 1].t = "NEWKEYS")
      BY DEF IInv, Turns, q
    <2>4. q[2].t = "EXT_INFO"
      BY <1>6, <2>2
    <2>5. q[2 - 1].t = "NEWKEYS"
      BY <2>2, <2>3, <2>4
    <2> QED
      BY <1>1, <2>5
  <1>7. ASSUME m.t \notin Always, NEW p \in Packets(toServer) PROVE p.t \notin Questions
    BY <1>2, <1>7 DEF IInv, Turns, In, Quiet, q
  <1>8. (m.t = "IGNORE" => srv.noisy) /\ (m.t = "DISCONNECT" => srv.left)
    BY <1>2 DEF IInv, Turns, In, q
  <1>9. toClient' = r /\ toClient = q
    BY DEF Takes, q, r
  <1> QED
    BY <1>1, <1>2, <1>3, <1>5, <1>6, <1>7, <1>8, <1>9

LEMMA Saying ==
    ASSUME TypeOK, NEW e \in Seq(Said), Says(e)
    PROVE  /\ toServer' \in Seq(Said) /\ Packets(toServer') = Packets(toServer) \cup Packets(e)
           /\ Packets(toServer) \subseteq Said /\ Packets(e) \subseteq Said
  <1>1. toServer \in Seq(Said)
    BY DEF TypeOK
  <1>2. toServer \o e \in Seq(Said) /\ Packets(toServer \o e) = Packets(toServer) \cup Packets(e)
    BY <1>1, Grown, PacketsGrown
  <1> QED
    BY <1>1, <1>2, PacketsIn DEF Says

\* Questions at most once.
Single(e) == \A i, j \in DOMAIN e : e[i].t \in Questions /\ e[j].t \in Questions => i = j

LEMMA OneQuestion ==
    ASSUME TypeOK, Turns, NEW e \in Seq(Said), Says(e), Single(e),
           In(e, Questions) => ~In(toServer, Questions)
    PROVE  \A i, j \in DOMAIN toServer' :
             toServer'[i].t \in Questions /\ toServer'[j].t \in Questions => i = j
  <1> DEFINE q == toServer
             r == toServer \o e
  <1>1. q \in Seq(Said)
    BY DEF TypeOK, q
  <1>2. /\ \A l \in DOMAIN q : l \in DOMAIN r /\ r[l] = q[l]
        /\ \A l \in DOMAIN r : l \in DOMAIN q \/ \E h \in DOMAIN e : l = Len(q) + h /\ r[l] = e[h]
    BY SMTT(40), <1>1, Grown
  <1>3. toServer' = r
    BY DEF Says
  <1>4. \A i, j \in DOMAIN q : q[i].t \in Questions /\ q[j].t \in Questions => i = j
    BY DEF Turns
  <1>5. In(e, Questions) => ~In(q, Questions)
    OBVIOUS
  <1> HIDE DEF q, r
  <1> SUFFICES ASSUME NEW i \in DOMAIN r, NEW j \in DOMAIN r, r[i].t \in Questions, r[j].t \in Questions
               PROVE  i = j
    BY <1>3
  <1>6. CASE In(e, Questions)
    <2>1. i \notin DOMAIN q /\ j \notin DOMAIN q
      BY <1>2, <1>5, <1>6 DEF In, Packets
    <2>2. PICK h \in DOMAIN e : i = Len(q) + h /\ r[i] = e[h]
      BY <1>2, <2>1
    <2>3. PICK k \in DOMAIN e : j = Len(q) + k /\ r[j] = e[k]
      BY <1>2, <2>1
    <2> QED
      BY <2>2, <2>3 DEF Single
  <1>7. CASE ~In(e, Questions)
    <2>1. i \in DOMAIN q /\ j \in DOMAIN q
      BY <1>2, <1>7 DEF In, Packets
    <2> QED
      BY <1>2, <1>4, <2>1
  <1> QED
    BY <1>6, <1>7

\* Nothing but what is always handled may come after m.
Last(m) == m.t \notin Always /\ \A t \in Types : MayFollow(m, t) => t \in Always

LEMMA TurnsRead ==
    ASSUME IInv, NEW m, Takes(m), NEW e \in Seq(Said), Says(e), Single(e),
           In(e, Questions) => Last(m)
    PROVE  Turns'
  <1>0. TypeOK /\ Turns /\ toClient \in Seq(Told) /\ toClient # <<>>
    BY DEF IInv, TypeOK, Takes
  <1> DEFINE q == toClient
             r == Tail(toClient)
  <1>1. /\ Packets(toClient) = {m} \cup Packets(toClient') /\ Packets(toClient') \subseteq Told
        /\ \A p \in Packets(toClient') : MayFollow(m, p.t)
        /\ m.t \notin Always => ~In(toServer, Questions)
    BY Taking DEF In
  <1>2. Packets(toServer') = Packets(toServer) \cup Packets(e)
    BY <1>0, Saying
  <1>3. \A i, j \in DOMAIN toServer' :
          toServer'[i].t \in Questions /\ toServer'[j].t \in Questions => i = j
    BY <1>0, <1>1, OneQuestion DEF Last
  <1>4. In(toServer', Questions) => Quiet'
    <2>1. In(toServer, Questions) => Quiet'
      BY <1>0, <1>1 DEF Turns, Quiet
    <2>2. In(e, Questions) => Quiet'
      BY <1>1 DEF Quiet, Last, Told
    <2> QED
      BY <1>2, <2>1, <2>2 DEF In
  <1>5. /\ \A i \in DOMAIN r : i \in Nat \ {0} /\ i + 1 \in DOMAIN q /\ r[i] = q[i + 1]
    BY <1>0, Shorter
  <1>6. toClient' = r /\ srv' = srv
    BY DEF Takes
  <1>7. /\ \A i, j \in DOMAIN q : i < j => MayFollow(q[i], q[j].t)
        /\ \A i \in DOMAIN q : q[i].t = "EXT_INFO" =>
             q[i].joined /\ (i > 1 => q[i - 1].t = "NEWKEYS")
    BY <1>0 DEF Turns
  <1> HIDE DEF q, r
  <1>8. \A i, j \in DOMAIN r : i < j => MayFollow(r[i], r[j].t)
    BY <1>5, <1>7
  <1>9. ASSUME NEW i \in DOMAIN r, r[i].t = "EXT_INFO"
        PROVE  r[i].joined /\ (i > 1 => r[i - 1].t = "NEWKEYS")
    <2>1. q[i + 1].t = "EXT_INFO" /\ i + 1 \in DOMAIN q /\ i \in Nat \ {0} /\ r[i] = q[i + 1]
      BY <1>5, <1>9
    <2>2. q[i + 1].joined /\ q[i].t = "NEWKEYS"
      BY <1>7, <2>1
    <2>3. ASSUME i > 1 PROVE r[i - 1] = q[i]
      <3>1. i \in DOMAIN r => i - 1 \in DOMAIN r
        <4>1. r \in Seq(Told)
          BY <1>0 DEF r
        <4>2. DOMAIN r = 1..Len(r) /\ Len(r) \in Nat
          BY <4>1, LenProperties
        <4> QED
          BY <2>1, <2>3, <4>2
      <3> QED
        BY <1>5, <2>1, <3>1
    <2> QED
      BY <2>1, <2>2, <2>3
  <1>10. (In(toClient', {"IGNORE"}) => srv.noisy) /\ (In(toClient', {"DISCONNECT"}) => srv.left)
    BY <1>0, <1>1 DEF Turns, In
  <1> QED
    BY <1>3, <1>4, <1>6, <1>8, <1>9, <1>10 DEF Turns

LEMMA TurnsSaid ==
    ASSUME IInv, NEW e \in Seq(Said), Says(e), toClient' = toClient, srv' = srv, Single(e),
           In(e, Questions) => Quiet /\ ~In(toServer, Questions)
    PROVE  Turns'
  <1>0. TypeOK /\ Turns
    BY DEF IInv
  <1>1. Packets(toServer') = Packets(toServer) \cup Packets(e)
    BY <1>0, Saying
  <1>2. \A i, j \in DOMAIN toServer' :
          toServer'[i].t \in Questions /\ toServer'[j].t \in Questions => i = j
    BY <1>0, OneQuestion
  <1>3. In(toServer', Questions) => Quiet'
    BY <1>0, <1>1 DEF Turns, In, Quiet
  <1>4. /\ \A i, j \in DOMAIN toClient' : i < j => MayFollow(toClient'[i], toClient'[j].t)
        /\ \A i \in DOMAIN toClient' : toClient'[i].t = "EXT_INFO" =>
             toClient'[i].joined /\ (i > 1 => toClient'[i - 1].t = "NEWKEYS")
    BY <1>0 DEF Turns
  <1>5. (In(toClient', {"IGNORE"}) => srv'.noisy) /\ (In(toClient', {"DISCONNECT"}) => srv'.left)
    BY <1>0 DEF Turns
  <1> QED
    BY <1>2, <1>3, <1>4, <1>5 DEF Turns

\* The server takes its packet, and its packets e go out.
Serving == toServer # <<>> /\ toServer' = Tail(toServer)
Replied(e) == toClient' = toClient \o e

LEMMA Served ==
    ASSUME TypeOK, Serving
    PROVE  /\ Head(toServer) \in Said /\ toServer' \in Seq(Said)
           /\ Packets(toServer) = {Head(toServer)} \cup Packets(toServer')
  <1>1. toServer \in Seq(Said) /\ toServer # <<>>
    BY DEF TypeOK, Serving
  <1>2. Packets(toServer) = {Head(toServer)} \cup Packets(Tail(toServer))
    BY <1>1, PacketsShorter
  <1> QED
    BY <1>1, <1>2, Shorter DEF Serving

LEMMA Answering ==
    ASSUME TypeOK, NEW e \in Seq(Told), Replied(e)
    PROVE  /\ toClient' \in Seq(Told) /\ Packets(toClient') = Packets(toClient) \cup Packets(e)
           /\ Packets(toClient) \subseteq Told /\ Packets(e) \subseteq Told
  <1>1. toClient \in Seq(Told)
    BY DEF TypeOK
  <1>2. toClient \o e \in Seq(Told) /\ Packets(toClient \o e) = Packets(toClient) \cup Packets(e)
    BY <1>1, Grown, PacketsGrown
  <1> QED
    BY <1>1, <1>2, PacketsIn DEF Replied

\* No question is behind a question.
LEMMA HeadAsks ==
    ASSUME TypeOK, Turns, Serving, Head(toServer).t \in Questions
    PROVE  /\ \A p \in Packets(toServer') : p.t \notin Questions
           /\ Quiet
  <1> DEFINE q == toServer
             r == Tail(toServer)
  <1>1. q \in Seq(Said) /\ q # <<>>
    BY DEF TypeOK, Serving
  <1>2. /\ 1 \in DOMAIN q /\ Head(q) = q[1]
        /\ \A i \in DOMAIN r : i \in Nat \ {0} /\ i + 1 \in DOMAIN q /\ r[i] = q[i + 1]
    BY <1>1, Shorter
  <1>3. \A i, j \in DOMAIN q : q[i].t \in Questions /\ q[j].t \in Questions => i = j
    BY DEF Turns
  <1>4. toServer' = r /\ q[1].t \in Questions
    BY <1>2 DEF Serving
  <1>5. Quiet
    BY <1>2, <1>4 DEF Turns, In, Packets
  <1> HIDE DEF q, r
  <1>6. ASSUME NEW i \in DOMAIN r, r[i].t \in Questions PROVE FALSE
    BY <1>2, <1>3, <1>4, <1>6
  <1>7. \A p \in Packets(r) : p.t \notin Questions
    BY <1>6 DEF Packets
  <1> QED
    BY <1>4, <1>5, <1>7

\* Of the server's answers: which may follow which, and what they go with.
Fitting(e) ==
    /\ \A i, j \in DOMAIN e : i < j => MayFollow(e[i], e[j].t)
    /\ \A p \in Packets(toClient), r \in Packets(e) : MayFollow(p, r.t)
    /\ \A j \in DOMAIN e : e[j].t = "EXT_INFO" => e[j].joined /\ j > 1 /\ e[j - 1].t = "NEWKEYS"

LEMMA TurnsAnswered ==
    ASSUME TypeOK, Turns, toServer' = toServer \/ Serving, NEW e \in Seq(Told), Replied(e),
           srv.noisy => srv'.noisy, srv.left => srv'.left, Fitting(e),
           In(toServer', Questions) => \A r \in Packets(e) : r.t \in Always,
           In(e, {"IGNORE"}) => srv'.noisy, In(e, {"DISCONNECT"}) => srv'.left
    PROVE  Turns'
  <1>1. /\ Packets(toClient') = Packets(toClient) \cup Packets(e)
    BY Answering
  <1>2. Packets(toServer') \subseteq Packets(toServer)
    BY Served
  <1>3. \A i, j \in DOMAIN toServer' :
          toServer'[i].t \in Questions /\ toServer'[j].t \in Questions => i = j
    <2>1. CASE toServer' = toServer
      BY <2>1 DEF Turns
    <2>2. CASE Serving
      <3> DEFINE q == toServer
                 r == Tail(toServer)
      <3>1. q \in Seq(Said) /\ q # <<>>
        BY <2>2 DEF TypeOK, Serving
      <3>2. \A i \in DOMAIN r : i \in Nat \ {0} /\ i + 1 \in DOMAIN q /\ r[i] = q[i + 1]
        BY <3>1, Shorter
      <3>3. \A i, j \in DOMAIN q : q[i].t \in Questions /\ q[j].t \in Questions => i = j
        BY DEF Turns
      <3>4. toServer' = r
        BY <2>2 DEF Serving
      <3> HIDE DEF q, r
      <3>5. ASSUME NEW i \in DOMAIN r, NEW j \in DOMAIN r, r[i].t \in Questions, r[j].t \in Questions
            PROVE  i = j
        <4>1. i + 1 = j + 1
          BY <3>2, <3>3, <3>5
        <4> QED
          BY <3>2, <4>1
      <3> QED
        BY <3>4, <3>5
    <2> QED
      BY <2>1, <2>2
  <1>4. In(toServer', Questions) => Quiet'
    BY <1>1, <1>2 DEF Turns, In, Quiet
  <1>5. (In(toClient', {"IGNORE"}) => srv'.noisy) /\ (In(toClient', {"DISCONNECT"}) => srv'.left)
    BY <1>1 DEF Turns, In
  <1> DEFINE q == toClient
             r == toClient \o e
  <1>6. /\ \A l \in DOMAIN q : l \in DOMAIN r /\ r[l] = q[l] /\ l <= Len(q) /\ l \in Nat
        /\ \A h \in DOMAIN e : Len(q) + h \in DOMAIN r /\ r[Len(q) + h] = e[h] /\ h \in Nat \ {0}
        /\ \A l \in DOMAIN r : l \in DOMAIN q \/ \E h \in DOMAIN e : l = Len(q) + h /\ r[l] = e[h]
        /\ Len(q) \in Nat
    BY Grown DEF TypeOK
  <1>7. /\ \A i, j \in DOMAIN q : i < j => MayFollow(q[i], q[j].t)
        /\ \A i \in DOMAIN q : q[i].t = "EXT_INFO" => q[i].joined /\ (i > 1 => q[i - 1].t = "NEWKEYS")
    BY DEF Turns
  <1>8. q \in Seq(Told) /\ DOMAIN q = 1..Len(q)
    BY LenProperties DEF TypeOK
  <1>9. toClient' = r
    BY DEF Replied
  <1>10. /\ \A i, j \in DOMAIN e : i < j => MayFollow(e[i], e[j].t)
         /\ \A i \in DOMAIN q, j \in DOMAIN e : MayFollow(q[i], e[j].t)
         /\ \A j \in DOMAIN e : e[j].t = "EXT_INFO" => e[j].joined /\ j > 1 /\ e[j - 1].t = "NEWKEYS"
    BY DEF Fitting, Packets
  <1>a. DOMAIN e = 1..Len(e) /\ Len(e) \in Nat
    BY LenProperties
  <1> HIDE DEF q, r
  <1>11. ASSUME NEW i \in DOMAIN r, NEW j \in DOMAIN r, i < j PROVE MayFollow(r[i], r[j].t)
    <2>1. CASE i \in DOMAIN q /\ j \in DOMAIN q
      BY <1>6, <1>7, <1>11, <2>1
    <2>2. CASE i \in DOMAIN q /\ j \notin DOMAIN q
      <3>1. PICK h \in DOMAIN e : r[j] = e[h]
        BY <1>6, <2>2
      <3> QED
        BY <1>6, <1>10, <2>2, <3>1
    <2>3. CASE i \notin DOMAIN q
      <3>1. PICK h \in DOMAIN e : i = Len(q) + h /\ r[i] = e[h]
        BY <1>6, <2>3
      <3>2. j \notin DOMAIN q
        BY <1>6, <1>11, <3>1
      <3>3. PICK k \in DOMAIN e : j = Len(q) + k /\ r[j] = e[k]
        BY <1>6, <3>2
      <3>4. h < k
        BY <1>6, <1>11, <3>1, <3>3
      <3> QED
        BY <1>10, <3>1, <3>3, <3>4
    <2> QED
      BY <2>1, <2>2, <2>3
  <1>12. ASSUME NEW i \in DOMAIN r, r[i].t = "EXT_INFO"
         PROVE  r[i].joined /\ (i > 1 => r[i - 1].t = "NEWKEYS")
    <2>1. CASE i \in DOMAIN q
      <3>1. r[i] = q[i] /\ i \in Nat
        BY <1>6, <2>1
      <3>2. q[i].joined /\ (i > 1 => q[i - 1].t = "NEWKEYS")
        BY <1>7, <1>12, <2>1, <3>1
      <3>3. i > 1 => i - 1 \in DOMAIN q
        BY <1>8, <2>1
      <3>4. i > 1 => r[i - 1] = q[i - 1]
        BY <1>6, <3>3
      <3> QED
        BY <3>1, <3>2, <3>4
    <2>2. CASE i \notin DOMAIN q
      <3>1. PICK h \in DOMAIN e : i = Len(q) + h /\ r[i] = e[h]
        BY <1>6, <2>2
      <3>2. e[h].joined /\ h > 1 /\ e[h - 1].t = "NEWKEYS"
        BY <1>10, <1>12, <3>1
      <3>3. h - 1 \in DOMAIN e
        BY <1>a, <3>2
      <3>4. r[Len(q) + (h - 1)] = e[h - 1]
        BY <1>6, <3>3
      <3>5. Len(q) + (h - 1) = i - 1
        BY <1>6, <1>a, <3>1
      <3> QED
        BY <3>1, <3>2, <3>4, <3>5
    <2> QED
      BY <2>1, <2>2
  <1> QED
    BY <1>3, <1>4, <1>5, <1>9, <1>11, <1>12 DEF Turns

-----------------------------------------------------------------------------
(* The keys in a step.                                                      *)

LEMMA ReadingRead ==
    ASSUME IInv, NEW m, Takes(m), c' \in ClientState,
           c'.why = "none" =>
              /\ c.why = "none" /\ m.t # "DISCONNECT"
              /\ c'.inKeys = IF m.t = "NEWKEYS" THEN c.derived ELSE c.inKeys
              /\ c'.derived = IF IsReply(m) THEN c.derived + 1 ELSE c.derived
    PROVE  Reading'
  <1> SUFFICES ASSUME c'.why = "none"
               PROVE  /\ srv'.out = IF In(toClient', {"NEWKEYS"}) THEN c'.inKeys + 1 ELSE c'.inKeys
                      /\ c'.derived = IF HasReply' THEN srv'.out - 1 ELSE srv'.out
                      /\ Keyed(toClient', c'.inKeys)
    BY DEF Reading
  <1>0. /\ TypeOK /\ Turns /\ Reading /\ toClient \in Seq(Told) /\ toClient # <<>>
        /\ srv.out \in Nat /\ c.inKeys \in Nat /\ c.derived \in Nat
        /\ toClient' = Tail(toClient) /\ m = Head(toClient) /\ srv' = srv
    BY DEF IInv, TypeOK, Takes, ClientState, ServerState
  <1>1. /\ m \in Told /\ Packets(toClient) = {m} \cup Packets(toClient')
        /\ \A p \in Packets(toClient') : MayFollow(m, p.t)
    BY Taking
  <1>2. /\ srv.out = IF In(toClient, {"NEWKEYS"}) THEN c.inKeys + 1 ELSE c.inKeys
        /\ c.derived = IF HasReply THEN srv.out - 1 ELSE srv.out
        /\ Keyed(toClient, c.inKeys)
    BY <1>0 DEF Reading
  <1>3. /\ In(toClient, {"NEWKEYS"}) <=> m.t = "NEWKEYS" \/ In(toClient', {"NEWKEYS"})
        /\ HasReply <=> IsReply(m) \/ HasReply'
    BY <1>1 DEF In, HasReply
  <1>4. m.t = "NEWKEYS" => ~In(toClient', {"NEWKEYS"}) /\ ~HasReply' /\ ~IsReply(m)
    BY <1>1 DEF In, HasReply, IsReply, MayFollow, Always
  <1>5. IsReply(m) => ~HasReply'
    BY <1>1 DEF HasReply, IsReply, MayFollow, Always
  <1>6. ASSUME NEW i \in DOMAIN toClient, NEW j \in DOMAIN toClient, toClient[i].t = "NEWKEYS", toClient[j].t = "NEWKEYS"
        PROVE  i = j
    <2>1. i \in Nat /\ j \in Nat
      BY <1>0, Shorter
    <2>2. \A a, b \in DOMAIN toClient : a < b => MayFollow(toClient[a], toClient[b].t)
      BY <1>0 DEF Turns
    <2>3. ~(i < j) /\ ~(j < i)
      BY <1>6, <2>2 DEF MayFollow, IsReply, Always
    <2> QED
      BY <2>1, <2>3
  <1>7. Keyed(toClient', IF m.t = "NEWKEYS" THEN c.inKeys + 1 ELSE c.inKeys)
    BY <1>0, <1>2, <1>6, KeyedShorter
  <1>8. c'.inKeys = IF m.t = "NEWKEYS" THEN c.inKeys + 1 ELSE c.inKeys
    BY <1>0, <1>2, <1>3, <1>4
  <1>9. Keyed(toClient', c'.inKeys)
    BY <1>7, <1>8
  <1>10. srv'.out = IF In(toClient', {"NEWKEYS"}) THEN c'.inKeys + 1 ELSE c'.inKeys
    BY <1>0, <1>2, <1>3, <1>4, <1>8
  <1>11. c'.derived = IF HasReply' THEN srv'.out - 1 ELSE srv'.out
    BY <1>0, <1>2, <1>3, <1>4, <1>5
  <1> QED
    BY <1>9, <1>10, <1>11

LEMMA ReadingSaid ==
    ASSUME IInv, toClient' = toClient, srv' = srv,
           c'.why = "none" => c.why = "none" /\ c'.inKeys = c.inKeys /\ c'.derived = c.derived
    PROVE  Reading'
  <1> SUFFICES ASSUME c'.why = "none"
               PROVE  /\ srv'.out = IF In(toClient', {"NEWKEYS"}) THEN c'.inKeys + 1 ELSE c'.inKeys
                      /\ c'.derived = IF HasReply' THEN srv'.out - 1 ELSE srv'.out
                      /\ Keyed(toClient', c'.inKeys)
    BY DEF Reading
  <1>1. HasReply' <=> HasReply
    BY DEF HasReply
  <1> QED
    BY <1>1 DEF IInv, Reading

\* The keys of the server's answers, and what it has sent with the reply.
Numbered(e) ==
    /\ \A j \in DOMAIN e : e[j].keys = IF Before(e, j, {"NEWKEYS"}) THEN srv.out + 1 ELSE srv.out
    /\ IF In(e, {"NEWKEYS"}) THEN Quiet /\ srv'.out = srv.out + 1 /\ \E p \in Packets(e) : IsReply(p)
       ELSE srv'.out = srv.out /\ \A p \in Packets(e) : ~IsReply(p)

LEMMA ReadingAnswered ==
    ASSUME IInv, NEW e \in Seq(Told), Replied(e), Numbered(e), c'.why = c.why,
           c'.inKeys = c.inKeys, c'.derived = c.derived
    PROVE  Reading'
  <1> SUFFICES ASSUME c.why = "none"
               PROVE  /\ srv'.out = IF In(toClient', {"NEWKEYS"}) THEN c.inKeys + 1 ELSE c.inKeys
                      /\ c.derived = IF HasReply' THEN srv'.out - 1 ELSE srv'.out
                      /\ Keyed(toClient', c.inKeys)
    BY DEF Reading
  <1>0. /\ TypeOK /\ toClient \in Seq(Told)
        /\ srv.out \in Nat /\ c.inKeys \in Nat /\ c.derived \in Nat
    BY DEF IInv, TypeOK, ClientState, ServerState
  <1>1. Packets(toClient') = Packets(toClient) \cup Packets(e)
    BY <1>0, Answering
  <1>2. /\ srv.out = IF In(toClient, {"NEWKEYS"}) THEN c.inKeys + 1 ELSE c.inKeys
        /\ c.derived = IF HasReply THEN srv.out - 1 ELSE srv.out
        /\ Keyed(toClient, c.inKeys)
    BY DEF IInv, Reading
  <1>3. Quiet => ~In(toClient, {"NEWKEYS"}) /\ ~HasReply
    BY DEF Quiet, In, HasReply, IsReply, Always
  <1>4. /\ In(toClient', {"NEWKEYS"}) <=> In(toClient, {"NEWKEYS"}) \/ In(e, {"NEWKEYS"})
        /\ HasReply' <=> HasReply \/ \E p \in Packets(e) : IsReply(p)
    BY <1>1 DEF In, HasReply
  <1>5. /\ \A j \in DOMAIN e : e[j].keys = IF Before(e, j, {"NEWKEYS"}) THEN srv.out + 1 ELSE srv.out
        /\ IF In(e, {"NEWKEYS"}) THEN Quiet /\ srv'.out = srv.out + 1 /\ \E p \in Packets(e) : IsReply(p)
           ELSE srv'.out = srv.out /\ \A p \in Packets(e) : ~IsReply(p)
    BY DEF Numbered
  <1>6. ASSUME NEW j \in DOMAIN e
        PROVE  e[j].keys = IF In(toClient, {"NEWKEYS"}) \/ Before(e, j, {"NEWKEYS"}) THEN c.inKeys + 1 ELSE c.inKeys
    <2>1. Before(e, j, {"NEWKEYS"}) => In(e, {"NEWKEYS"})
      BY DEF Before, In, Packets
    <2>2. Before(e, j, {"NEWKEYS"}) => ~In(toClient, {"NEWKEYS"})
      BY <1>3, <1>5, <2>1
    <2> QED
      BY <1>2, <1>5, <2>2
  <1>7. Keyed(toClient', c.inKeys)
    <2>1. Keyed(toClient \o e, c.inKeys)
      BY <1>0, <1>2, <1>6, KeyedGrown
    <2> QED
      BY <2>1 DEF Replied
  <1>8. srv'.out = IF In(toClient', {"NEWKEYS"}) THEN c.inKeys + 1 ELSE c.inKeys
    BY <1>0, <1>2, <1>3, <1>4, <1>5
  <1>9. c.derived = IF HasReply' THEN srv'.out - 1 ELSE srv'.out
    BY <1>0, <1>2, <1>3, <1>4, <1>5
  <1> QED
    BY <1>7, <1>8, <1>9

\* What the client says is written with its keys, and NEWKEYS changes them.
Written(e) ==
    /\ \A j \in DOMAIN e : e[j].keys = c.outKeys
    /\ \A i, j \in DOMAIN e : i < j => e[i].t # "NEWKEYS"
    /\ \A i, j \in DOMAIN e : e[i].t = "NEWKEYS" /\ e[j].t = "NEWKEYS" => i = j
    /\ IF In(e, {"NEWKEYS"}) THEN ~c.hostOK /\ c'.hostOK /\ (c'.why = "none" => c'.outKeys = 1)
       ELSE c'.hostOK = c.hostOK /\ c'.outKeys = c.outKeys
    /\ c'.why # "none" <=> c.why # "none" \/ In(e, {"DISCONNECT"})
    /\ c'.link = "up" => c'.why = "none"

LEMMA WritingSaid ==
    ASSUME TypeOK, Writing, NEW e \in Seq(Said), Says(e), srv' = srv, Written(e), c' \in ClientState
    PROVE  Writing'
  <1>0. toServer \in Seq(Said) /\ srv.in \in Nat /\ c.outKeys \in Nat /\ c.hostOK \in BOOLEAN /\ c'.hostOK \in BOOLEAN
    BY DEF TypeOK, ServerState, ClientState
  <1>1. Packets(toServer') = Packets(toServer) \cup Packets(e)
    BY Saying
  <1>2. \A T : In(toServer', T) <=> In(toServer, T) \/ In(e, T)
    BY <1>1 DEF In
  <1>3. /\ \A j \in DOMAIN e : e[j].keys = c.outKeys
        /\ \A i, j \in DOMAIN e : i < j => e[i].t # "NEWKEYS"
        /\ \A i, j \in DOMAIN e : e[i].t = "NEWKEYS" /\ e[j].t = "NEWKEYS" => i = j
        /\ IF In(e, {"NEWKEYS"}) THEN ~c.hostOK /\ c'.hostOK /\ (c'.why = "none" => c'.outKeys = 1)
           ELSE c'.hostOK = c.hostOK /\ c'.outKeys = c.outKeys
        /\ c'.why # "none" <=> c.why # "none" \/ In(e, {"DISCONNECT"})
        /\ c'.link = "up" => c'.why = "none"
    BY DEF Written
  <1>4. /\ c.why = "none" => /\ ~In(toServer, {"DISCONNECT"})
                             /\ c.outKeys = IF In(toServer, {"NEWKEYS"}) THEN srv.in + 1 ELSE srv.in
        /\ c.why # "none" => srv.left \/ In(toServer, {"DISCONNECT"})
        /\ srv.left \/ Keyed(toServer, srv.in)
        /\ srv.in \in {0, 1}
        /\ In(toServer, {"NEWKEYS"}) => c.hostOK /\ srv.in = 0
        /\ ~c.hostOK => c.outKeys = 0 /\ srv.in = 0
    BY DEF Writing
  <1>5. c'.why = "none" => /\ ~In(toServer', {"DISCONNECT"})
                           /\ c'.outKeys = IF In(toServer', {"NEWKEYS"}) THEN srv.in + 1 ELSE srv.in
    BY <1>0, <1>2, <1>3, <1>4
  <1>6. c'.why # "none" => srv.left \/ In(toServer', {"DISCONNECT"})
    BY <1>2, <1>3, <1>4
  <1>7. srv.left \/ Keyed(toServer', srv.in)
    <2> SUFFICES ASSUME ~srv.left PROVE Keyed(toServer', srv.in)
      OBVIOUS
    <2>1. ASSUME NEW j \in DOMAIN e, ~In(toServer, {"DISCONNECT"})
          PROVE  e[j].keys = IF In(toServer, {"NEWKEYS"}) \/ Before(e, j, {"NEWKEYS"}) THEN srv.in + 1 ELSE srv.in
      <3>1. ~Before(e, j, {"NEWKEYS"})
        BY <1>3 DEF Before
      <3>2. c.why = "none"
        BY <1>4, <2>1
      <3> QED
        BY <1>3, <1>4, <3>1, <3>2
    <2>2. Keyed(toServer, srv.in)
      BY <1>4
    <2>3. Keyed(toServer \o e, srv.in)
      BY <1>0, <2>1, <2>2, KeyedGrown
    <2> QED
      BY <2>3 DEF Says
  <1>8. \A i, j \in DOMAIN toServer' : toServer'[i].t = "NEWKEYS" /\ toServer'[j].t = "NEWKEYS" => i = j
    <2> DEFINE q == toServer
               r == toServer \o e
    <2>1. /\ \A l \in DOMAIN q : l \in DOMAIN r /\ r[l] = q[l]
          /\ \A l \in DOMAIN r : l \in DOMAIN q \/ \E h \in DOMAIN e : l = Len(q) + h /\ r[l] = e[h]
      BY SMTT(40), <1>0, Grown
    <2>2. toServer' = r
      BY DEF Says
    <2>3. \A i, j \in DOMAIN q : q[i].t = "NEWKEYS" /\ q[j].t = "NEWKEYS" => i = j
      BY DEF Writing
    <2>4. In(q, {"NEWKEYS"}) => ~In(e, {"NEWKEYS"})
      BY <1>3, <1>4
    <2> HIDE DEF q, r
    <2> SUFFICES ASSUME NEW i \in DOMAIN r, NEW j \in DOMAIN r, r[i].t = "NEWKEYS", r[j].t = "NEWKEYS"
                 PROVE  i = j
      BY <2>2
    <2>5. CASE In(e, {"NEWKEYS"})
      <3>1. i \notin DOMAIN q /\ j \notin DOMAIN q
        BY <2>1, <2>4, <2>5 DEF In, Packets
      <3>2. PICK h \in DOMAIN e : i = Len(q) + h /\ r[i] = e[h]
        BY <2>1, <3>1
      <3>3. PICK k \in DOMAIN e : j = Len(q) + k /\ r[j] = e[k]
        BY <2>1, <3>1
      <3> QED
        BY <1>3, <3>2, <3>3
    <2>6. CASE ~In(e, {"NEWKEYS"})
      <3>1. i \in DOMAIN q /\ j \in DOMAIN q
        BY <2>1, <2>6 DEF In, Packets
      <3> QED
        BY <2>1, <2>3, <3>1
    <2> QED
      BY <2>5, <2>6
  <1>9. In(toServer', {"NEWKEYS"}) => c'.hostOK /\ srv.in = 0
    BY <1>2, <1>3, <1>4
  <1>10. ~c'.hostOK => c'.outKeys = 0 /\ srv.in = 0
    BY <1>3, <1>4
  <1>11. c'.link = "up" => c'.why = "none"
    BY <1>3
  <1> QED
    BY <1>4, <1>5, <1>6, <1>7, <1>8, <1>9, <1>10, <1>11 DEF Writing

-----------------------------------------------------------------------------
(* The invariant, put together from its parts after a step of the client.   *)

\* What is told of the state stays as it is.
Alike(s, t) == Kept(s, t) /\ t.enabled = s.enabled

LEMMA ExchangingRead ==
    ASSUME IInv, NEW m, Takes(m), NEW e \in Seq(Said), Says(e), Standing',
           m.t = "NEWKEYS" /\ c'.why = "none" => "EXT_INFO" \in c'.enabled,
           \A p \in Packets(toServer) : KexAsked(p)', \A p \in Packets(e) : KexAsked(p)',
           \A p \in Packets(toClient') : KexTold(p)'
    PROVE  Exchanging'
  <1>0. /\ srv' = srv /\ Packets(toServer') = Packets(toServer) \cup Packets(e)
        /\ Packets(toClient) = {m} \cup Packets(toClient')
        /\ \A p \in Packets(toClient') : MayFollow(m, p.t)
        /\ toClient' # <<>> /\ Head(toClient').t = "EXT_INFO" => m.t = "NEWKEYS"
    BY Taking, Saying DEF IInv, Takes
  <1>1. HasReply => In(toClient, {"NEWKEYS"})
    BY DEF IInv, Exchanging
  <1>2. srv.out = 0 => ~In(toClient, {"NEWKEYS"})
    BY DEF IInv, Exchanging
  <1>3. HasReply' => In(toClient', {"NEWKEYS"})
    BY <1>0, <1>1 DEF HasReply, In, IsReply, MayFollow, Always
  <1>4. srv'.out = 0 => ~In(toClient', {"NEWKEYS"})
    BY <1>0, <1>2 DEF In
  <1>5. \A p \in Packets(toServer') : KexAsked(p)'
    BY <1>0
  <1> QED
    BY <1>0, <1>3, <1>4, <1>5 DEF Exchanging

LEMMA LoggingInRead ==
    ASSUME IInv, NEW m, Takes(m), NEW e \in Seq(Said), Says(e), Progress',
           c.success \/ m.t = "SUCCESS" <=> c'.success,
           \A p \in Packets(toServer) : UserAsked(p)', \A p \in Packets(e) : UserAsked(p)',
           \A p \in Packets(toClient') : UserTold(p)'
    PROVE  LoggingIn'
  <1>0. /\ srv' = srv /\ Packets(toServer') = Packets(toServer) \cup Packets(e)
        /\ Packets(toClient) = {m} \cup Packets(toClient')
        /\ \A p \in Packets(toClient') : MayFollow(m, p.t)
    BY Taking, Saying DEF IInv, Takes
  <1>1. srv.auth => c.success \/ In(toClient, {"SUCCESS"})
    BY DEF IInv, LoggingIn
  <1>2. srv.kex = "idle" => ~In(toClient, {"KEXINIT"}) /\ (c.success => \A p \in Packets(toClient) : p.t \in Always \cup {"DATA"})
    BY DEF IInv, LoggingIn
  <1>3. srv'.auth => c'.success \/ In(toClient', {"SUCCESS"})
    BY <1>0, <1>1 DEF In
  <1>4. srv'.kex = "idle" => ~In(toClient', {"KEXINIT"})
    BY <1>0, <1>2 DEF In
  <1>5. ASSUME srv'.kex = "idle", c'.success, NEW p \in Packets(toClient') PROVE p.t \in Always \cup {"DATA"}
    <2>1. CASE c.success
      BY <1>0, <1>2, <1>5, <2>1
    <2>2. CASE m.t = "SUCCESS"
      <3>1. MayFollow(m, p.t) /\ p.t # "KEXINIT"
        BY <1>0, <1>4, <1>5 DEF In
      <3> QED
        BY <2>2, <3>1 DEF MayFollow, IsReply
    <2> QED
      BY <1>5, <2>1, <2>2
  <1>6. \A p \in Packets(toServer') : UserAsked(p)'
    BY <1>0
  <1> QED
    BY <1>3, <1>4, <1>5, <1>6 DEF LoggingIn

LEMMA ReadStep ==
    ASSUME IInv, NEW m, Takes(m), NEW e \in Seq(Said), Says(e),
           c' \in ClientState, c'.out = <<>>, c'.kex \in Stages,
           Single(e), In(e, Questions) => Last(m), Written(e),
           c'.why = "none" =>
              /\ c.why = "none" /\ m.t # "DISCONNECT"
              /\ c'.inKeys = IF m.t = "NEWKEYS" THEN c.derived ELSE c.inKeys
              /\ c'.derived = IF IsReply(m) THEN c.derived + 1 ELSE c.derived,
           m.t = "NEWKEYS" /\ c'.why = "none" => "EXT_INFO" \in c'.enabled,
           c.success \/ m.t = "SUCCESS" <=> c'.success,
           Standing', Progress',
           \A p \in Packets(toServer) : KexAsked(p)' /\ UserAsked(p)',
           \A p \in Packets(e) : KexAsked(p)' /\ UserAsked(p)',
           \A p \in Packets(toClient') : KexTold(p)' /\ UserTold(p)'
    PROVE  IInv'
  <1>1. TypeOK'
    BY Taking, Saying DEF IInv, TypeOK, Takes
  <1>2. Turns'
    BY TurnsRead
  <1>3. Exchanging'
    BY ExchangingRead
  <1>4. Reading'
    BY ReadingRead
  <1>5. Writing'
    BY WritingSaid DEF IInv, Takes
  <1>6. LoggingIn'
    BY LoggingInRead
  <1> QED
    BY <1>1, <1>2, <1>3, <1>4, <1>5, <1>6 DEF IInv

LEMMA SaidStep ==
    ASSUME IInv, toClient' = toClient, srv' = srv, NEW e \in Seq(Said), Says(e),
           c' \in ClientState, c'.out = <<>>, c'.kex \in Stages,
           Single(e), In(e, Questions) => Quiet /\ ~In(toServer, Questions), Written(e),
           c'.why = "none" => c.why = "none" /\ c'.inKeys = c.inKeys /\ c'.derived = c.derived,
           c.enabled \subseteq c'.enabled \/ Quiet, c'.success = c.success,
           Standing', Progress',
           \A p \in Packets(toServer) : KexAsked(p)' /\ UserAsked(p)',
           \A p \in Packets(e) : KexAsked(p)' /\ UserAsked(p)',
           \A p \in Packets(toClient) : KexTold(p)' /\ UserTold(p)'
    PROVE  IInv'
  <1>0. Packets(toServer') = Packets(toServer) \cup Packets(e) /\ toServer' \in Seq(Said)
    BY Saying DEF IInv
  <1>1. TypeOK'
    BY <1>0 DEF IInv, TypeOK
  <1>2. Turns'
    BY TurnsSaid
  <1>3. Exchanging'
    <2>1. \A p \in Packets(toServer') : KexAsked(p)'
      BY <1>0
    <2>2. ASSUME toClient # <<>>, Head(toClient).t = "EXT_INFO", c'.why = "none" PROVE "EXT_INFO" \in c'.enabled
      <3>1. "EXT_INFO" \in c.enabled
        BY <2>2 DEF IInv, Exchanging
      <3>2. ~Quiet
        <4>1. Head(toClient) \in Packets(toClient)
          BY <2>2, PacketsShorter DEF IInv, TypeOK
        <4> QED
          BY <2>2, <4>1 DEF Quiet, Always
      <3> QED
        BY <3>1, <3>2
    <2>3. (HasReply => In(toClient, {"NEWKEYS"})) /\ (srv.out = 0 => ~In(toClient, {"NEWKEYS"}))
      BY DEF IInv, Exchanging
    <2>4. HasReply' <=> HasReply
      BY DEF HasReply
    <2> QED
      BY <2>1, <2>2, <2>3, <2>4 DEF Exchanging
  <1>4. Reading'
    BY ReadingSaid
  <1>5. Writing'
    BY WritingSaid DEF IInv
  <1>6. LoggingIn'
    <2>1. \A p \in Packets(toServer') : UserAsked(p)'
      BY <1>0
    <2> QED
      BY <2>1 DEF IInv, LoggingIn
  <1> QED
    BY <1>1, <1>2, <1>3, <1>4, <1>5, <1>6 DEF IInv

-----------------------------------------------------------------------------
(* What is sent: nothing, one packet, or two.                               *)

LEMMA NothingSent ==
    ASSUME c'.hostOK = c.hostOK, c'.outKeys = c.outKeys, c'.why # "none" <=> c.why # "none",
           c'.link = "up" => c'.why = "none"
    PROVE  /\ <<>> \in Seq(Said) /\ Packets(<<>>) = {} /\ Single(<<>>) /\ ~In(<<>>, Questions)
           /\ Written(<<>>)
  <1>1. <<>> \in Seq(Said) /\ DOMAIN <<>> = {}
    BY EmptySeq
  <1>2. Packets(<<>>) = {} /\ Single(<<>>)
    BY <1>1 DEF Packets, Single
  <1>3. \A T : ~In(<<>>, T)
    BY <1>2 DEF In
  <1> QED
    BY <1>1, <1>2, <1>3 DEF Written

LEMMA OwnIs ==
    ASSUME NEW s \in ClientState, NEW t \in ClientTypes, NEW what \in Whats, NEW n \in Prompts \cup {0}
    PROVE  /\ Own(s, t, what, n) \in Said
           /\ Own(s, t, what, n).t = t /\ Own(s, t, what, n).what = what
           /\ Own(s, t, what, n).n = n /\ Own(s, t, what, n).keys = s.outKeys
  BY OwnSaid DEF Own, Packet

LEMMA OneSent ==
    ASSUME NEW x \in Said, NEW e, e = <<x>>, x.keys = c.outKeys,
           IF x.t = "NEWKEYS" THEN ~c.hostOK /\ c'.hostOK /\ (c'.why = "none" => c'.outKeys = 1)
           ELSE c'.hostOK = c.hostOK /\ c'.outKeys = c.outKeys,
           c'.why # "none" <=> c.why # "none" \/ x.t = "DISCONNECT",
           c'.link = "up" => c'.why = "none"
    PROVE  /\ e \in Seq(Said) /\ Packets(e) = {x} /\ Single(e)
           /\ In(e, Questions) <=> x.t \in Questions
           /\ Written(e)
  <1>1. e \in Seq(Said) /\ DOMAIN e = {1} /\ e[1] = x
    BY OneOf
  <1>2. Packets(e) = {x} /\ Single(e)
    BY <1>1 DEF Packets, Single
  <1>3. \A T : In(e, T) <=> x.t \in T
    BY <1>2 DEF In
  <1>4. /\ \A j \in DOMAIN e : e[j].keys = c.outKeys
        /\ \A i, j \in DOMAIN e : i < j => e[i].t # "NEWKEYS"
        /\ \A i, j \in DOMAIN e : e[i].t = "NEWKEYS" /\ e[j].t = "NEWKEYS" => i = j
    BY <1>1
  <1>5. Written(e)
    BY <1>3, <1>4 DEF Written
  <1> QED
    BY <1>1, <1>2, <1>3, <1>5

\* What is known of such a packet.
Utters(e, t, what, n) ==
    /\ e \in Seq(Said) /\ Single(e) /\ Written(e)
    /\ In(e, Questions) <=> t \in Questions
    /\ \A p \in Packets(e) : p.t = t /\ p.what = what /\ p.n = n /\ p.keys = c.outKeys

LEMMA OneSaid ==
    ASSUME c \in ClientState, NEW e, NEW t \in ClientTypes, NEW what \in Whats, NEW n \in Prompts \cup {0},
           Speaks(c, e, t, what, n),
           IF t = "NEWKEYS" THEN ~c.hostOK /\ c'.hostOK /\ (c'.why = "none" => c'.outKeys = 1)
           ELSE c'.hostOK = c.hostOK /\ c'.outKeys = c.outKeys,
           c'.why # "none" <=> c.why # "none" \/ t = "DISCONNECT",
           c'.link = "up" => c'.why = "none"
    PROVE  Utters(e, t, what, n)
  <1> DEFINE x == Own(c, t, what, n)
  <1>1. x \in Said /\ x.t = t /\ x.what = what /\ x.n = n /\ x.keys = c.outKeys
    BY OwnIs
  <1>2. e = <<x>>
    BY DEF Speaks
  <1> HIDE DEF x
  <1>3. /\ e \in Seq(Said) /\ Packets(e) = {x} /\ Single(e)
        /\ In(e, Questions) <=> x.t \in Questions
        /\ Written(e)
    BY <1>1, <1>2, OneSent
  <1> QED
    BY <1>1, <1>3 DEF Utters

\* A packet other than NEWKEYS and DISCONNECT.
LEMMA PlainSaid ==
    ASSUME c \in ClientState, NEW e, NEW t \in ClientTypes \ {"NEWKEYS", "DISCONNECT"},
           NEW what \in Whats, NEW n \in Prompts \cup {0}, Speaks(c, e, t, what, n),
           c'.hostOK = c.hostOK, c'.outKeys = c.outKeys, c'.why = c.why, c'.link = "up" => c'.why = "none"
    PROVE  Utters(e, t, what, n)
  <1>1. t # "NEWKEYS" /\ t # "DISCONNECT" /\ t \in ClientTypes
    OBVIOUS
  <1> QED
    BY <1>1, OneSaid

Both(p, q) == <<p>> \o <<q>>

LEMMA TwoOf ==
    ASSUME NEW S, NEW x \in S, NEW y \in S, NEW e, e = Both(x, y)
    PROVE  /\ e \in Seq(S) /\ DOMAIN e = 1..2
           /\ e[1] = x /\ e[2] = y
  <1>1. <<x>> \in Seq(S) /\ <<y>> \in Seq(S) /\ Len(<<x>>) = 1 /\ Len(<<y>>) = 1 /\ <<x>>[1] = x /\ <<y>>[1] = y
    BY OneOf, LenProperties
  <1> DEFINE a == <<x>>
             b == <<y>>
  <1>2. a \in Seq(S) /\ b \in Seq(S) /\ Len(a) = 1 /\ Len(b) = 1 /\ a[1] = x /\ b[1] = y /\ e = a \o b
    BY <1>1 DEF Both
  <1> HIDE DEF a, b
  <1>3. /\ a \o b \in Seq(S) /\ Len(a \o b) = 2
        /\ \A i \in 1..2 : (a \o b)[i] = IF i <= 1 THEN a[i] ELSE b[i - 1]
    BY <1>2, ConcatProperties
  <1>4. e \in Seq(S) /\ Len(e) = 2 /\ e[1] = x /\ e[2] = b[2 - 1]
    BY <1>2, <1>3
  <1>5. DOMAIN e = 1..2
    BY <1>4, LenProperties
  <1> QED
    BY <1>2, <1>4, <1>5

\* Written with the old keys; NEWKEYS comes last.
Old(e) ==
    /\ \A j \in DOMAIN e : e[j].keys = c.outKeys
    /\ \A i, j \in DOMAIN e : i < j => e[i].t # "NEWKEYS"
    /\ \A i, j \in DOMAIN e : e[i].t = "NEWKEYS" /\ e[j].t = "NEWKEYS" => i = j

LEMMA TwoPackets ==
    ASSUME NEW x, NEW y, NEW e, DOMAIN e = 1..2, e[1] = x, e[2] = y,
           x.t \in {"KEXINIT", "DISCONNECT"}, x.keys = c.outKeys, y.keys = c.outKeys
    PROVE  Packets(e) = {x, y} /\ Single(e) /\ Old(e)
  <1>1. Packets(e) = {x, y}
    BY DEF Packets
  <1>2. \A i \in DOMAIN e : e[i].t \in Questions \cup {"NEWKEYS"} => i = 2
    BY DEF Questions, KexAsks, UserAsks
  <1>3. Single(e)
    BY <1>2 DEF Single
  <1>4. \A j \in DOMAIN e : e[j].keys = c.outKeys
    OBVIOUS
  <1>5. \A i, j \in DOMAIN e : i < j => e[i].t # "NEWKEYS"
    BY <1>2
  <1>6. \A i, j \in DOMAIN e : e[i].t = "NEWKEYS" /\ e[j].t = "NEWKEYS" => i = j
    BY <1>2
  <1> QED
    BY <1>1, <1>3, <1>4, <1>5, <1>6 DEF Old

LEMMA TwoSent ==
    ASSUME NEW x \in Said, NEW y \in Said, NEW e, e = Both(x, y),
           x.t \in {"KEXINIT", "DISCONNECT"}, x.keys = c.outKeys, y.keys = c.outKeys, y.t # "DISCONNECT",
           IF y.t = "NEWKEYS" THEN ~c.hostOK /\ c'.hostOK /\ (c'.why = "none" => c'.outKeys = 1)
           ELSE c'.hostOK = c.hostOK /\ c'.outKeys = c.outKeys,
           c'.why # "none" <=> c.why # "none" \/ x.t = "DISCONNECT",
           c'.link = "up" => c'.why = "none"
    PROVE  /\ e \in Seq(Said) /\ Packets(e) = {x, y} /\ Single(e)
           /\ In(e, Questions) <=> y.t \in Questions
           /\ Written(e)
  <1>1. e \in Seq(Said) /\ DOMAIN e = 1..2 /\ e[1] = x /\ e[2] = y
    BY TwoOf
  <1>2. Packets(e) = {x, y} /\ Single(e) /\ Old(e)
    BY <1>1, TwoPackets
  <1>3. \A T : In(e, T) <=> x.t \in T \/ y.t \in T
    BY <1>2 DEF In
  <1>4. Written(e)
    BY <1>2, <1>3 DEF Written, Old
  <1>5. In(e, Questions) <=> y.t \in Questions
    BY <1>3 DEF Questions, KexAsks, UserAsks
  <1> QED
    BY <1>1, <1>2, <1>4, <1>5

-----------------------------------------------------------------------------
(* What is known of a packet that the client takes.                         *)

LEMMA ToldOf ==
    ASSUME IInv, NEW m, Takes(m)
    PROVE  /\ KexTold(m) /\ UserTold(m) /\ m \in Told
           /\ \A p \in Packets(toClient') : KexTold(p) /\ UserTold(p) /\ MayFollow(m, p.t) /\ p \in Told
           /\ \A p \in Packets(toServer) : KexAsked(p) /\ UserAsked(p) /\ (m.t \notin Always => p.t \notin Questions)
           /\ srv' = srv /\ c \in ClientState /\ c.kex \in Stages /\ c.out = <<>> /\ srv \in ServerState
           /\ srv.auth /\ ~c.success => m.t = "SUCCESS" \/ In(toClient', {"SUCCESS"})
           /\ HasReply <=> IsReply(m) \/ HasReply'
           /\ IsReply(m) => srv.out # 0
           /\ m.t = "NEWKEYS" => srv.out # 0
           /\ srv.kex = "idle" => m.t # "KEXINIT"
           /\ m.t = "IGNORE" => srv.noisy
           /\ m.t = "DISCONNECT" => srv.left
  <1>1. /\ m \in Told /\ Packets(toClient) = {m} \cup Packets(toClient') /\ Packets(toClient') \subseteq Told
        /\ \A p \in Packets(toClient') : MayFollow(m, p.t)
        /\ m.t \notin Always => \A p \in Packets(toServer) : p.t \notin Questions
        /\ m.t = "IGNORE" => srv.noisy
        /\ m.t = "DISCONNECT" => srv.left
    BY Taking
  <1>2. \A p \in Packets(toClient) : KexTold(p) /\ UserTold(p)
    BY DEF IInv, Exchanging, LoggingIn
  <1>3. \A p \in Packets(toServer) : KexAsked(p) /\ UserAsked(p)
    BY DEF IInv, Exchanging, LoggingIn
  <1>4. srv' = srv /\ c \in ClientState /\ c.kex \in Stages /\ c.out = <<>> /\ srv \in ServerState
    BY DEF IInv, TypeOK, Takes
  <1>5. srv.auth /\ ~c.success => m.t = "SUCCESS" \/ In(toClient', {"SUCCESS"})
    BY <1>1 DEF IInv, LoggingIn, In
  <1>6. HasReply <=> IsReply(m) \/ HasReply'
    BY <1>1 DEF HasReply
  <1>7. (HasReply => In(toClient, {"NEWKEYS"})) /\ (srv.out = 0 => ~In(toClient, {"NEWKEYS"}))
    BY DEF IInv, Exchanging
  <1>8. m.t = "NEWKEYS" => In(toClient, {"NEWKEYS"})
    BY <1>1 DEF In
  <1>9. srv.kex = "idle" => m.t # "KEXINIT"
    BY <1>1 DEF IInv, LoggingIn, In
  <1> QED
    BY <1>1, <1>2, <1>3, <1>4, <1>5, <1>6, <1>7, <1>8, <1>9

\* While the user reads prompts, only what is always handled arrives.
LEMMA PromptsStand ==
    ASSUME IInv, NEW m, Takes(m), c.authDlg # "none", c.tis
    PROVE  m.t \in Always /\ (srv.noisy \/ srv.left)
  <1>1. KexTold(m) /\ UserTold(m) /\ m \in Told
    BY ToldOf
  <1>2. c.kex = {"done"} /\ ~c.success /\ c.tryed
    BY DEF IInv, LoggingIn, Progress
  <1>3. srv.auth => In(toClient, {"SUCCESS"})
    BY <1>2 DEF IInv, LoggingIn
  <1>4. ~In(toClient, {"SUCCESS"})
    <2>1. \A p \in Packets(toClient) : UserTold(p)
      BY DEF IInv, LoggingIn
    <2> QED
      BY <2>1 DEF In, UserTold
  <1>5. m.t \notin UserAnswers
    BY <1>1 DEF UserTold, InAuth, Listing
  <1>6. m.t \notin {"31", "33", "KEXINIT", "NEWKEYS", "EXT_INFO", "DATA"}
    BY <1>1, <1>2, <1>3, <1>4 DEF KexTold, Pending
  <1>7. m.t \in Types
    BY <1>1 DEF Told
  <1>8. m.t \in Always
    BY <1>5, <1>6, <1>7 DEF Types, Always, Transfer, UserAnswers
  <1> QED
    BY <1>8, ToldOf DEF Always

-----------------------------------------------------------------------------
(* The client reads a packet.                                               *)

\* The client handled m and sends e.
Handled(m, e) ==
    Takes(m) /\ Says(e) /\ c' \in ClientState /\ c'.out = <<>>

\* Nothing comes of it, or the connection is left.
LEMMA ReadStays ==
    ASSUME IInv, NEW m, NEW e \in Seq(Said), Handled(m, e),
           KexKept(c, c'), UserKept(c, c'), c'.enabled = c.enabled,
           c'.hostDlg \in {c.hostDlg, "none"}, c'.authDlg \in {c.authDlg, "none"},
           c'.handles60 = c.handles60 \/ m.t = "60", m.t # "SUCCESS",
           Written(e), Single(e), \A p \in Packets(e) : p.t = "DISCONNECT",
           c'.why = "none" => c.why = "none" /\ m.t \notin {"31", "33", "NEWKEYS", "DISCONNECT"}
    PROVE  IInv'
  <1>0. /\ KexTold(m) /\ UserTold(m) /\ m \in Told
        /\ \A p \in Packets(toClient') : KexTold(p) /\ UserTold(p) /\ MayFollow(m, p.t)
        /\ \A p \in Packets(toServer) : KexAsked(p) /\ UserAsked(p) /\ (m.t \notin Always => p.t \notin Questions)
        /\ srv' = srv /\ c \in ClientState /\ c.kex \in Stages /\ srv \in ServerState
        /\ HasReply <=> IsReply(m) \/ HasReply'
    BY ToldOf DEF Handled
  <1>1. /\ c'.kex = c.kex /\ c'.kind = c.kind /\ c'.derived = c.derived
        /\ c'.inKeys = c.inKeys /\ c'.outKeys = c.outKeys
        /\ c'.hostOK = c.hostOK /\ c'.nameOK = c.nameOK /\ c'.success = c.success
        /\ c'.listFirst = c.listFirst /\ c'.listAsked = c.listAsked /\ c'.method = c.method
        /\ c'.tryed = c.tryed /\ c'.retried = c.retried /\ c'.tis = c.tis
    BY DEF KexKept, UserKept
  <1>2. Standing'
    <2>1. Standing
      BY DEF IInv, Exchanging
    <2> QED
      BY <1>0, <1>1, <2>1 DEF Standing
  <1>3. Pending => Pending'
    BY <1>1 DEF Pending
  <1>4. m.t # "60" => (InAuth => InAuth')
    BY <1>1 DEF InAuth, Listing
  <1>5. \A n : Fits(n) <=> Fits(n)'
    BY <1>0 DEF Fits
  <1>6. Progress'
    <2>1. Progress
      BY DEF IInv, LoggingIn
    <2>2. c'.authDlg # "none" /\ c'.tis => Fits(c.payload.n)'
      BY <1>0, <1>1, PromptsStand DEF Fits, Handled
    <2>3. m.t = "60" => c.tryed /\ c.authDlg = "none"
      BY <1>0 DEF UserTold
    <2> QED
      BY <1>0, <1>1, <2>1, <2>2, <2>3 DEF Progress
  <1>7. ASSUME NEW p \in Packets(toServer) PROVE KexAsked(p)' /\ UserAsked(p)'
    <2>0. KexAsked(p) /\ UserAsked(p) /\ (m.t = "60" => p.t \notin Questions)
      BY <1>0 DEF Always
    <2>1. KexAsked(p)'
      BY <1>1, <1>3, <2>0 DEF KexAsked
    <2>2. UserAsked(p)'
      BY <1>0, <1>1, <1>4, <1>5, <2>0 DEF UserAsked, Questions, UserAsks
    <2> QED
      BY <2>1, <2>2
  <1>8. ASSUME NEW p \in Packets(toClient') PROVE KexTold(p)' /\ UserTold(p)'
    <2>0. KexTold(p) /\ UserTold(p) /\ MayFollow(m, p.t)
      BY <1>0
    <2>1. KexTold(p)'
      <3>1. HasReply => HasReply' \/ m.t \in {"31", "33"}
        BY <1>0 DEF IsReply
      <3> QED
        BY <1>0, <1>1, <1>3, <2>0, <3>1 DEF KexTold
    <2>2. m.t = "60" => p.t \in Always
      BY <2>0 DEF MayFollow, IsReply
    <2>3. UserTold(p)'
      BY <1>0, <1>1, <1>4, <1>5, <2>0, <2>2 DEF UserTold, UserAnswers, Always, Auth
    <2> QED
      BY <2>1, <2>3
  <1>9. \A p \in Packets(e) : KexAsked(p)' /\ UserAsked(p)'
    BY DEF KexAsked, UserAsked, KexAsks, UserAsks
  <1>10. ~In(e, Questions)
    BY DEF In, Questions, KexAsks, UserAsks
  <1>11. c'.why = "none" => c.why = "none" /\ m.t # "DISCONNECT" /\ m.t # "NEWKEYS" /\ ~IsReply(m)
    BY DEF IsReply
  <1> QED
    BY <1>0, <1>1, <1>2, <1>6, <1>7, <1>8, <1>9, <1>10, <1>11, ReadStep DEF Handled

\* Packets that are no questions to the server: nothing is asked of them but
\* that an OPEN comes after the login.
LEMMA NoQuestion ==
    ASSUME NEW p, KexAsked(p), UserAsked(p), p.t \notin Questions, c.success => c'.success
    PROVE  KexAsked(p)' /\ UserAsked(p)'
  BY DEF KexAsked, UserAsked, Questions, KexAsks, UserAsks

\* Packets that are always handled tell nothing.
LEMMA AlwaysTold ==
    ASSUME NEW p, p.t \in Always
    PROVE  KexTold(p)' /\ UserTold(p)'
  BY DEF KexTold, UserTold, Always, UserAnswers, Auth

\* A new exchange begins.
LEMMA ReadKexInit ==
    ASSUME IInv, NEW m, NEW e, Handled(m, e),
           m.t = "KEXINIT", m.t \in c.enabled, m.what \in {"dh", "gex"}, BeginsKex(c, c', e, m.what)
    PROVE  IInv'
  <1>0. /\ KexTold(m) /\ UserTold(m) /\ m \in Told
        /\ \A p \in Packets(toClient') : KexTold(p) /\ UserTold(p) /\ MayFollow(m, p.t)
        /\ \A p \in Packets(toServer) : KexAsked(p) /\ UserAsked(p) /\ p.t \notin Questions
        /\ srv' = srv /\ c \in ClientState /\ c.kex \in Stages /\ srv \in ServerState
        /\ srv.auth /\ ~c.success => In(toClient', {"SUCCESS"})
        /\ srv.kex # "idle"
    BY ToldOf DEF Handled, Always
  <1>1. /\ c'.listFirst = c.listFirst /\ c'.listAsked = c.listAsked /\ c'.method = c.method
        /\ c'.tryed = c.tryed /\ c'.retried = c.retried /\ c'.tis = c.tis
        /\ c'.link = c.link /\ c'.why = c.why /\ c'.hostDlg = c.hostDlg /\ c'.authDlg = c.authDlg
        /\ c'.handles60 = c.handles60
        /\ c'.derived = c.derived /\ c'.inKeys = c.inKeys /\ c'.outKeys = c.outKeys
        /\ c'.hostOK = c.hostOK /\ c'.nameOK = c.nameOK /\ c'.success = c.success
        /\ c'.kind = m.what /\ c'.enabled = Always \cup {"31"}
    BY DEF BeginsKex, UserKept, LinkKept, DlgKept
  <1> DEFINE ask == IF m.what = "gex" THEN "GEX_REQUEST" ELSE "INIT"
             a == Own(c, "KEXINIT", "", 0)
             b == Own(c, ask, "", 0)
  <1>2. /\ ask \in {"GEX_REQUEST", "INIT"} /\ (ask = "GEX_REQUEST" <=> m.what = "gex")
        /\ a \in Said /\ a.t = "KEXINIT" /\ a.keys = c.outKeys
        /\ b \in Said /\ b.t = ask /\ b.keys = c.outKeys
    <2>1. ask \in {"GEX_REQUEST", "INIT"} /\ (ask = "GEX_REQUEST" <=> m.what = "gex")
      OBVIOUS
    <2>2. "KEXINIT" \in ClientTypes /\ ask \in ClientTypes /\ "" \in Whats /\ 0 \in Prompts \cup {0}
      BY DEF ClientTypes, Whats
    <2>3. a \in Said /\ b \in Said
      BY <1>0, <2>2, OwnSaid
    <2> QED
      BY <2>1, <2>3 DEF Own, Packet
  <1>3. IF c.kex = {"done"} THEN c'.kex = {"rekeying"} /\ e = Both(a, b) ELSE c'.kex = c.kex /\ e = <<b>>
    BY DEF BeginsKex, Both
  <1> HIDE DEF a, b, ask
  <1>4. c'.link = "up" => c'.why = "none"
    BY <1>1 DEF IInv, Writing
  <1>5. /\ e \in Seq(Said) /\ Single(e) /\ Written(e)
        /\ \A p \in Packets(e) : p.t = "KEXINIT" \/ p.t = ask
    <2>1. CASE c.kex = {"done"}
      <3>1. e = Both(a, b)
        BY <1>3, <2>1
      <3> QED
        BY <1>1, <1>2, <1>4, <3>1, TwoSent
    <2>2. CASE c.kex # {"done"}
      <3>1. e = <<b>>
        BY <1>3, <2>2
      <3> QED
        BY <1>1, <1>2, <1>4, <3>1, OneSent
    <2> QED
      BY <2>1, <2>2
  <1>6. \/ /\ c.kex = {} /\ c'.kex = {} /\ ~c.success /\ c.hostDlg = "none" /\ c.derived = 0 /\ srv.out = 0
        \/ /\ c.kex = {"done"} /\ c'.kex = {"rekeying"} /\ c.success /\ srv.auth
    <2>1. ASSUME c.kex = {"done"}, srv.auth PROVE c.success
      <3>1. ~In(toClient', {"SUCCESS"})
        BY <1>0 DEF In, MayFollow, IsReply, Always
      <3> QED
        BY <1>0, <2>1, <3>1
    <2>2. {} # {"done"} /\ {} # {"rekeying"}
      OBVIOUS
    <2> QED
      BY <1>0, <1>3, <2>1, <2>2 DEF KexTold, Pending
  <1>7. Pending'
    BY <1>1, <1>6 DEF Pending
  <1>8. Standing'
    <2>1. Standing
      BY DEF IInv, Exchanging
    <2> QED
      BY <1>0, <1>1, <1>6, <2>1 DEF Standing, Always
  <1>9. Progress'
    <2>1. Progress
      BY DEF IInv, LoggingIn
    <2>2. c.kex = {} => ~c.nameOK
      BY DEF IInv, Exchanging, Standing
    <2> QED
      BY <1>0, <1>1, <1>6, <2>1, <2>2 DEF Progress
  <1>10. \A p \in Packets(toServer) : KexAsked(p)' /\ UserAsked(p)'
    BY <1>0, <1>1, NoQuestion
  <1>11. \A p \in Packets(e) : KexAsked(p)' /\ UserAsked(p)'
    BY <1>1, <1>2, <1>5, <1>7 DEF KexAsked, UserAsked, KexAsks, UserAsks
  <1>12. \A p \in Packets(toClient') : KexTold(p)' /\ UserTold(p)'
    BY <1>0, AlwaysTold DEF MayFollow, IsReply
  <1>13. Last(m)
    BY <1>0 DEF Last, MayFollow, IsReply, Always
  <1>14. c'.kex \in Stages
    BY <1>6 DEF Stages
  <1> QED
    BY <1>0, <1>1, <1>5, <1>8, <1>9, <1>10, <1>11, <1>12, <1>13, <1>14, ReadStep DEF Handled, IsReply

\* The group of a group exchange.
LEMMA ReadGexGroup ==
    ASSUME IInv, NEW m, NEW e, Handled(m, e),
           m.t = "31", c.kind = "gex", Kept(c, c'), c'.kind = c.kind, c'.enabled = Always \cup {"33"},
           Speaks(c, e, "GEX_INIT", "", 0)
    PROVE  IInv'
  <1>0. /\ KexTold(m) /\ UserTold(m) /\ m \in Told
        /\ \A p \in Packets(toClient') : KexTold(p) /\ UserTold(p) /\ MayFollow(m, p.t)
        /\ \A p \in Packets(toServer) : KexAsked(p) /\ UserAsked(p) /\ p.t \notin Questions
        /\ srv' = srv /\ c \in ClientState /\ c.kex \in Stages /\ srv \in ServerState
    BY ToldOf DEF Handled, Always
  <1>1. /\ c'.listFirst = c.listFirst /\ c'.listAsked = c.listAsked /\ c'.method = c.method
        /\ c'.tryed = c.tryed /\ c'.retried = c.retried /\ c'.tis = c.tis
        /\ c'.link = c.link /\ c'.why = c.why /\ c'.hostDlg = c.hostDlg /\ c'.authDlg = c.authDlg
        /\ c'.handles60 = c.handles60 /\ c'.kex = c.kex
        /\ c'.derived = c.derived /\ c'.inKeys = c.inKeys /\ c'.outKeys = c.outKeys
        /\ c'.hostOK = c.hostOK /\ c'.nameOK = c.nameOK /\ c'.success = c.success
    BY DEF Kept, KexKept, UserKept, LinkKept, DlgKept
  <1>2. Pending /\ m.what = "group"
    BY <1>0 DEF KexTold
  <1>3. c'.link = "up" => c'.why = "none"
    BY <1>1 DEF IInv, Writing
  <1>4. /\ e \in Seq(Said) /\ Single(e) /\ Written(e)
        /\ \A p \in Packets(e) : p.t = "GEX_INIT"
    <2>1. "GEX_INIT" \in ClientTypes \ {"NEWKEYS", "DISCONNECT"} /\ "" \in Whats /\ 0 \in Prompts \cup {0}
      BY DEF ClientTypes, Whats
    <2>2. c'.hostOK = c.hostOK /\ c'.outKeys = c.outKeys /\ c'.why = c.why /\ c \in ClientState
      BY <1>0, <1>1
    <2>3. Utters(e, "GEX_INIT", "", 0)
      BY <1>3, <2>1, <2>2, PlainSaid
    <2> QED
      BY <2>3 DEF Utters
  <1>5. Pending'
    BY <1>1, <1>2 DEF Pending
  <1>6. Standing'
    <2>1. Standing
      BY DEF IInv, Exchanging
    <2> QED
      BY <1>0, <1>1, <2>1 DEF Standing, Always
  <1>7. Progress'
    <2>1. Progress
      BY DEF IInv, LoggingIn
    <2>2. c.kex = {} => ~c.nameOK
      BY DEF IInv, Exchanging, Standing
    <2>3. \/ c.kex = {} /\ ~c.success
          \/ c.kex = {"rekeying"} /\ c.success
      BY <1>2 DEF Pending
    <2> QED
      BY <1>0, <1>1, <2>1, <2>2, <2>3 DEF Progress
  <1>10. \A p \in Packets(toServer) : KexAsked(p)' /\ UserAsked(p)'
    BY <1>0, <1>1, NoQuestion
  <1>11. \A p \in Packets(e) : KexAsked(p)' /\ UserAsked(p)'
    BY <1>1, <1>4, <1>5 DEF KexAsked, UserAsked, KexAsks, UserAsks
  <1>12. \A p \in Packets(toClient') : KexTold(p)' /\ UserTold(p)'
    BY <1>0, <1>2, AlwaysTold DEF MayFollow, IsReply
  <1>13. Last(m)
    BY <1>0, <1>2 DEF Last, MayFollow, IsReply, Always
  <1>14. ~IsReply(m)
    BY <1>2 DEF IsReply
  <1> QED
    BY <1>0, <1>1, <1>4, <1>6, <1>7, <1>10, <1>11, <1>12, <1>13, <1>14, ReadStep DEF Handled

\* The reply ends the exchange: the key is made or refused, which leaves u, and
\* the host's key is settled.
Made(u) ==
    /\ u.derived = c.derived + 1 /\ u.enabled = Always \cup {"NEWKEYS"}
    /\ u.link = c.link /\ u.why = c.why /\ u.hostDlg = c.hostDlg /\ u.authDlg = c.authDlg
Refused(u) ==
    /\ u.derived = c.derived /\ u.enabled = c.enabled
    /\ u.hostDlg \in {c.hostDlg, "none"} /\ u.authDlg \in {c.authDlg, "none"}
    /\ u.why # "none" /\ (c.why # "none" => u.why = c.why /\ u.link = c.link)
    /\ c.why = "none" => u.link = "closing"
Parting(u) == IF Made(u) \/ c.why # "none" THEN u.out = <<>> ELSE Speaks(c, u.out, "DISCONNECT", "", 0)
Unmoved(u) ==
    /\ u.listFirst = c.listFirst /\ u.listAsked = c.listAsked /\ u.method = c.method
    /\ u.tryed = c.tryed /\ u.retried = c.retried /\ u.tis = c.tis /\ u.handles60 = c.handles60
    /\ u.kex = c.kex /\ u.kind = c.kind /\ u.inKeys = c.inKeys /\ u.outKeys = c.outKeys
    /\ u.hostOK = c.hostOK /\ u.nameOK = c.nameOK /\ u.success = c.success

LEMMA KeyTold ==
    ASSUME NEW s, Alike(c, s), NEW u, (KeyMade(s, u) /\ u.out = <<>>) \/ KeyRefused(s, u)
    PROVE  Unmoved(u) /\ (Made(u) \/ Refused(u)) /\ Parting(u)
  <1>1. /\ s.listFirst = c.listFirst /\ s.listAsked = c.listAsked /\ s.method = c.method
        /\ s.tryed = c.tryed /\ s.retried = c.retried /\ s.tis = c.tis /\ s.handles60 = c.handles60
        /\ s.kex = c.kex /\ s.kind = c.kind /\ s.inKeys = c.inKeys /\ s.outKeys = c.outKeys
        /\ s.hostOK = c.hostOK /\ s.nameOK = c.nameOK /\ s.success = c.success
        /\ s.derived = c.derived /\ s.enabled = c.enabled /\ s.link = c.link /\ s.why = c.why
        /\ s.hostDlg = c.hostDlg /\ s.authDlg = c.authDlg
    BY DEF Alike, Kept, KexKept, UserKept, LinkKept, DlgKept
  <1>2. CASE KeyMade(s, u) /\ u.out = <<>>
    <2>1. Unmoved(u)
      BY <1>1, <1>2 DEF KeyMade, UserKept, LinkKept, DlgKept, Unmoved
    <2>2. Made(u)
      BY <1>1, <1>2 DEF KeyMade, UserKept, LinkKept, DlgKept, Made
    <2> QED
      BY <1>2, <2>1, <2>2 DEF Parting
  <1>3. CASE KeyRefused(s, u)
    <2>1. Departs(s, u, u.out) /\ u.handles60 = s.handles60
      BY <1>3 DEF KeyRefused
    <2>2. Unmoved(u)
      BY <1>1, <2>1 DEF Departs, KexKept, UserKept, Unmoved
    <2>3. Refused(u)
      BY <1>1, <2>1 DEF Departs, KexKept, UserKept, LinkKept, Refused
    <2>4. Made(u) => c.why # "none"
      BY <2>3 DEF Made, Refused
    <2>a. s.why = c.why
      BY <1>1
    <2>5. c.why # "none" => u.out = <<>>
      BY <2>a, <2>1 DEF Departs
    <2>6. c.why = "none" => Speaks(s, u.out, "DISCONNECT", "", 0)
      BY <2>a, <2>1 DEF Departs
    <2>7. Own(s, "DISCONNECT", "", 0) = Own(c, "DISCONNECT", "", 0)
      <3>1. s.outKeys = c.outKeys
        BY <1>1
      <3> QED
        BY <3>1 DEF Own
    <2>8. c.why = "none" => Speaks(c, u.out, "DISCONNECT", "", 0)
      BY <2>6, <2>7 DEF Speaks
    <2> QED
      BY <2>2, <2>3, <2>4, <2>5, <2>8 DEF Parting
  <1> QED
    BY <1>2, <1>3

\* The host's key was accepted before, is known now, or the user is asked.
Accepted(u) ==
    /\ c'.kex = u.kex /\ c'.outKeys = u.outKeys /\ c'.hostOK = u.hostOK /\ c'.hostDlg = u.hostDlg
Turned(u) ==
    /\ ~u.hostOK /\ c'.kex = {"sent"} /\ c'.hostOK /\ c'.outKeys = u.derived /\ c'.hostDlg = u.hostDlg
Asking(u) ==
    /\ c'.kex = u.kex /\ c'.outKeys = u.outKeys /\ c'.hostOK = u.hostOK /\ c'.hostDlg = "posted"
Settled(u) ==
    /\ c'.listFirst = u.listFirst /\ c'.listAsked = u.listAsked /\ c'.method = u.method
    /\ c'.tryed = u.tryed /\ c'.retried = u.retried /\ c'.tis = u.tis /\ c'.handles60 = u.handles60
    /\ c'.kind = u.kind /\ c'.inKeys = u.inKeys /\ c'.derived = u.derived
    /\ c'.nameOK = u.nameOK /\ c'.success = u.success /\ c'.enabled = u.enabled
    /\ c'.link = u.link /\ c'.why = u.why /\ c'.authDlg = u.authDlg

Delivers(u, e) ==
    \/ (Accepted(u) \/ Asking(u)) /\ e = u.out
    \/ Turned(u) /\ e = u.out \o <<Own(u, "NEWKEYS", "", 0)>>

LEMMA HostTold ==
    ASSUME NEW u \in ClientState, NEW t, HostSettled(u, t), ~u.hostOK => u.kex = {}, Alike(t, c')
    PROVE  Settled(u) /\ Delivers(u, t.out)
  <1>1. /\ c'.listFirst = t.listFirst /\ c'.listAsked = t.listAsked /\ c'.method = t.method
        /\ c'.tryed = t.tryed /\ c'.retried = t.retried /\ c'.tis = t.tis /\ c'.handles60 = t.handles60
        /\ c'.kex = t.kex /\ c'.kind = t.kind /\ c'.inKeys = t.inKeys /\ c'.outKeys = t.outKeys
        /\ c'.hostOK = t.hostOK /\ c'.nameOK = t.nameOK /\ c'.success = t.success
        /\ c'.derived = t.derived /\ c'.enabled = t.enabled /\ c'.link = t.link /\ c'.why = t.why
        /\ c'.hostDlg = t.hostDlg /\ c'.authDlg = t.authDlg
    BY DEF Alike, Kept, KexKept, UserKept, LinkKept, DlgKept
  <1>2. CASE u.hostOK /\ t = u
    BY <1>1, <1>2 DEF Settled, Accepted, Delivers
  <1>3. CASE ~u.hostOK /\ TurnsOut(u, t) /\ t.out = u.out \o <<Own(u, "NEWKEYS", "", 0)>>
    <2>0. u.kex = {} /\ ~u.hostOK /\ TurnsOut(u, t)
      BY <1>3
    <2>1. Settled(u)
      BY <1>1, <2>0 DEF TurnsOut, LoginKept, LinkKept, Settled
    <2>2. Turned(u)
      BY <1>1, <2>0 DEF TurnsOut, LoginKept, LinkKept, Turned
    <2> QED
      BY <1>3, <2>1, <2>2 DEF Delivers
  <1>4. CASE HostAsked(u, t) /\ t.out = u.out
    <2>0. HostAsked(u, t)
      BY <1>4
    <2>1. Settled(u)
      BY <1>1, <2>0 DEF HostAsked, KexKept, UserKept, LinkKept, Settled
    <2>2. Asking(u)
      BY <1>1, <2>0 DEF HostAsked, KexKept, UserKept, LinkKept, Asking
    <2> QED
      BY <1>4, <2>1, <2>2 DEF Delivers
  <1> QED
    BY <1>2, <1>3, <1>4 DEF HostSettled

Utterance(e) ==
    /\ e \in Seq(Said) /\ Single(e) /\ Written(e)
    /\ \A p \in Packets(e) : p.t \in {"DISCONNECT", "NEWKEYS"}

LEMMA ReplySaid ==
    ASSUME TypeOK, NEW u \in ClientState, Unmoved(u), Made(u) \/ Refused(u), c.derived = 0 \/ c.hostOK,
           Parting(u), Settled(u), c.link = "up" => c.why = "none", NEW e, Delivers(u, e)
    PROVE  Utterance(e)
  <1>0. c \in ClientState /\ c.derived \in Nat
    BY DEF TypeOK, ClientState
  <1>1. /\ c'.link = "up" => c'.why = "none"
        /\ Made(u) => c'.why = c.why
        /\ ~Made(u) => c'.why # "none"
        /\ c.why # "none" => c'.why = c.why
    BY DEF Made, Refused, Settled
  <1>2. "DISCONNECT" \in ClientTypes /\ "NEWKEYS" \in ClientTypes /\ "" \in Whats /\ 0 \in Prompts \cup {0}
    BY DEF ClientTypes, Whats
  <1>a. (Accepted(u) \/ Asking(u)) \/ Turned(u)
    BY DEF Delivers
  <1> DEFINE quits == ~Made(u) /\ c.why = "none"
  <1>3. (quits => Speaks(c, u.out, "DISCONNECT", "", 0)) /\ (~quits => u.out = <<>>)
    BY DEF Parting
  <1>4. c'.why # "none" <=> c.why # "none" \/ quits
    BY <1>1
  <1> HIDE DEF quits
  <1>5. CASE Accepted(u) \/ Asking(u)
    <2>0. e = u.out
      BY <1>5 DEF Delivers, Turned, Accepted, Asking
    <2>1. c'.hostOK = c.hostOK /\ c'.outKeys = c.outKeys
      BY <1>5 DEF Accepted, Asking, Unmoved
    <2>2. CASE quits
      <3>1. Utters(u.out, "DISCONNECT", "", 0)
        BY <1>0, <1>1, <1>2, <1>3, <1>4, <2>1, <2>2, OneSaid
      <3> QED
        BY <2>0, <3>1 DEF Utters, Utterance
    <2>3. CASE ~quits
      <3>1. u.out = <<>>
        BY <1>3, <2>3
      <3>2. /\ <<>> \in Seq(Said) /\ Packets(<<>>) = {} /\ Single(<<>>)
            /\ Written(<<>>)
        BY <1>1, <1>4, <2>1, <2>3, NothingSent
      <3> QED
        BY <2>0, <3>1, <3>2 DEF Utterance
    <2> QED
      BY <2>2, <2>3
  <1>6. CASE Turned(u)
    <2> DEFINE y == Own(c, "NEWKEYS", "", 0)
               x == Own(c, "DISCONNECT", "", 0)
    <2>0. e = u.out \o <<Own(u, "NEWKEYS", "", 0)>>
      BY <1>6 DEF Delivers, Turned, Accepted, Asking
    <2>1. Own(u, "NEWKEYS", "", 0) = Own(c, "NEWKEYS", "", 0)
      BY DEF Own, Unmoved
    <2>a. x \in Said /\ y \in Said
      BY <1>0, <1>2, OwnSaid
    <2>2. /\ y \in Said /\ y.t = "NEWKEYS" /\ y.keys = c.outKeys
      BY <2>a DEF Own, Packet
    <2>3. /\ x \in Said /\ x.t = "DISCONNECT" /\ x.keys = c.outKeys
      BY <2>a DEF Own, Packet
    <2>4. ~c.hostOK /\ c'.hostOK /\ (c'.why = "none" => c'.outKeys = 1)
      <3>1. ~c.hostOK /\ c'.hostOK /\ c.derived = 0 /\ c'.outKeys = u.derived
        BY <1>6 DEF Turned, Unmoved
      <3> QED
        BY <1>1, <3>1 DEF Made
    <2>5. quits => e = Both(x, y)
      BY <1>3, <2>0, <2>1 DEF Both, Speaks
    <2>6. ~quits => e = <<y>>
      <3>1. ~quits => e = <<>> \o <<y>>
        BY <1>3, <2>0, <2>1
      <3>2. <<>> \o <<y>> = <<y>>
        BY <2>2, OneOf
      <3> QED
        BY <3>1, <3>2
    <2> HIDE DEF x, y
    <2>7. CASE quits
      <3>1. e = Both(x, y)
        BY <2>5, <2>7
      <3>2. y.t # "DISCONNECT"
        BY <2>2
      <3>3. x.t \in {"KEXINIT", "DISCONNECT"}
        BY <2>3
      <3>4. c'.why # "none" <=> c.why # "none" \/ x.t = "DISCONNECT"
        BY <1>4, <2>3, <2>7
      <3>5. /\ e \in Seq(Said) /\ Packets(e) = {x, y} /\ Single(e)
            /\ Written(e)
        BY <1>1, <2>2, <2>3, <2>4, <3>1, <3>2, <3>3, <3>4, TwoSent
      <3> QED
        BY <2>2, <2>3, <3>5 DEF Utterance
    <2>8. CASE ~quits
      <3>1. e = <<y>>
        BY <2>6, <2>8
      <3>2. c'.why # "none" <=> c.why # "none" \/ y.t = "DISCONNECT"
        BY <1>4, <2>2, <2>8
      <3>3. /\ e \in Seq(Said) /\ Packets(e) = {y} /\ Single(e)
            /\ Written(e)
        BY <1>1, <2>2, <2>4, <3>1, <3>2, OneSent
      <3> QED
        BY <2>2, <3>3 DEF Utterance
    <2> QED
      BY <2>7, <2>8
  <1> QED
    BY <1>a, <1>5, <1>6

LEMMA ReadReply ==
    ASSUME IInv, NEW m, NEW e, Handled(m, e), IsReply(m),
           NEW u \in ClientState, Unmoved(u), Made(u) \/ Refused(u), Parting(u), Settled(u), Delivers(u, e)
    PROVE  IInv'
  <1>0. /\ KexTold(m) /\ UserTold(m) /\ m \in Told
        /\ \A p \in Packets(toClient') : KexTold(p) /\ UserTold(p) /\ MayFollow(m, p.t)
        /\ \A p \in Packets(toServer) : KexAsked(p) /\ UserAsked(p) /\ p.t \notin Questions
        /\ srv' = srv /\ c \in ClientState /\ c.kex \in Stages /\ srv \in ServerState
        /\ srv.out # 0 /\ m.t \in {"31", "33"}
    BY ToldOf DEF Handled, Always, IsReply
  <1>1. Pending
    BY <1>0 DEF KexTold
  <1>2. TypeOK /\ Standing /\ Progress /\ (c.link = "up" => c.why = "none")
    BY DEF IInv, Exchanging, LoggingIn, Writing
  <1>3. \/ /\ c.kex = {} /\ ~c.success /\ c.hostDlg = "none" /\ c.derived = 0
           /\ ~c.hostOK /\ ~c.nameOK /\ ~c.tryed /\ ~c.tis /\ c.authDlg = "none"
        \/ /\ c.kex = {"rekeying"} /\ c.success /\ c.hostOK /\ c.nameOK /\ c.authDlg = "none"
           /\ c.outKeys > 0
    BY <1>1, <1>2 DEF Pending, Standing, Progress
  <1>4. (Accepted(u) \/ Asking(u)) \/ Turned(u)
    BY DEF Delivers
  <1>5. Utterance(e)
    BY <1>2, <1>3, ReplySaid
  <1>6. /\ c'.listFirst = c.listFirst /\ c'.listAsked = c.listAsked /\ c'.method = c.method
        /\ c'.tryed = c.tryed /\ c'.retried = c.retried /\ c'.tis = c.tis /\ c'.handles60 = c.handles60
        /\ c'.kind = c.kind /\ c'.inKeys = c.inKeys
        /\ c'.nameOK = c.nameOK /\ c'.success = c.success
        /\ c'.authDlg = "none"
    <2>1. c'.authDlg = "none"
      BY <1>3 DEF Settled, Made, Refused
    <2> QED
      BY <2>1 DEF Unmoved, Settled
  <1>7. \/ c'.derived = c.derived + 1 /\ c'.enabled = Always \cup {"NEWKEYS"} /\ c'.why = c.why
        \/ c'.derived = c.derived /\ c'.enabled = c.enabled /\ c'.why # "none"
    BY DEF Settled, Made, Refused
  <1>8. \/ c'.kex = c.kex /\ c'.outKeys = c.outKeys /\ c'.hostOK = c.hostOK
        \/ ~c.hostOK /\ c'.kex = {"sent"} /\ c'.hostOK /\ c'.outKeys = c'.derived
    BY <1>4 DEF Unmoved, Settled, Accepted, Asking, Turned
  <1>9. c'.hostDlg \in {c.hostDlg, "none"} \/ c'.hostOK = c.hostOK
    BY <1>4 DEF Unmoved, Settled, Accepted, Asking, Turned, Made, Refused
  <1>10. Standing'
    <2>1. c.derived \in Nat
      BY <1>0 DEF ClientState
    <2>2. "NEWKEYS" \in c'.enabled => c'.derived > 0
      BY <1>2, <1>7, <2>1 DEF Standing
    <2>3. c'.hostOK <=> c'.kex \notin {{}, {"received"}}
      BY <1>3, <1>8
    <2>4. c'.nameOK <=> c'.kex \notin {{}, {"sent"}, {"received"}}
      BY <1>3, <1>6, <1>8
    <2>5. /\ c'.kex \in {{"rekeying"}, {"rekeying", "received"}} => c'.success
          /\ c'.success => c'.nameOK
          /\ c'.kex # {"received"}
          /\ c'.kex = {"sent"} => c'.outKeys = c'.derived
          /\ c'.nameOK => c'.outKeys > 0
      BY <1>3, <1>6, <1>8
    <2>6. c'.hostDlg # "none" /\ ~c'.hostOK /\ c'.why = "none" => c'.derived = 1
      BY <1>3, <1>6, <1>7, <1>8, <2>1
    <2>7. c'.hostDlg # "none" /\ ~c'.success => ~c'.hostOK
      BY <1>3, <1>6, <1>8, <1>9
    <2> QED
      BY <1>0, <2>2, <2>3, <2>4, <2>5, <2>6, <2>7 DEF Standing
  <1>11. Progress'
    <2>1. srv.kex = "idle" => ~c.success
      BY <1>2, <1>3 DEF Progress
    <2>2. c'.success => srv.auth
      BY <1>2, <1>6 DEF Progress
    <2>3. c'.tryed => c'.nameOK /\ c'.success
      BY <1>3, <1>6
    <2> QED
      BY <1>0, <1>2, <1>3, <1>6, <2>1, <2>2, <2>3 DEF Progress
  <1>12. \A p \in Packets(toServer) : KexAsked(p)' /\ UserAsked(p)'
    BY <1>0, <1>6, NoQuestion
  <1>13. \A p \in Packets(e) : KexAsked(p)' /\ UserAsked(p)'
    BY <1>5 DEF Utterance, KexAsked, UserAsked, KexAsks, UserAsks
  <1>14. ASSUME NEW p \in Packets(toClient') PROVE KexTold(p)' /\ UserTold(p)'
    <2>1. p.t \in Always \cup {"NEWKEYS", "EXT_INFO"} /\ KexTold(p)
      BY <1>0 DEF MayFollow, IsReply
    <2>2. CASE p.t \in Always
      BY <2>2, AlwaysTold
    <2>3. CASE p.t = "NEWKEYS"
      <3>1. c'.why = "none" => c'.enabled = Always \cup {"NEWKEYS"}
        BY <1>7
      <3>2. c'.kex \in {{}, {"sent"}, {"rekeying"}}
        BY <1>3, <1>8
      <3> QED
        BY <2>3, <3>1, <3>2 DEF KexTold, UserTold, UserAnswers, Auth
    <2>4. CASE p.t = "EXT_INFO"
      BY <1>6, <2>1, <2>4 DEF KexTold, UserTold, UserAnswers, Auth
    <2> QED
      BY <2>1, <2>2, <2>3, <2>4
  <1>15. ~In(e, Questions)
    BY <1>5 DEF Utterance, In, Questions, KexAsks, UserAsks
  <1>16. c'.kex \in Stages
    BY <1>3, <1>8 DEF Stages
  <1>17. c'.why = "none" => /\ c.why = "none" /\ m.t # "DISCONNECT" /\ m.t # "NEWKEYS"
                            /\ c'.inKeys = c.inKeys /\ c'.derived = c.derived + 1
    BY <1>0, <1>6, <1>7
  <1>18. e \in Seq(Said) /\ Single(e) /\ Written(e)
    BY <1>5 DEF Utterance
  <1> QED
    BY <1>0, <1>6, <1>10, <1>11, <1>12, <1>13, <1>14, <1>15, <1>16, <1>17, <1>18, ReadStep DEF Handled

\* NEWKEYS of the server.
LEMMA ReadNewKeys ==
    ASSUME IInv, NEW m, Handled(m, <<>>), m.t = "NEWKEYS", m.t \in c.enabled, NewKeysRead(c, c')
    PROVE  IInv'
  <1>0. /\ KexTold(m) /\ UserTold(m) /\ m \in Told
        /\ \A p \in Packets(toClient') : KexTold(p) /\ UserTold(p) /\ MayFollow(m, p.t)
        /\ \A p \in Packets(toServer) : KexAsked(p) /\ UserAsked(p) /\ p.t \notin Questions
        /\ srv' = srv /\ c \in ClientState /\ c.kex \in Stages /\ srv \in ServerState
        /\ srv.out # 0
    BY ToldOf DEF Handled, Always
  <1>1. TypeOK /\ Standing /\ Progress /\ (c.link = "up" => c.why = "none")
    BY DEF IInv, Exchanging, LoggingIn, Writing
  <1>2. /\ c'.listFirst = c.listFirst /\ c'.listAsked = c.listAsked
        /\ c'.tryed = c.tryed /\ c'.retried = c.retried /\ c'.tis = c.tis /\ c'.handles60 = c.handles60
        /\ c'.success = c.success /\ c'.link = c.link /\ c'.why = c.why
        /\ c'.kind = c.kind /\ c'.derived = c.derived /\ c'.outKeys = c.outKeys
        /\ c'.hostDlg = c.hostDlg /\ c'.hostOK = c.hostOK
        /\ c'.inKeys = c.derived /\ c'.enabled = c.enabled \cup {"EXT_INFO"}
    BY DEF NewKeysRead, LoginKept, LinkKept
  <1>3. c.derived > 0 /\ c.kex \in {{}, {"sent"}, {"rekeying"}}
    BY <1>0, <1>1 DEF KexTold, Standing
  <1>4. \/ /\ c.kex = {} /\ c'.kex = {"received"} /\ c'.nameOK = c.nameOK /\ c'.authDlg = c.authDlg /\ c'.method = c.method
           /\ ~c.nameOK /\ ~c.hostOK /\ ~c.tryed /\ c.authDlg = "none" /\ ~c.success
        \/ /\ c.kex = {"sent"} /\ c'.kex = {"done"} /\ c'.nameOK /\ c'.authDlg = "posted" /\ c'.method = "none"
           /\ ~c.nameOK /\ c.hostOK /\ ~c.tryed /\ c.authDlg = "none" /\ ~c.success
           /\ c.outKeys = c.derived
        \/ /\ c.kex = {"rekeying"} /\ c'.kex = {"rekeying", "received"} /\ c'.nameOK = c.nameOK /\ c'.authDlg = c.authDlg
           /\ c'.method = c.method /\ c.nameOK /\ c.hostOK /\ c.success /\ c.authDlg = "none"
           /\ c.outKeys > 0
    <2>1. CASE c.kex = {}
      <3>1. {} # {"sent"} /\ {} \cup {"received"} = {"received"}
        OBVIOUS
      <3> QED
        BY <1>1, <2>1, <3>1 DEF NewKeysRead, Standing, Progress
    <2>2. CASE c.kex = {"sent"}
      <3>1. ~c.nameOK /\ c.hostOK /\ ~c.tryed /\ c.authDlg = "none" /\ ~c.success /\ c.outKeys = c.derived
        BY <1>1, <2>2 DEF Standing, Progress
      <3> QED
        BY <2>2, <3>1 DEF NewKeysRead, Advances
    <2>3. CASE c.kex = {"rekeying"}
      <3>1. {"rekeying"} # {"sent"} /\ {"rekeying"} \cup {"received"} = {"rekeying", "received"}
        OBVIOUS
      <3>2. c.nameOK /\ c.hostOK /\ c.success /\ c.authDlg = "none" /\ c.outKeys > 0
        BY <1>1, <2>3 DEF Standing, Progress
      <3> QED
        BY <2>3, <3>1, <3>2 DEF NewKeysRead
    <2> QED
      BY <1>3, <2>1, <2>2, <2>3
  <1>5. Standing'
    BY <1>0, <1>1, <1>2, <1>3, <1>4 DEF Standing
  <1>6. Progress'
    <2>1. c.success => srv.kex # "idle"
      BY <1>1, <1>4 DEF Progress
    <2>2. ~c.success => c.handles60 /\ ~c.tis /\ ~(c.retried > 0) /\ ~c.tryed
      BY <1>1, <1>4 DEF Progress
    <2> QED
      BY <1>0, <1>1, <1>2, <1>4, <2>1, <2>2 DEF Progress
  <1>7. \A p \in Packets(toServer) : KexAsked(p)' /\ UserAsked(p)'
    BY <1>0, <1>2, NoQuestion
  <1>8. ASSUME NEW p \in Packets(toClient') PROVE KexTold(p)' /\ UserTold(p)'
    <2>1. p.t \in Always \cup {"EXT_INFO"} /\ KexTold(p)
      BY <1>0 DEF MayFollow, IsReply
    <2>2. CASE p.t \in Always
      BY <2>2, AlwaysTold
    <2>3. CASE p.t = "EXT_INFO"
      BY <1>2, <2>1, <2>3 DEF KexTold, UserTold, UserAnswers, Auth
    <2> QED
      BY <2>1, <2>2, <2>3
  <1>9. /\ <<>> \in Seq(Said) /\ Packets(<<>>) = {} /\ Single(<<>>) /\ ~In(<<>>, Questions)
        /\ Written(<<>>)
    BY <1>1, <1>2, NothingSent
  <1>10. c'.kex \in Stages
    BY <1>4 DEF Stages
  <1>11. ~IsReply(m)
    BY DEF IsReply
  <1> QED
    BY <1>0, <1>2, <1>5, <1>6, <1>7, <1>8, <1>9, <1>10, <1>11, ReadStep DEF Handled

-----------------------------------------------------------------------------
(* The client reads an answer to a request of the user's.                   *)

\* What do_SSH2_authrequest sends for a method.
Offers(e) ==
    /\ e \in Seq(Said) /\ Single(e) /\ Written(e)
    /\ c.enabled \subseteq c'.enabled /\ c'.enabled \subseteq c.enabled \cup {"60"}
    /\ \A p \in Packets(e) :
         /\ p.t = "AUTH" /\ p.keys = c.outKeys
         /\ \/ p.what = "keyboard" /\ c'.method = "keyboard" /\ "60" \in c'.enabled
            \/ p.what = "query" /\ c'.method = "pageant" /\ "60" \in c'.enabled
            \/ p.what = "signed" /\ c'.method = "publickey"
            \/ p.what = "password" /\ c'.method = "password"

LEMMA AuthSentOffers ==
    ASSUME c \in ClientState, NEW e, AuthSent(c, c', e), c'.hostOK = c.hostOK, c'.outKeys = c.outKeys,
           c'.why = c.why, c'.link = "up" => c'.why = "none"
    PROVE  Offers(e)
  <1>1. /\ "AUTH" \in ClientTypes \ {"NEWKEYS", "DISCONNECT"} /\ 0 \in Prompts \cup {0}
        /\ {"keyboard", "query", "signed", "password"} \subseteq Whats
    BY DEF ClientTypes, Whats
  <1>2. CASE e = <<>> /\ c'.enabled = c.enabled
    <2>1. /\ <<>> \in Seq(Said) /\ Packets(<<>>) = {} /\ Single(<<>>)
          /\ Written(<<>>)
      BY NothingSent
    <2> QED
      BY <1>2, <2>1 DEF Offers
  <1>3. CASE \E w \in {"keyboard", "query"} :
               /\ e = <<Own(c, "AUTH", w, 0)>> /\ c'.enabled = c.enabled \cup {"60"}
               /\ c'.method = IF w = "query" THEN "pageant" ELSE "keyboard"
    <2>1. PICK w \in {"keyboard", "query"} :
               /\ Speaks(c, e, "AUTH", w, 0) /\ c'.enabled = c.enabled \cup {"60"}
               /\ c'.method = IF w = "query" THEN "pageant" ELSE "keyboard"
      BY <1>3 DEF Speaks
    <2>2. w \in Whats
      BY <1>1
    <2>3. Utters(e, "AUTH", w, 0)
      BY <1>1, <2>1, <2>2, PlainSaid
    <2> QED
      BY <2>1, <2>3 DEF Utters, Offers
  <1>4. CASE \E w \in {"signed", "password"} :
               /\ e = <<Own(c, "AUTH", w, 0)>> /\ c'.enabled = c.enabled
               /\ c'.method = IF w = "signed" THEN "publickey" ELSE "password"
    <2>1. PICK w \in {"signed", "password"} :
               /\ Speaks(c, e, "AUTH", w, 0) /\ c'.enabled = c.enabled
               /\ c'.method = IF w = "signed" THEN "publickey" ELSE "password"
      BY <1>4 DEF Speaks
    <2>2. w \in Whats
      BY <1>1
    <2>3. Utters(e, "AUTH", w, 0)
      BY <1>1, <2>1, <2>2, PlainSaid
    <2> QED
      BY <2>1, <2>3 DEF Utters, Offers
  <1> QED
    BY <1>2, <1>3, <1>4 DEF AuthSent

\* What every answer has in common.
LEMMA ReadAnswer ==
    ASSUME IInv, NEW m, NEW e \in Seq(Said), Handled(m, e), m.t \in {"SERVICE_ACCEPT", "FAILURE", "60"},
           KexKept(c, c'), LinkKept(c, c'), c'.hostDlg = c.hostDlg,
           "NEWKEYS" \in c'.enabled => "NEWKEYS" \in c.enabled, Progress',
           Single(e), Written(e), \A p \in Packets(e) : p.t \in UserAsks /\ UserAsked(p)'
    PROVE  IInv'
  <1>0. /\ m \in Told
        /\ \A p \in Packets(toClient') : KexTold(p) /\ UserTold(p) /\ MayFollow(m, p.t)
        /\ \A p \in Packets(toServer) : KexAsked(p) /\ UserAsked(p) /\ p.t \notin Questions
        /\ srv' = srv /\ c.kex \in Stages
    BY ToldOf DEF Handled, Always
  <1>1. /\ c'.kex = c.kex /\ c'.derived = c.derived /\ c'.inKeys = c.inKeys /\ c'.outKeys = c.outKeys
        /\ c'.hostOK = c.hostOK /\ c'.nameOK = c.nameOK /\ c'.success = c.success /\ c'.why = c.why
    BY DEF KexKept, LinkKept
  <1>2. Standing'
    <2>1. Standing
      BY DEF IInv, Exchanging
    <2> QED
      BY <1>0, <1>1, <2>1 DEF Standing
  <1>3. \A p \in Packets(toServer) : KexAsked(p)' /\ UserAsked(p)'
    BY <1>0, <1>1, NoQuestion
  <1>4. \A p \in Packets(e) : KexAsked(p)' /\ UserAsked(p)'
    BY DEF KexAsked, KexAsks, UserAsks
  <1>5. \A p \in Packets(toClient') : KexTold(p)' /\ UserTold(p)'
    BY <1>0, AlwaysTold DEF MayFollow, IsReply
  <1>6. Last(m)
    BY DEF Last, MayFollow, IsReply, Always
  <1> QED
    BY <1>0, <1>1, <1>2, <1>3, <1>4, <1>5, <1>6, ReadStep DEF Handled, IsReply

LEMMA ReadServiceAccept ==
    ASSUME IInv, NEW m, NEW e, Handled(m, e), m.t = "SERVICE_ACCEPT", Kept(c, c'),
           Speaks(c, e, "AUTH", "none", 0), Auth \subseteq c'.enabled, "NEWKEYS" \notin c'.enabled
    PROVE  IInv'
  <1>0. UserTold(m) /\ c \in ClientState /\ srv' = srv
    BY ToldOf DEF Handled
  <1>1. /\ c'.listFirst = c.listFirst /\ c'.listAsked = c.listAsked /\ c'.method = c.method
        /\ c'.tryed = c.tryed /\ c'.retried = c.retried /\ c'.tis = c.tis
        /\ c'.link = c.link /\ c'.why = c.why /\ c'.hostDlg = c.hostDlg /\ c'.authDlg = c.authDlg
        /\ c'.handles60 = c.handles60 /\ c'.kex = c.kex
        /\ c'.outKeys = c.outKeys /\ c'.hostOK = c.hostOK /\ c'.nameOK = c.nameOK /\ c'.success = c.success
    BY DEF Kept, KexKept, UserKept, LinkKept, DlgKept
  <1>2. Standing /\ Progress /\ (c.link = "up" => c.why = "none")
    BY DEF IInv, Exchanging, LoggingIn, Writing
  <1>3. InAuth /\ ~srv.auth /\ ~c.tryed
    BY <1>0 DEF UserTold, UserAnswers
  <1>4. Utters(e, "AUTH", "none", 0)
    <2>1. "AUTH" \in ClientTypes \ {"NEWKEYS", "DISCONNECT"} /\ "none" \in Whats /\ 0 \in Prompts \cup {0}
      BY DEF ClientTypes, Whats
    <2>2. c'.hostOK = c.hostOK /\ c'.outKeys = c.outKeys /\ c'.why = c.why /\ (c'.link = "up" => c'.why = "none")
      BY <1>1, <1>2
    <2> QED
      BY <1>0, <2>1, <2>2, PlainSaid
  <1>5. InAuth' /\ c.outKeys > 0 /\ ~c.tis
    BY <1>1, <1>2, <1>3 DEF InAuth, Listing, Standing, Progress
  <1>6. Progress'
    BY <1>0, <1>1, <1>2, <1>3, <1>5 DEF Progress, InAuth
  <1>7. \A p \in Packets(e) : p.t \in UserAsks /\ UserAsked(p)'
    BY <1>0, <1>1, <1>3, <1>4, <1>5 DEF Utters, UserAsked, UserAsks
  <1> QED
    BY <1>4, <1>6, <1>7, ReadAnswer DEF Utters, Kept, DlgKept

LEMMA ReadFirstFailure ==
    ASSUME IInv, NEW m, NEW e, Handled(m, e), m.t = "FAILURE", ~c.tryed, FirstFailure(c, c', e)
    PROVE  IInv'
  <1>0. UserTold(m) /\ c \in ClientState /\ srv' = srv
    BY ToldOf DEF Handled
  <1>1. /\ c'.listFirst = c.listFirst /\ c'.listAsked = c.listAsked /\ c'.method = c.method
        /\ c'.tryed /\ c'.retried = c.retried /\ c'.tis = c.tis
        /\ c'.link = c.link /\ c'.why = c.why /\ c'.hostDlg = c.hostDlg /\ c'.authDlg = c.authDlg
        /\ c'.handles60 = c.handles60 /\ c'.kex = c.kex
        /\ c'.outKeys = c.outKeys /\ c'.hostOK = c.hostOK /\ c'.nameOK = c.nameOK /\ c'.success = c.success
    BY DEF FirstFailure, RestKept, KexKept, LinkKept
  <1>2. Standing /\ Progress /\ (c.link = "up" => c.why = "none")
    BY DEF IInv, Exchanging, LoggingIn, Writing
  <1>3. InAuth /\ ~srv.auth /\ Auth \subseteq c.enabled
    BY <1>0 DEF UserTold, UserAnswers, Auth
  <1>4. Offers(e)
    <2>1. AuthSent(c, c', e)
      BY DEF FirstFailure
    <2> QED
      BY <1>0, <1>1, <1>2, <2>1, AuthSentOffers
  <1>5. c'.nameOK /\ c.outKeys > 0 /\ ~c.tis
    BY <1>1, <1>2, <1>3 DEF InAuth, Standing, Progress
  <1>6. Progress'
    BY <1>0, <1>1, <1>2, <1>3, <1>4, <1>5 DEF Progress, Offers, InAuth
  <1>7. ASSUME NEW p \in Packets(e) PROVE p.t \in UserAsks /\ UserAsked(p)'
    <2>1. c.authDlg = "none"
      BY <1>1, <1>2, <1>7, <1>4 DEF Progress, Offers
    <2>2. InAuth'
      BY <1>1, <1>3, <2>1 DEF InAuth
    <2>3. /\ p.t = "AUTH" /\ p.keys = c.outKeys /\ Auth \subseteq c'.enabled
          /\ \/ p.what = "keyboard" /\ c'.method = "keyboard" /\ "60" \in c'.enabled
             \/ p.what = "query" /\ c'.method = "pageant" /\ "60" \in c'.enabled
             \/ p.what = "signed" /\ c'.method = "publickey"
             \/ p.what = "password" /\ c'.method = "password"
      BY <1>3, <1>4, <1>7 DEF Offers
    <2> QED
      BY <1>0, <1>1, <1>3, <1>5, <2>1, <2>2, <2>3 DEF UserAsked, UserAsks
  <1>8. "NEWKEYS" \in c'.enabled => "NEWKEYS" \in c.enabled
    BY <1>4 DEF Offers
  <1> QED
    BY <1>1, <1>4, <1>6, <1>7, <1>8, ReadAnswer DEF Offers, FirstFailure, RestKept

LEMMA ReadNextKey ==
    ASSUME IInv, NEW m, NEW e, Handled(m, e), m.t = "FAILURE", NextKey(c, c', e)
    PROVE  IInv'
  <1>0. UserTold(m) /\ c \in ClientState /\ srv' = srv
    BY ToldOf DEF Handled
  <1>1. /\ c'.listFirst = c.listFirst /\ c'.listAsked = c.listAsked /\ c'.method = c.method
        /\ c'.tryed = c.tryed /\ c.tryed /\ c'.retried = c.retried /\ c'.tis = c.tis
        /\ c'.link = c.link /\ c'.why = c.why /\ c'.hostDlg = c.hostDlg /\ c'.authDlg = c.authDlg
        /\ c'.handles60 = c.handles60 /\ c'.kex = c.kex
        /\ c'.outKeys = c.outKeys /\ c'.hostOK = c.hostOK /\ c'.nameOK = c.nameOK /\ c'.success = c.success
    BY DEF NextKey, Kept, KexKept, UserKept, LinkKept, DlgKept
  <1>2. Standing /\ Progress /\ (c.link = "up" => c.why = "none")
    BY DEF IInv, Exchanging, LoggingIn, Writing
  <1>3. InAuth /\ ~srv.auth /\ Auth \subseteq c.enabled
    BY <1>0 DEF UserTold, UserAnswers, Auth
  <1>4. Offers(e)
    <2>1. AuthSent(c, c', e)
      BY DEF NextKey
    <2> QED
      BY <1>0, <1>1, <1>2, <2>1, AuthSentOffers
  <1>5. c'.nameOK /\ c.outKeys > 0 /\ c.authDlg = "none"
    BY <1>1, <1>2, <1>3 DEF InAuth, Listing, Standing, Progress
  <1>6. Progress'
    BY <1>0, <1>1, <1>2, <1>3, <1>4, <1>5 DEF Progress, Offers, InAuth
  <1>7. ASSUME NEW p \in Packets(e) PROVE p.t \in UserAsks /\ UserAsked(p)'
    <2>2. InAuth'
      BY <1>1, <1>3, <1>5 DEF InAuth
    <2>3. /\ p.t = "AUTH" /\ p.keys = c.outKeys /\ Auth \subseteq c'.enabled
          /\ \/ p.what = "keyboard" /\ c'.method = "keyboard" /\ "60" \in c'.enabled
             \/ p.what = "query" /\ c'.method = "pageant" /\ "60" \in c'.enabled
             \/ p.what = "signed" /\ c'.method = "publickey"
             \/ p.what = "password" /\ c'.method = "password"
      BY <1>3, <1>4, <1>7 DEF Offers
    <2> QED
      BY <1>0, <1>1, <1>3, <1>5, <2>2, <2>3 DEF UserAsked, UserAsks
  <1>8. "NEWKEYS" \in c'.enabled => "NEWKEYS" \in c.enabled
    BY <1>4 DEF Offers
  <1>9. KexKept(c, c') /\ LinkKept(c, c')
    BY DEF NextKey, Kept
  <1> QED
    BY <1>1, <1>4, <1>6, <1>7, <1>8, <1>9, ReadAnswer DEF Offers

\* The user is asked for another way in.
LEMMA ReadAskedAgain ==
    ASSUME IInv, NEW m, Handled(m, <<>>), m.t = "FAILURE", AskedAgain(c, c', <<>>)
    PROVE  IInv'
  <1>0. UserTold(m) /\ c \in ClientState /\ srv' = srv
    BY ToldOf DEF Handled
  <1>1. /\ c'.listFirst = c.listFirst /\ c'.listAsked = c.listAsked /\ c'.enabled = c.enabled
        /\ c.tryed /\ c'.tryed /\ ~c'.tis
        /\ c'.link = c.link /\ c'.why = c.why /\ c'.hostDlg = c.hostDlg
        /\ c'.handles60 = c.handles60 /\ c'.kex = c.kex
        /\ c'.outKeys = c.outKeys /\ c'.hostOK = c.hostOK /\ c'.nameOK = c.nameOK /\ c'.success = c.success
    BY DEF AskedAgain, RestKept, KexKept, LinkKept
  <1>2. Standing /\ Progress /\ (c.link = "up" => c.why = "none")
    BY DEF IInv, Exchanging, LoggingIn, Writing
  <1>3. InAuth /\ ~srv.auth /\ Auth \subseteq c.enabled
    BY <1>0 DEF UserTold, UserAnswers, Auth
  <1>4. c.authDlg = "none"
    BY <1>1, <1>3 DEF InAuth, Listing
  <1>5. c'.authDlg = "posted" /\ c'.method = "none"
    BY <1>4 DEF AskedAgain, Advances
  <1>6. Progress'
    BY <1>0, <1>1, <1>2, <1>3, <1>5 DEF Progress, InAuth
  <1>7. /\ <<>> \in Seq(Said) /\ Packets(<<>>) = {} /\ Single(<<>>)
        /\ Written(<<>>)
    BY <1>1, <1>2, NothingSent
  <1>8. KexKept(c, c') /\ LinkKept(c, c')
    BY DEF AskedAgain, RestKept
  <1> QED
    BY <1>1, <1>6, <1>7, <1>8, ReadAnswer

\* The prompts are answered with what was typed.
LEMMA ReadResponds ==
    ASSUME IInv, NEW m, NEW e, Handled(m, e), m.t = "60", c.method = "keyboard",
           Kept(c, c'), c'.enabled = c.enabled, Speaks(c, e, "INFO_RESPONSE", "", m.n)
    PROVE  IInv'
  <1>0. UserTold(m) /\ c \in ClientState /\ srv' = srv /\ m \in Told
    BY ToldOf DEF Handled
  <1>1. /\ c'.listFirst = c.listFirst /\ c'.listAsked = c.listAsked /\ c'.method = c.method
        /\ c'.tryed = c.tryed /\ c'.retried = c.retried /\ c'.tis = c.tis
        /\ c'.link = c.link /\ c'.why = c.why /\ c'.hostDlg = c.hostDlg /\ c'.authDlg = c.authDlg
        /\ c'.handles60 = c.handles60 /\ c'.kex = c.kex
        /\ c'.outKeys = c.outKeys /\ c'.hostOK = c.hostOK /\ c'.nameOK = c.nameOK /\ c'.success = c.success
    BY DEF Kept, KexKept, UserKept, LinkKept, DlgKept
  <1>2. Standing /\ Progress /\ (c.link = "up" => c.why = "none")
    BY DEF IInv, Exchanging, LoggingIn, Writing
  <1>3. /\ InAuth /\ ~srv.auth /\ Auth \subseteq c.enabled /\ c.tryed /\ c.authDlg = "none"
        /\ "60" \in c.enabled /\ Fits(m.n)
    BY <1>0 DEF UserTold, UserAnswers, Auth
  <1>4. Utters(e, "INFO_RESPONSE", "", m.n)
    <2>1. "INFO_RESPONSE" \in ClientTypes \ {"NEWKEYS", "DISCONNECT"} /\ "" \in Whats
      BY DEF ClientTypes, Whats
    <2>2. m.n \in Prompts \cup {0}
      BY <1>0 DEF Told
    <2>3. c'.hostOK = c.hostOK /\ c'.outKeys = c.outKeys /\ c'.why = c.why /\ (c'.link = "up" => c'.why = "none")
      BY <1>1, <1>2
    <2> QED
      BY <1>0, <2>1, <2>2, <2>3, PlainSaid
  <1>5. InAuth' /\ c.outKeys > 0 /\ c.nameOK
    BY <1>1, <1>2, <1>3 DEF InAuth, Standing, Progress
  <1>6. Progress'
    BY <1>0, <1>1, <1>2, <1>3, <1>5 DEF Progress, InAuth
  <1>7. \A p \in Packets(e) : p.t \in UserAsks /\ UserAsked(p)'
    BY <1>0, <1>1, <1>3, <1>4, <1>5 DEF Utters, UserAsked, UserAsks, Fits
  <1>8. KexKept(c, c') /\ LinkKept(c, c')
    BY DEF Kept
  <1> QED
    BY <1>1, <1>4, <1>6, <1>7, <1>8, ReadAnswer DEF Utters

\* The prompts are shown to the user.
LEMMA ReadPrompts ==
    ASSUME IInv, NEW m, Handled(m, <<>>), m.t = "60", c.method = "keyboard", c'.payload = m,
           RestKept(c, c'), c'.handles60 = c.handles60, c'.enabled = c.enabled, Advances(c, c'),
           c'.tryed = c.tryed, c'.tis
    PROVE  IInv'
  <1>0. UserTold(m) /\ c \in ClientState /\ srv' = srv
    BY ToldOf DEF Handled
  <1>1. /\ c'.listFirst = c.listFirst /\ c'.listAsked = c.listAsked
        /\ c'.link = c.link /\ c'.why = c.why /\ c'.hostDlg = c.hostDlg
        /\ c'.kex = c.kex
        /\ c'.outKeys = c.outKeys /\ c'.hostOK = c.hostOK /\ c'.nameOK = c.nameOK /\ c'.success = c.success
    BY DEF RestKept, KexKept, LinkKept
  <1>2. Standing /\ Progress /\ (c.link = "up" => c.why = "none")
    BY DEF IInv, Exchanging, LoggingIn, Writing
  <1>3. /\ InAuth /\ ~srv.auth /\ Auth \subseteq c.enabled /\ c.tryed /\ c.authDlg = "none"
        /\ "60" \in c.enabled /\ Fits(m.n)
    BY <1>0 DEF UserTold, UserAnswers, Auth
  <1>4. c'.authDlg = "posted" /\ c'.method = "none"
    BY <1>3 DEF Advances
  <1>5. Fits(c.payload.n)'
    BY <1>0, <1>3 DEF Fits
  <1>6. Progress'
    BY <1>0, <1>1, <1>2, <1>3, <1>4, <1>5 DEF Progress, InAuth
  <1>7. /\ <<>> \in Seq(Said) /\ Packets(<<>>) = {} /\ Single(<<>>)
        /\ Written(<<>>)
    BY <1>1, <1>2, NothingSent
  <1>8. KexKept(c, c') /\ LinkKept(c, c')
    BY DEF RestKept
  <1> QED
    BY <1>1, <1>6, <1>7, <1>8, ReadAnswer

\* The key is used, or the password changed.
LEMMA ReadSigns ==
    ASSUME IInv, NEW m, NEW e, NEW w \in {"signed", "newpassword"}, Handled(m, e), m.t = "60",
           Kept(c, c'), c'.enabled = c.enabled, Speaks(c, e, "AUTH", w, 0)
    PROVE  IInv'
  <1>0. UserTold(m) /\ c \in ClientState /\ srv' = srv
    BY ToldOf DEF Handled
  <1>1. /\ c'.listFirst = c.listFirst /\ c'.listAsked = c.listAsked /\ c'.method = c.method
        /\ c'.tryed = c.tryed /\ c'.retried = c.retried /\ c'.tis = c.tis
        /\ c'.link = c.link /\ c'.why = c.why /\ c'.hostDlg = c.hostDlg /\ c'.authDlg = c.authDlg
        /\ c'.handles60 = c.handles60 /\ c'.kex = c.kex
        /\ c'.outKeys = c.outKeys /\ c'.hostOK = c.hostOK /\ c'.nameOK = c.nameOK /\ c'.success = c.success
    BY DEF Kept, KexKept, UserKept, LinkKept, DlgKept
  <1>2. Standing /\ Progress /\ (c.link = "up" => c.why = "none")
    BY DEF IInv, Exchanging, LoggingIn, Writing
  <1>3. InAuth /\ ~srv.auth /\ Auth \subseteq c.enabled /\ c.tryed /\ c.authDlg = "none"
    BY <1>0 DEF UserTold, UserAnswers, Auth
  <1>4. Utters(e, "AUTH", w, 0)
    <2>1. "AUTH" \in ClientTypes \ {"NEWKEYS", "DISCONNECT"} /\ w \in Whats /\ 0 \in Prompts \cup {0}
      BY DEF ClientTypes, Whats
    <2>2. c'.hostOK = c.hostOK /\ c'.outKeys = c.outKeys /\ c'.why = c.why /\ (c'.link = "up" => c'.why = "none")
      BY <1>1, <1>2
    <2> QED
      BY <1>0, <2>1, <2>2, PlainSaid
  <1>5. InAuth' /\ c.outKeys > 0 /\ c.nameOK
    BY <1>1, <1>2, <1>3 DEF InAuth, Standing, Progress
  <1>6. Progress'
    BY <1>0, <1>1, <1>2, <1>3, <1>5 DEF Progress, InAuth
  <1>7. \A p \in Packets(e) : p.t \in UserAsks /\ UserAsked(p)'
    BY <1>0, <1>1, <1>3, <1>4, <1>5 DEF Utters, UserAsked, UserAsks
  <1>8. KexKept(c, c') /\ LinkKept(c, c')
    BY DEF Kept
  <1> QED
    BY <1>1, <1>4, <1>6, <1>7, <1>8, ReadAnswer DEF Utters

\* The user is in: a session is opened.
LEMMA ReadSuccess ==
    ASSUME IInv, NEW m, NEW e, Handled(m, e), m.t = "SUCCESS", UserKept(c, c'), LinkKept(c, c'), DlgKept(c, c'),
           c'.kind = c.kind, c'.derived = c.derived, c'.inKeys = c.inKeys, c'.outKeys = c.outKeys,
           c'.hostOK = c.hostOK, c'.nameOK = c.nameOK, c'.handles60 = c.handles60,
           c'.success, c'.kex = {"done"}, c'.enabled = Always \cup Transfer, Speaks(c, e, "OPEN", "session", 0)
    PROVE  IInv'
  <1>0. /\ UserTold(m) /\ c \in ClientState /\ m \in Told /\ srv \in ServerState
        /\ \A p \in Packets(toClient') : KexTold(p) /\ UserTold(p) /\ MayFollow(m, p.t)
        /\ \A p \in Packets(toServer) : KexAsked(p) /\ UserAsked(p) /\ p.t \notin Questions
        /\ srv' = srv
    BY ToldOf DEF Handled, Always
  <1>1. /\ c'.listFirst = c.listFirst /\ c'.listAsked = c.listAsked /\ c'.method = c.method
        /\ c'.tryed = c.tryed /\ c'.retried = c.retried /\ c'.tis = c.tis
        /\ c'.link = c.link /\ c'.why = c.why /\ c'.hostDlg = c.hostDlg /\ c'.authDlg = c.authDlg
    BY DEF UserKept, LinkKept, DlgKept
  <1>2. Standing /\ Progress /\ (c.link = "up" => c.why = "none")
    BY DEF IInv, Exchanging, LoggingIn, Writing
  <1>3. c.kex = {"done"} /\ ~c.success /\ c.handles60 /\ srv.auth /\ c.tryed /\ c.authDlg = "none"
    BY <1>0 DEF UserTold, UserAnswers, Auth, InAuth
  <1>4. Utters(e, "OPEN", "session", 0)
    <2>1. "OPEN" \in ClientTypes \ {"NEWKEYS", "DISCONNECT"} /\ "session" \in Whats /\ 0 \in Prompts \cup {0}
      BY DEF ClientTypes, Whats
    <2>2. c'.hostOK = c.hostOK /\ c'.outKeys = c.outKeys /\ c'.why = c.why /\ (c'.link = "up" => c'.why = "none")
      BY <1>1, <1>2
    <2> QED
      BY <1>0, <2>1, <2>2, PlainSaid
  <1>5. c.nameOK /\ c.hostOK /\ (c.hostDlg # "none" => FALSE)
    BY <1>2, <1>3 DEF Standing
  <1>6. Standing'
    <2>1. "NEWKEYS" \notin c'.enabled
      BY DEF Always, Transfer
    <2> QED
      BY <1>0, <1>1, <1>2, <1>3, <1>5, <2>1 DEF Standing
  <1>7. Progress'
    BY <1>0, <1>1, <1>2, <1>3, <1>5 DEF Progress
  <1>8. ASSUME NEW p \in Packets(toServer) PROVE KexAsked(p)' /\ UserAsked(p)'
    <2>1. KexAsked(p) /\ UserAsked(p) /\ p.t \notin Questions
      BY <1>0, <1>8
    <2> QED
      BY <2>1, NoQuestion
  <1>9. \A p \in Packets(e) : KexAsked(p)' /\ UserAsked(p)'
    BY <1>4 DEF Utters, KexAsked, KexAsks, UserAsked, UserAsks
  <1>10. ASSUME NEW p \in Packets(toClient') PROVE KexTold(p)' /\ UserTold(p)'
    <2>1. p.t \in Always \cup {"KEXINIT"} /\ KexTold(p)
      BY <1>0, <1>10 DEF MayFollow, IsReply
    <2>2. CASE p.t \in Always
      BY <2>2, AlwaysTold
    <2>3. CASE p.t = "KEXINIT"
      <3>1. {} # {"done"}
        OBVIOUS
      <3>2. p.what \in {"dh", "gex"}
        BY <1>3, <2>1, <2>3, <3>1 DEF KexTold
      <3> QED
        BY <1>0, <1>3, <2>3, <3>2 DEF KexTold, UserTold, UserAnswers, Auth
    <2> QED
      BY <2>1, <2>2, <2>3
  <1>11. ~In(e, Questions) /\ e \in Seq(Said) /\ Single(e) /\ Written(e)
    BY <1>4 DEF Utters, Questions, KexAsks, UserAsks
  <1>12. c'.kex \in Stages /\ ~IsReply(m)
    BY DEF Stages, IsReply
  <1> QED
    BY <1>0, <1>1, <1>6, <1>7, <1>8, <1>9, <1>10, <1>11, <1>12, ReadStep DEF Handled

-----------------------------------------------------------------------------
(* HandlePacket.                                                            *)

\* A handler finds s, which is c with the packet m, and leaves t.
Through(m, s, t) ==
    /\ Takes(m) /\ s \in Ready /\ Alike(c, s) /\ s.payload = m
    /\ t \in ClientState /\ Says(t.out)
    /\ c' \in ClientState /\ c'.out = <<>> /\ Alike(t, c') /\ c'.payload = t.payload

LEMMA Opening ==
    ASSUME NEW x \in ClientState, x.out = <<>>, NEW m \in Told
    PROVE  /\ [x EXCEPT !.payload = m] \in Ready /\ Alike(x, [x EXCEPT !.payload = m])
           /\ [x EXCEPT !.payload = m].payload = m
  <1>1. [x EXCEPT !.payload = m] \in ClientState
    BY DEF ClientState
  <1>2. [x EXCEPT !.payload = m].out = <<>> /\ [x EXCEPT !.payload = m].payload = m
    BY DEF ClientState
  <1>3. KexKept(x, [x EXCEPT !.payload = m])
    BY DEF ClientState, KexKept
  <1>4. UserKept(x, [x EXCEPT !.payload = m])
    BY DEF ClientState, UserKept
  <1>5. LinkKept(x, [x EXCEPT !.payload = m]) /\ DlgKept(x, [x EXCEPT !.payload = m])
    BY DEF ClientState, LinkKept, DlgKept
  <1>6. [x EXCEPT !.payload = m].handles60 = x.handles60 /\ [x EXCEPT !.payload = m].enabled = x.enabled
    BY DEF ClientState
  <1> QED
    BY <1>1, <1>2, <1>3, <1>4, <1>5, <1>6 DEF Ready, Alike, Kept

LEMMA Sent ==
    ASSUME NEW x \in ClientState
    PROVE  /\ [x EXCEPT !.out = <<>>] \in ClientState /\ [x EXCEPT !.out = <<>>].out = <<>>
           /\ Alike(x, [x EXCEPT !.out = <<>>])
           /\ [x EXCEPT !.out = <<>>].payload = x.payload
  <1>1. [x EXCEPT !.out = <<>>] \in ClientState
    <2>1. <<>> \in Seq(Said)
      OBVIOUS
    <2> QED
      BY <2>1 DEF ClientState
  <1>2. [x EXCEPT !.out = <<>>].out = <<>> /\ [x EXCEPT !.out = <<>>].payload = x.payload
    BY DEF ClientState
  <1>3. KexKept(x, [x EXCEPT !.out = <<>>])
    BY DEF ClientState, KexKept
  <1>4. UserKept(x, [x EXCEPT !.out = <<>>])
    BY DEF ClientState, UserKept
  <1>5. LinkKept(x, [x EXCEPT !.out = <<>>]) /\ DlgKept(x, [x EXCEPT !.out = <<>>])
    BY DEF ClientState, LinkKept, DlgKept
  <1>6. [x EXCEPT !.out = <<>>].handles60 = x.handles60 /\ [x EXCEPT !.out = <<>>].enabled = x.enabled
    BY DEF ClientState
  <1> QED
    BY <1>1, <1>2, <1>3, <1>4, <1>5, <1>6 DEF Alike, Kept

\* What a handler may do to the packet's state holds of the step as well.
LEMMA ThroughKeeps ==
    ASSUME NEW m, NEW s, NEW t, Through(m, s, t)
    PROVE  /\ Handled(m, t.out) /\ t.out \in Seq(Said) /\ s \in Ready
           /\ c.kex = s.kex /\ c.kind = s.kind /\ c.derived = s.derived /\ c.inKeys = s.inKeys
           /\ c.outKeys = s.outKeys /\ c.hostOK = s.hostOK /\ c.nameOK = s.nameOK /\ c.success = s.success
           /\ c.listFirst = s.listFirst /\ c.listAsked = s.listAsked /\ c.method = s.method
           /\ c.tryed = s.tryed /\ c.retried = s.retried /\ c.tis = s.tis
           /\ c.link = s.link /\ c.why = s.why /\ c.hostDlg = s.hostDlg /\ c.authDlg = s.authDlg
           /\ c.handles60 = s.handles60 /\ c.enabled = s.enabled
           /\ t.kex = c'.kex /\ t.kind = c'.kind /\ t.derived = c'.derived /\ t.inKeys = c'.inKeys
           /\ t.outKeys = c'.outKeys /\ t.hostOK = c'.hostOK /\ t.nameOK = c'.nameOK /\ t.success = c'.success
           /\ t.listFirst = c'.listFirst /\ t.listAsked = c'.listAsked /\ t.method = c'.method
           /\ t.tryed = c'.tryed /\ t.retried = c'.retried /\ t.tis = c'.tis
           /\ t.link = c'.link /\ t.why = c'.why /\ t.hostDlg = c'.hostDlg /\ t.authDlg = c'.authDlg
           /\ t.handles60 = c'.handles60 /\ t.enabled = c'.enabled
  <1>1. t.out \in Seq(Said)
    BY DEF Through, ClientState
  <1> QED
    BY <1>1 DEF Through, Handled, Alike, Kept, KexKept, UserKept, LinkKept, DlgKept

LEMMA ThroughSpeaks ==
    ASSUME NEW m, NEW s, NEW t, Through(m, s, t), NEW p, NEW what, NEW n, NEW e, Speaks(s, e, p, what, n)
    PROVE  Speaks(c, e, p, what, n)
  <1>1. c.outKeys = s.outKeys
    BY ThroughKeeps
  <1> QED
    BY <1>1 DEF Speaks, Own

LEMMA ThroughKept ==
    ASSUME NEW m, NEW s, NEW t, Through(m, s, t)
    PROVE  /\ KexKept(s, t) => KexKept(c, c')
           /\ UserKept(s, t) => UserKept(c, c')
           /\ LinkKept(s, t) => LinkKept(c, c')
           /\ DlgKept(s, t) => DlgKept(c, c')
           /\ Kept(s, t) => Kept(c, c')
  <1>0. /\ c.kex = s.kex /\ c.kind = s.kind /\ c.derived = s.derived /\ c.inKeys = s.inKeys
        /\ c.outKeys = s.outKeys /\ c.hostOK = s.hostOK /\ c.nameOK = s.nameOK /\ c.success = s.success
        /\ c.listFirst = s.listFirst /\ c.listAsked = s.listAsked /\ c.method = s.method
        /\ c.tryed = s.tryed /\ c.retried = s.retried /\ c.tis = s.tis
        /\ c.link = s.link /\ c.why = s.why /\ c.hostDlg = s.hostDlg /\ c.authDlg = s.authDlg
        /\ c.handles60 = s.handles60
        /\ t.kex = c'.kex /\ t.kind = c'.kind /\ t.derived = c'.derived /\ t.inKeys = c'.inKeys
        /\ t.outKeys = c'.outKeys /\ t.hostOK = c'.hostOK /\ t.nameOK = c'.nameOK /\ t.success = c'.success
        /\ t.listFirst = c'.listFirst /\ t.listAsked = c'.listAsked /\ t.method = c'.method
        /\ t.tryed = c'.tryed /\ t.retried = c'.retried /\ t.tis = c'.tis
        /\ t.link = c'.link /\ t.why = c'.why /\ t.hostDlg = c'.hostDlg /\ t.authDlg = c'.authDlg
        /\ t.handles60 = c'.handles60
    BY ThroughKeeps
  <1>1. KexKept(s, t) => KexKept(c, c')
    BY <1>0 DEF KexKept
  <1>2. UserKept(s, t) => UserKept(c, c')
    BY <1>0 DEF UserKept
  <1>3. LinkKept(s, t) => LinkKept(c, c')
    BY <1>0 DEF LinkKept
  <1>4. DlgKept(s, t) => DlgKept(c, c')
    BY <1>0 DEF DlgKept
  <1> QED
    BY <1>0, <1>1, <1>2, <1>3, <1>4 DEF Kept

\* The connection is left.
LEMMA HandleLeaves ==
    ASSUME IInv, NEW m, NEW s, NEW t, Through(m, s, t), Departs(s, t, t.out),
           t.handles60 = s.handles60 \/ m.t = "60", m.t # "SUCCESS"
    PROVE  IInv'
  <1>0. Handled(m, t.out) /\ t.out \in Seq(Said) /\ c \in ClientState /\ (c.link = "up" => c.why = "none")
    BY ThroughKeeps DEF IInv, TypeOK, Writing
  <1>a. /\ c.why = s.why /\ c.link = s.link /\ c.enabled = s.enabled /\ c.handles60 = s.handles60
        /\ c.hostDlg = s.hostDlg /\ c.authDlg = s.authDlg
        /\ t.why = c'.why /\ t.link = c'.link /\ t.enabled = c'.enabled /\ t.handles60 = c'.handles60
        /\ t.hostDlg = c'.hostDlg /\ t.authDlg = c'.authDlg
    BY ThroughKeeps
  <1>1. KexKept(c, c') /\ UserKept(c, c')
    BY ThroughKept DEF Departs
  <1>2. /\ c'.enabled = c.enabled /\ c'.hostDlg \in {c.hostDlg, "none"} /\ c'.authDlg \in {c.authDlg, "none"}
        /\ c'.handles60 = c.handles60 \/ m.t = "60"
        /\ c'.why # "none"
    BY <1>a DEF Departs, LinkKept
  <1>3. c'.hostOK = c.hostOK /\ c'.outKeys = c.outKeys
    BY <1>1 DEF KexKept
  <1>4. Written(t.out) /\ Single(t.out) /\ \A p \in Packets(t.out) : p.t = "DISCONNECT"
    <2>1. CASE c.why = "none"
      <3>1. c'.link = "closing" /\ Speaks(s, t.out, "DISCONNECT", "", 0)
        BY <1>a, <2>1 DEF Departs
      <3>2. Speaks(c, t.out, "DISCONNECT", "", 0)
        BY <3>1, ThroughSpeaks
      <3>3. "DISCONNECT" \in ClientTypes /\ "" \in Whats /\ 0 \in Prompts \cup {0}
        BY DEF ClientTypes, Whats
      <3>4. Utters(t.out, "DISCONNECT", "", 0)
        BY <1>0, <1>2, <1>3, <3>1, <3>2, <3>3, OneSaid
      <3> QED
        BY <3>4 DEF Utters
    <2>2. CASE c.why # "none"
      <3>1. LinkKept(s, t) /\ t.out = <<>>
        BY <1>a, <2>2 DEF Departs
      <3>2. c'.link = c.link /\ c'.why = c.why
        BY <1>a, <3>1 DEF LinkKept
      <3>3. Packets(<<>>) = {} /\ Single(<<>>) /\ Written(<<>>)
        BY <1>0, <1>3, <3>2, NothingSent
      <3> QED
        BY <3>1, <3>3
    <2> QED
      BY <2>1, <2>2
  <1> QED
    BY <1>0, <1>1, <1>2, <1>4, ReadStays

\* Nothing comes of the packet.
LEMMA HandleNothing ==
    ASSUME IInv, NEW m, NEW s, NEW t, Through(m, s, t), KexKept(s, t), UserKept(s, t), LinkKept(s, t), DlgKept(s, t),
           t.enabled = s.enabled, t.handles60 = s.handles60 \/ m.t = "60", t.out = <<>>,
           m.t \in {"IGNORE", "DATA", "EXT_INFO", "BANNER", "60"}
    PROVE  IInv'
  <1>0. Handled(m, t.out) /\ t.out \in Seq(Said) /\ c \in ClientState /\ (c.link = "up" => c.why = "none")
    BY ThroughKeeps DEF IInv, TypeOK, Writing
  <1>1. KexKept(c, c') /\ UserKept(c, c') /\ LinkKept(c, c') /\ DlgKept(c, c')
    BY ThroughKept
  <1>2. c'.enabled = c.enabled /\ (c'.handles60 = c.handles60 \/ m.t = "60")
    BY ThroughKeeps
  <1>3. c'.hostOK = c.hostOK /\ c'.outKeys = c.outKeys /\ c'.link = c.link /\ c'.why = c.why
        /\ c'.hostDlg = c.hostDlg /\ c'.authDlg = c.authDlg
    BY <1>1 DEF KexKept, LinkKept, DlgKept
  <1>4. Packets(<<>>) = {} /\ Single(<<>>) /\ Written(<<>>)
    BY <1>0, <1>3, NothingSent
  <1>5. c'.why = "none" => c.why = "none" /\ m.t \notin {"31", "33", "NEWKEYS", "DISCONNECT"}
    BY <1>3
  <1> QED
    BY <1>0, <1>1, <1>2, <1>3, <1>4, <1>5, ReadStays

\* KEXINIT
LEMMA HandleKexInit ==
    ASSUME IInv, NEW m, NEW s, NEW t, Through(m, s, t), m.t = "KEXINIT", m.t \in c.enabled, t = KexInit(s, m.what)
    PROVE  IInv'
  <1>0. KexTold(m) /\ Handled(m, t.out)
    <2>1. Handled(m, t.out)
      BY ThroughKeeps
    <2> QED
      BY <2>1, ToldOf DEF Handled
  <1>1. s \in Ready /\ s.kex = c.kex
    BY ThroughKeeps
  <1>2. m.what \in {"none", "dh", "gex"} /\ (s.kex = {"done"} => m.what # "none")
    <2>1. {} # {"done"}
      OBVIOUS
    <2> QED
      BY <1>0, <1>1, <2>1 DEF KexTold
  <1>3. CASE m.what = "none"
    <2>1. t = Leaving(s, "kex")
      BY <1>1, <1>2, <1>3, KexInitDoes
    <2>2. Departs(s, t, t.out) /\ t.handles60 = s.handles60
      BY <1>1, <2>1, LeavingDoes
    <2> QED
      BY <2>2, HandleLeaves
  <1>4. CASE m.what # "none"
    <2>1. BeginsKex(s, t, t.out, m.what)
      BY <1>1, <1>2, <1>4, KexInitDoes
    <2>2. BeginsKex(c, c', t.out, m.what)
      <3>1. UserKept(c, c') /\ LinkKept(c, c') /\ DlgKept(c, c')
        BY <2>1, ThroughKept DEF BeginsKex
      <3>3. /\ c.kex = s.kex /\ c.derived = s.derived /\ c.inKeys = s.inKeys /\ c.outKeys = s.outKeys
            /\ c.hostOK = s.hostOK /\ c.nameOK = s.nameOK /\ c.success = s.success /\ c.handles60 = s.handles60
            /\ t.kex = c'.kex /\ t.kind = c'.kind /\ t.derived = c'.derived /\ t.inKeys = c'.inKeys
            /\ t.outKeys = c'.outKeys /\ t.hostOK = c'.hostOK /\ t.nameOK = c'.nameOK /\ t.success = c'.success
            /\ t.handles60 = c'.handles60 /\ t.enabled = c'.enabled
        BY ThroughKeeps
      <3>4. IF c.kex = {"done"}
            THEN c'.kex = {"rekeying"}
                 /\ t.out = <<Own(c, "KEXINIT", "", 0)>> \o <<Own(c, IF m.what = "gex" THEN "GEX_REQUEST" ELSE "INIT", "", 0)>>
            ELSE c'.kex = c.kex /\ t.out = <<Own(c, IF m.what = "gex" THEN "GEX_REQUEST" ELSE "INIT", "", 0)>>
        BY <2>1, <3>3 DEF BeginsKex, Own
      <3>5. c'.kind = m.what /\ c'.enabled = Always \cup {"31"}
        BY <2>1, <3>3 DEF BeginsKex
      <3>6. /\ c'.handles60 = c.handles60 /\ c'.derived = c.derived /\ c'.inKeys = c.inKeys /\ c'.outKeys = c.outKeys
            /\ c'.hostOK = c.hostOK /\ c'.nameOK = c.nameOK /\ c'.success = c.success
        BY <2>1, <3>3 DEF BeginsKex
      <3> QED
        BY <3>1, <3>4, <3>5, <3>6 DEF BeginsKex
    <2> QED
      BY <1>0, <1>2, <1>4, <2>2, ReadKexInit
  <1> QED
    BY <1>3, <1>4

\* The group of a group exchange.
LEMMA HandleGroup ==
    ASSUME IInv, NEW m, NEW s, NEW t, Through(m, s, t), m.t = "31", s.kind = "gex", t = GexGroup(s)
    PROVE  IInv'
  <1>1. s \in Ready /\ Handled(m, t.out) /\ c.kind = s.kind
    BY ThroughKeeps
  <1>2. Kept(s, t) /\ t.enabled = Always \cup {"33"} /\ Speaks(s, t.out, "GEX_INIT", "", 0)
    BY <1>1, GexGroupDoes DEF Speaks
  <1>3. Kept(c, c')
    BY <1>2, ThroughKept
  <1>4. c'.kind = c.kind /\ c'.enabled = Always \cup {"33"}
    <2>1. t.enabled = c'.enabled
      BY ThroughKeeps
    <2> QED
      BY <1>2, <1>3, <2>1 DEF Kept, KexKept
  <1>5. Speaks(c, t.out, "GEX_INIT", "", 0)
    BY <1>2, ThroughSpeaks
  <1> QED
    BY <1>1, <1>3, <1>4, <1>5, ReadGexGroup

\* The reply with the host's key.
LEMMA HandleReply ==
    ASSUME IInv, NEW m, NEW s, NEW t, Through(m, s, t), m.t = "33" \/ (m.t = "31" /\ s.kind = "dh"),
           NEW good \in BOOLEAN, NEW known \in BOOLEAN, t = KexReply(s, good, known)
    PROVE  IInv'
  <1>0. s \in Ready /\ Handled(m, t.out) /\ c.kind = s.kind /\ c.kex = s.kex /\ c.hostOK = s.hostOK
    BY ThroughKeeps
  <1>1. KexTold(m) /\ Standing /\ c.kex \in Stages
    BY <1>0, ToldOf DEF Handled, IInv, Exchanging
  <1>2. IsReply(m)
    BY <1>0, <1>1 DEF IsReply, KexTold
  <1>3. ~c.hostOK => c.kex = {}
    <2>1. Pending
      BY <1>1 DEF KexTold
    <2>2. {"rekeying"} \notin {{}, {"received"}}
      OBVIOUS
    <2> QED
      BY <1>1, <2>1, <2>2 DEF Pending, Standing
  <1>4. PICK u \in ClientState : ((KeyMade(s, u) /\ u.out = <<>>) \/ KeyRefused(s, u)) /\ HostSettled(u, t)
    BY <1>0, <1>3, KexReplyDoes
  <1>5. Alike(c, s) /\ Alike(t, c')
    BY DEF Through
  <1>6. Unmoved(u) /\ (Made(u) \/ Refused(u)) /\ Parting(u)
    BY <1>4, <1>5, KeyTold
  <1>7. ~u.hostOK => u.kex = {}
    BY <1>3, <1>6 DEF Unmoved
  <1>8. Settled(u) /\ Delivers(u, t.out)
    BY <1>4, <1>5, <1>7, HostTold
  <1> QED
    BY <1>0, <1>2, <1>6, <1>8, ReadReply

\* NEWKEYS
LEMMA HandleNewKeys ==
    ASSUME IInv, NEW m, NEW s, NEW t, Through(m, s, t), m.t = "NEWKEYS", m.t \in c.enabled, t = NewKeys(s)
    PROVE  IInv'
  <1>0. s \in Ready /\ Handled(m, t.out) /\ c.kex = s.kex
    BY ThroughKeeps
  <1>1. KexTold(m)
    BY <1>0, ToldOf DEF Handled
  <1>2. s.kex \in {{}, {"sent"}, {"rekeying"}}
    BY <1>0, <1>1 DEF KexTold
  <1>3. NewKeysRead(s, t) /\ t.out = <<>>
    BY <1>0, <1>2, NewKeysDoes
  <1>4. NewKeysRead(c, c')
    BY <1>3, ThroughKeeps DEF NewKeysRead, LoginKept, LinkKept, Advances
  <1> QED
    BY <1>0, <1>3, <1>4, ReadNewKeys

\* do_SSH2_authrequest, through the packet.
LEMMA ThroughAuthSent ==
    ASSUME NEW m, NEW s, NEW t, Through(m, s, t), NEW e, AuthSent(s, t, e)
    PROVE  AuthSent(c, c', e)
  <1>1. c.outKeys = s.outKeys /\ c.enabled = s.enabled /\ t.enabled = c'.enabled /\ t.method = c'.method
    BY ThroughKeeps
  <1>2. CASE e = <<>> /\ t.enabled = s.enabled
    BY <1>1, <1>2 DEF AuthSent
  <1>3. CASE \E w \in {"keyboard", "query"} :
               /\ e = <<Own(s, "AUTH", w, 0)>> /\ t.enabled = s.enabled \cup {"60"}
               /\ t.method = IF w = "query" THEN "pageant" ELSE "keyboard"
    BY <1>1, <1>3 DEF AuthSent, Own
  <1>4. CASE \E w \in {"signed", "password"} :
               /\ e = <<Own(s, "AUTH", w, 0)>> /\ t.enabled = s.enabled
               /\ t.method = IF w = "signed" THEN "publickey" ELSE "password"
    BY <1>1, <1>4 DEF AuthSent, Own
  <1> QED
    BY <1>2, <1>3, <1>4 DEF AuthSent

LEMMA ThroughRest ==
    ASSUME NEW m, NEW s, NEW t, Through(m, s, t), RestKept(s, t)
    PROVE  RestKept(c, c')
  <1>1. KexKept(c, c') /\ LinkKept(c, c')
    BY ThroughKept DEF RestKept
  <1>2. /\ c.hostDlg = s.hostDlg /\ c.listFirst = s.listFirst /\ c.listAsked = s.listAsked
        /\ t.hostDlg = c'.hostDlg /\ t.listFirst = c'.listFirst /\ t.listAsked = c'.listAsked
    BY ThroughKeeps
  <1> QED
    BY <1>1, <1>2 DEF RestKept

\* SERVICE_ACCEPT
LEMMA HandleServiceAccept ==
    ASSUME IInv, NEW m, NEW s, NEW t, Through(m, s, t), m.t = "SERVICE_ACCEPT", t = ServiceAccept(s)
    PROVE  IInv'
  <1>0. s \in Ready /\ Handled(m, t.out) /\ c.tryed = s.tryed /\ t.enabled = c'.enabled
    BY ThroughKeeps
  <1>1. UserTold(m)
    BY <1>0, ToldOf DEF Handled
  <1>2. ~s.tryed
    BY <1>0, <1>1 DEF UserTold
  <1>3. /\ Kept(s, t) /\ Speaks(s, t.out, "AUTH", "none", 0)
        /\ Auth \subseteq t.enabled /\ "NEWKEYS" \notin t.enabled
    BY <1>0, <1>2, ServiceAcceptDoes DEF Speaks
  <1>4. Kept(c, c') /\ Speaks(c, t.out, "AUTH", "none", 0)
    BY <1>3, ThroughKept, ThroughSpeaks
  <1> QED
    BY <1>0, <1>3, <1>4, ReadServiceAccept

\* FAILURE
LEMMA HandleFailure ==
    ASSUME IInv, NEW m, NEW s, NEW t, Through(m, s, t), m.t = "FAILURE", t = UserauthFailure(s)
    PROVE  IInv'
  <1>0. /\ s \in Ready /\ Handled(m, t.out)
    BY ThroughKeeps
  <1>1. /\ c.tryed = s.tryed /\ c.method = s.method /\ c.retried = s.retried /\ c.tis = s.tis
        /\ c.authDlg = s.authDlg /\ c.handles60 = s.handles60 /\ c.enabled = s.enabled
        /\ t.tryed = c'.tryed /\ t.method = c'.method /\ t.retried = c'.retried /\ t.tis = c'.tis
        /\ t.authDlg = c'.authDlg /\ t.handles60 = c'.handles60 /\ t.enabled = c'.enabled
    BY ThroughKeeps
  <1>2. \/ ~s.tryed /\ FirstFailure(s, t, t.out)
        \/ NextKey(s, t, t.out)
        \/ AskedAgain(s, t, t.out)
    BY <1>0, FailureDoes
  <1>3. CASE ~s.tryed /\ FirstFailure(s, t, t.out)
    <2>1. RestKept(c, c')
      BY <1>3, ThroughRest DEF FirstFailure
    <2>2. AuthSent(c, c', t.out)
      BY <1>3, ThroughAuthSent DEF FirstFailure
    <2>3. FirstFailure(c, c', t.out)
      BY <1>1, <1>3, <2>1, <2>2 DEF FirstFailure
    <2> QED
      BY <1>0, <1>1, <1>3, <2>3, ReadFirstFailure
  <1>4. CASE NextKey(s, t, t.out)
    <2>1. Kept(c, c')
      BY <1>4, ThroughKept DEF NextKey
    <2>2. AuthSent(c, c', t.out)
      BY <1>4, ThroughAuthSent DEF NextKey
    <2>3. NextKey(c, c', t.out)
      BY <1>1, <1>4, <2>1, <2>2 DEF NextKey
    <2> QED
      BY <1>0, <2>3, ReadNextKey
  <1>5. CASE AskedAgain(s, t, t.out)
    <2>1. RestKept(c, c')
      BY <1>5, ThroughRest DEF AskedAgain
    <2>2. t.out = <<>>
      BY <1>5 DEF AskedAgain
    <2>3. AskedAgain(c, c', <<>>)
      BY <1>1, <1>5, <2>1, <2>2 DEF AskedAgain, Advances
    <2> QED
      BY <1>0, <2>2, <2>3, ReadAskedAgain
  <1> QED
    BY <1>2, <1>3, <1>4, <1>5

\* SUCCESS
LEMMA HandleSuccess ==
    ASSUME IInv, NEW m, NEW s, NEW t, Through(m, s, t), m.t = "SUCCESS", t = UserauthSuccess(s)
    PROVE  IInv'
  <1>0. s \in Ready /\ Handled(m, t.out)
    BY ThroughKeeps
  <1>1. LoggedIn(s, t, t.out)
    BY <1>0, SuccessDoes
  <1>2. UserKept(c, c') /\ LinkKept(c, c') /\ DlgKept(c, c')
    BY <1>1, ThroughKept DEF LoggedIn
  <1>3. /\ c.kind = s.kind /\ c.derived = s.derived /\ c.inKeys = s.inKeys /\ c.outKeys = s.outKeys
        /\ c.hostOK = s.hostOK /\ c.nameOK = s.nameOK /\ c.handles60 = s.handles60
        /\ t.kind = c'.kind /\ t.derived = c'.derived /\ t.inKeys = c'.inKeys /\ t.outKeys = c'.outKeys
        /\ t.hostOK = c'.hostOK /\ t.nameOK = c'.nameOK /\ t.handles60 = c'.handles60
        /\ t.success = c'.success /\ t.kex = c'.kex /\ t.enabled = c'.enabled
    BY ThroughKeeps
  <1>4. /\ c'.kind = c.kind /\ c'.derived = c.derived /\ c'.inKeys = c.inKeys /\ c'.outKeys = c.outKeys
        /\ c'.hostOK = c.hostOK /\ c'.nameOK = c.nameOK /\ c'.handles60 = c.handles60
        /\ c'.success /\ c'.kex = {"done"} /\ c'.enabled = Always \cup Transfer
    BY <1>1, <1>3 DEF LoggedIn
  <1>5. Speaks(s, t.out, "OPEN", "session", 0)
    BY <1>1 DEF LoggedIn, Speaks
  <1>6. Speaks(c, t.out, "OPEN", "session", 0)
    BY <1>5, ThroughSpeaks
  <1> QED
    BY <1>0, <1>2, <1>4, <1>6, ReadSuccess

\* Packet 60
LEMMA Handle60 ==
    ASSUME IInv, NEW m, NEW s, NEW t, Through(m, s, t), m.t = "60", NEW agrees \in BOOLEAN, t = Msg60(s, agrees)
    PROVE  IInv'
  <1>0. /\ s \in Ready /\ Handled(m, t.out) /\ c.method = s.method
    BY ThroughKeeps
  <1>1. /\ c.tryed = s.tryed
        /\ c.authDlg = s.authDlg /\ c.handles60 = s.handles60 /\ c.enabled = s.enabled
        /\ t.tryed = c'.tryed /\ t.method = c'.method /\ t.tis = c'.tis
        /\ t.authDlg = c'.authDlg /\ t.handles60 = c'.handles60 /\ t.enabled = c'.enabled
    BY ThroughKeeps
  <1>2. UserTold(m)
    BY <1>0, ToldOf DEF Handled
  <1>3. s.method \in {"keyboard", "pageant", "password"}
    BY <1>0, <1>2 DEF UserTold
  <1>4. s.payload = m /\ c'.payload = t.payload
    BY DEF Through
  <1>5. CASE s.method = "keyboard"
    <2>1. Responds(s, t, t.out) \/ ShowsPrompts(s, t, t.out)
      BY <1>0, <1>3, <1>5, Msg60Does
    <2>2. CASE Responds(s, t, t.out)
      <3>1. Kept(s, t) /\ t.enabled = s.enabled /\ Speaks(s, t.out, "INFO_RESPONSE", "", m.n)
        BY <1>4, <2>2 DEF Responds, Speaks
      <3>2. Kept(c, c') /\ c'.enabled = c.enabled /\ Speaks(c, t.out, "INFO_RESPONSE", "", m.n)
        BY <1>1, <3>1, ThroughKept, ThroughSpeaks
      <3> QED
        BY <1>0, <1>5, <3>2, ReadResponds
    <2>3. CASE ShowsPrompts(s, t, t.out)
      <3>1. t.out = <<>>
        BY <2>3 DEF ShowsPrompts
      <3>2. RestKept(c, c')
        BY <2>3, ThroughRest DEF ShowsPrompts
      <3>3. /\ c'.handles60 = c.handles60 /\ c'.enabled = c.enabled /\ Advances(c, c')
            /\ c'.tryed = c.tryed /\ c'.tis /\ c'.payload = m
        BY <1>1, <1>4, <2>3 DEF ShowsPrompts, Advances
      <3> QED
        BY <1>0, <1>5, <3>1, <3>2, <3>3, ReadPrompts
    <2> QED
      BY <2>1, <2>2, <2>3
  <1>6. CASE s.method # "keyboard"
    <2>1. Signs(s, t, t.out) \/ Declines(s, t, t.out)
      BY <1>0, <1>3, <1>6, Msg60Does
    <2>2. CASE Signs(s, t, t.out)
      <3>1. Kept(s, t) /\ t.enabled = s.enabled
        BY <2>2 DEF Signs
      <3>2. PICK w \in {"signed", "newpassword"} : Speaks(s, t.out, "AUTH", w, 0)
        BY <2>2 DEF Signs, Speaks
      <3>3. Kept(c, c') /\ c'.enabled = c.enabled /\ Speaks(c, t.out, "AUTH", w, 0)
        BY <1>1, <3>1, <3>2, ThroughKept, ThroughSpeaks
      <3> QED
        BY <1>0, <3>3, ReadSigns
    <2>3. CASE Declines(s, t, t.out)
      <3>1. CASE Departs(s, t, t.out)
        BY <3>1, HandleLeaves
      <3>2. CASE /\ KexKept(s, t) /\ UserKept(s, t) /\ LinkKept(s, t) /\ DlgKept(s, t)
                 /\ t.enabled = s.enabled /\ t.out = <<>>
        BY <3>2, HandleNothing
      <3> QED
        BY <2>3, <3>1, <3>2 DEF Declines
    <2> QED
      BY <2>1, <2>2, <2>3
  <1> QED
    BY <1>5, <1>6

\* PKT_recv, SSH2_handle_packet: whatever packet comes next.
LEMMA HandlePacketStep ==
    ASSUME IInv, HandlePacket
    PROVE  IInv'
  <1>1. PICK known \in BOOLEAN, agrees \in BOOLEAN :
          Client(IF Expected(c, Head(toClient)) THEN Handle([c EXCEPT !.payload = Head(toClient)], Head(toClient), known, agrees)
                 ELSE Leaving([c EXCEPT !.payload = Head(toClient)], "unexpected"))
    BY DEF HandlePacket
  <1> DEFINE m == Head(toClient)
  <1> DEFINE s == [c EXCEPT !.payload = m]
  <1> DEFINE t == IF Expected(c, m) THEN Handle(s, m, known, agrees) ELSE Leaving(s, "unexpected")
  <1>2. c \in ClientState /\ c.out = <<>> /\ toClient \in Seq(Told) /\ toClient # <<>>
    BY DEF IInv, TypeOK, HandlePacket
  <1>3. Takes(m)
    BY DEF HandlePacket, Takes
  <1>4. m \in Told /\ KexTold(m) /\ UserTold(m)
    BY <1>3, ToldOf
  <1>5. s \in Ready /\ Alike(c, s) /\ s.payload = m
    BY <1>2, <1>4, Opening
  <1>6. c' = [t EXCEPT !.out = <<>>] /\ Says(t.out)
    BY <1>1 DEF Client, Says
  <1> HIDE DEF s
  <1>7. ASSUME t \in ClientState PROVE Through(m, s, t)
    BY <1>3, <1>5, <1>6, <1>7, Sent DEF Through
  <1>8. c.enabled = s.enabled /\ c.kind = s.kind /\ c.handles60 = s.handles60 /\ c.tryed = s.tryed /\ c.method = s.method
        /\ c.hostOK = s.hostOK /\ c.kex = s.kex
    BY <1>5 DEF Alike, Kept, KexKept, UserKept
  <1> HIDE DEF m
  <1>9. CASE ~Expected(c, m)
    <2>1. t = Leaving(s, "unexpected")
      BY <1>9
    <2> HIDE DEF t
    <2>2. t \in ClientState /\ Departs(s, t, t.out) /\ t.handles60 = s.handles60
      BY <1>5, <2>1, LeavingDoes
    <2>3. m.t # "SUCCESS"
      BY <1>4, <1>9 DEF Expected, UserTold, Auth
    <2> QED
      BY <1>7, <2>2, <2>3, HandleLeaves
  <1>10. CASE Expected(c, m)
    <2>1. t = Handle(s, m, known, agrees)
      BY <1>10
    <2> HIDE DEF t
    <2>2. m.t \in c.enabled /\ m.t \in Types
      BY <1>4, <1>10 DEF Expected, Told
    <2>3. CASE m.t = "KEXINIT"
      <3>1. t = KexInit(s, m.what)
        BY <2>1, <2>3 DEF Handle
      <3>2. m.what \in {"none", "dh", "gex"} /\ (s.kex = {"done"} => m.what # "none")
        <4>1. {} # {"done"}
          OBVIOUS
        <4> QED
          BY <1>4, <1>8, <2>3, <4>1 DEF KexTold
      <3>3. t \in ClientState
        BY <1>5, <3>1, <3>2, KexInitDoes, LeavingDoes
      <3> QED
        BY <1>7, <2>2, <2>3, <3>1, <3>3, HandleKexInit
    <2>4. CASE m.t = "31" /\ s.kind = "gex"
      <3>1. t = GexGroup(s)
        BY <2>1, <2>4 DEF Handle
      <3>2. t \in ClientState
        BY <1>5, <3>1, GexGroupDoes
      <3> QED
        BY <1>7, <2>4, <3>1, <3>2, HandleGroup
    <2>5. CASE m.t = "33" \/ (m.t = "31" /\ s.kind = "dh")
      <3>1. t = KexReply(s, m.what = "good", known)
        BY <2>1, <2>5 DEF Handle
      <3>2. ~s.hostOK => s.kex \in {{}, {"received"}}
        <4>1. Standing
          BY DEF IInv, Exchanging
        <4> QED
          BY <1>8, <4>1 DEF Standing
      <3>3. t \in ClientState
        BY <1>5, <3>1, <3>2, KexReplyDoes
      <3> QED
        BY <1>7, <2>5, <3>1, <3>3, HandleReply
    <2>6. CASE m.t = "NEWKEYS"
      <3>1. t = NewKeys(s)
        BY <2>1, <2>6 DEF Handle
      <3>2. s.kex \in {{}, {"sent"}, {"rekeying"}}
        BY <1>4, <1>8, <2>6 DEF KexTold
      <3>3. t \in ClientState
        BY <1>5, <3>1, <3>2, NewKeysDoes
      <3> QED
        BY <1>7, <2>2, <2>6, <3>1, <3>3, HandleNewKeys
    <2>7. CASE m.t = "SERVICE_ACCEPT"
      <3>1. t = ServiceAccept(s)
        BY <2>1, <2>7 DEF Handle
      <3>2. ~s.tryed
        BY <1>4, <1>8, <2>7 DEF UserTold
      <3>3. t \in ClientState
        BY <1>5, <3>1, <3>2, ServiceAcceptDoes
      <3> QED
        BY <1>7, <2>7, <3>1, <3>3, HandleServiceAccept
    <2>8. CASE m.t = "FAILURE"
      <3>1. t = UserauthFailure(s)
        BY <2>1, <2>8 DEF Handle
      <3>2. t \in ClientState
        BY <1>5, <3>1, FailureDoes
      <3> QED
        BY <1>7, <2>8, <3>1, <3>2, HandleFailure
    <2>9. CASE m.t = "SUCCESS"
      <3>1. t = UserauthSuccess(s)
        BY <2>1, <2>9 DEF Handle
      <3>2. t \in ClientState
        BY <1>5, <3>1, SuccessDoes
      <3> QED
        BY <1>7, <2>9, <3>1, <3>2, HandleSuccess
    <2>10. CASE m.t = "60"
      <3>1. t = Msg60(s, agrees)
        BY <2>1, <2>10 DEF Handle
      <3>2. s.method \in {"keyboard", "pageant", "password"}
        BY <1>4, <1>8, <2>10 DEF UserTold
      <3>3. t \in ClientState
        BY <1>5, <3>1, <3>2, Msg60Does
      <3> QED
        BY <1>7, <2>10, <3>1, <3>3, Handle60
    <2>11. CASE m.t = "DISCONNECT"
      <3>1. t = Leaving(s, "server")
        BY <2>1, <2>11 DEF Handle
      <3>2. t \in ClientState /\ Departs(s, t, t.out) /\ t.handles60 = s.handles60
        BY <1>5, <3>1, LeavingDoes
      <3> QED
        BY <1>7, <2>11, <3>2, HandleLeaves
    <2>12. CASE m.t \in {"IGNORE", "DATA", "EXT_INFO", "BANNER"}
      <3>1. t = s
        BY <2>1, <2>12 DEF Handle
      <3>2. /\ KexKept(s, s) /\ UserKept(s, s) /\ LinkKept(s, s) /\ DlgKept(s, s)
            /\ s \in ClientState /\ s.out = <<>>
        BY <1>5 DEF KexKept, UserKept, LinkKept, DlgKept, Ready
      <3> QED
        BY <1>7, <2>12, <3>1, <3>2, HandleNothing
    <2>13. m.t = "31" => s.kind \in {"gex", "dh"}
      BY <1>2, <1>4, <1>8 DEF KexTold, ClientState
    <2>14. m.t \in {"KEXINIT", "31", "33", "NEWKEYS", "SERVICE_ACCEPT", "FAILURE", "SUCCESS", "60",
                    "DISCONNECT", "IGNORE", "DATA", "EXT_INFO", "BANNER"}
      BY <2>2 DEF Types, Always, Transfer
    <2> QED
      BY <2>3, <2>4, <2>5, <2>6, <2>7, <2>8, <2>9, <2>10, <2>11, <2>12, <2>13, <2>14
  <1> QED
    BY <1>9, <1>10

-----------------------------------------------------------------------------
(* The dialogs.                                                             *)

\* A step of the client that reads nothing and leaves t, with its packets e.
Steps(t, e) ==
    /\ toClient' = toClient /\ srv' = srv /\ e = t.out /\ Says(e)
    /\ t \in ClientState /\ c' \in ClientState /\ c'.out = <<>>
    /\ Alike(t, c') /\ c'.payload = t.payload

LEMMA DialogSteps ==
    ASSUME NEW t \in ClientState, Client(t), toClient' = toClient, srv' = srv
    PROVE  Steps(t, t.out) /\ t.out \in Seq(Said)
  <1>1. c' = [t EXCEPT !.out = <<>>] /\ Says(t.out)
    BY DEF Client, Says
  <1>2. t.out \in Seq(Said)
    BY DEF ClientState
  <1> QED
    BY <1>1, <1>2, Sent DEF Steps

LEMMA StepsKeep ==
    ASSUME NEW t, NEW e, Steps(t, e)
    PROVE  /\ t.kex = c'.kex /\ t.kind = c'.kind /\ t.derived = c'.derived /\ t.inKeys = c'.inKeys
           /\ t.outKeys = c'.outKeys /\ t.hostOK = c'.hostOK /\ t.nameOK = c'.nameOK /\ t.success = c'.success
           /\ t.listFirst = c'.listFirst /\ t.listAsked = c'.listAsked /\ t.method = c'.method
           /\ t.tryed = c'.tryed /\ t.retried = c'.retried /\ t.tis = c'.tis
           /\ t.link = c'.link /\ t.why = c'.why /\ t.hostDlg = c'.hostDlg /\ t.authDlg = c'.authDlg
           /\ t.handles60 = c'.handles60 /\ t.enabled = c'.enabled
  BY DEF Steps, Alike, Kept, KexKept, UserKept, LinkKept, DlgKept

\* What is on its way fits what the flags say.
LEMMA OnTheWay ==
    ASSUME IInv
    PROVE  /\ \A p \in Packets(toServer) : KexAsked(p) /\ UserAsked(p)
           /\ \A p \in Packets(toClient) : KexTold(p) /\ UserTold(p) /\ p.t \in Types
           /\ Standing /\ Progress /\ (c.link = "up" => c.why = "none")
           /\ c \in ClientState /\ c.out = <<>> /\ c.kex \in Stages /\ srv \in ServerState
           /\ toClient \in Seq(Told)
  <1>1. TypeOK
    BY DEF IInv
  <1>2. Packets(toClient) \subseteq Told
    BY <1>1, PacketsIn DEF TypeOK
  <1>3. \A p \in Packets(toClient) : p.t \in Types
    BY <1>2 DEF Told
  <1> QED
    BY <1>1, <1>3 DEF IInv, TypeOK, Exchanging, LoggingIn, Writing

\* A dialog is shown or goes away, or the connection is left.
LEMMA SaidStays ==
    ASSUME IInv, toClient' = toClient, srv' = srv, NEW e \in Seq(Said), Says(e),
           c' \in ClientState, c'.out = <<>>, KexKept(c, c'), UserKept(c, c'), c'.enabled = c.enabled,
           c'.handles60 = c.handles60, c'.payload = c.payload,
           c'.hostDlg # "none" => c.hostDlg # "none", c'.authDlg # "none" => c.authDlg # "none",
           c.authDlg = "open" => c'.authDlg \in {"open", "none"},
           Written(e), Single(e), \A p \in Packets(e) : p.t = "DISCONNECT",
           c'.why = "none" => c.why = "none"
    PROVE  IInv'
  <1>0. /\ \A p \in Packets(toServer) : KexAsked(p) /\ UserAsked(p)
        /\ \A p \in Packets(toClient) : KexTold(p) /\ UserTold(p) /\ p.t \in Types
        /\ Standing /\ Progress /\ c \in ClientState /\ c.kex \in Stages
    BY OnTheWay
  <1>1. /\ c'.kex = c.kex /\ c'.kind = c.kind /\ c'.derived = c.derived
        /\ c'.inKeys = c.inKeys /\ c'.outKeys = c.outKeys
        /\ c'.hostOK = c.hostOK /\ c'.nameOK = c.nameOK /\ c'.success = c.success
        /\ c'.listFirst = c.listFirst /\ c'.listAsked = c.listAsked /\ c'.method = c.method
        /\ c'.tryed = c.tryed /\ c'.retried = c.retried /\ c'.tis = c.tis
    BY DEF KexKept, UserKept
  <1>2. Standing'
    BY <1>0, <1>1 DEF Standing
  <1>3. Pending => Pending'
    BY <1>1 DEF Pending
  <1>4. InAuth => InAuth'
    BY <1>1 DEF InAuth, Listing
  <1>5. \A n : Fits(n) <=> Fits(n)'
    BY DEF Fits
  <1>6. Progress'
    <2>1. Fits(c.payload.n) <=> Fits(c.payload.n)'
      BY DEF Fits
    <2> QED
      BY <1>0, <1>1, <2>1 DEF Progress
  <1>a. HasReply' <=> HasReply
    BY DEF HasReply
  <1>7. ASSUME NEW p \in Packets(toServer) PROVE KexAsked(p)' /\ UserAsked(p)'
    <2>0. KexAsked(p) /\ UserAsked(p)
      BY <1>0
    <2>1. KexAsked(p)'
      BY <1>1, <1>3, <2>0 DEF KexAsked
    <2>2. UserAsked(p)'
      BY <1>0, <1>1, <1>4, <1>5, <2>0 DEF UserAsked
    <2> QED
      BY <2>1, <2>2
  <1>8. ASSUME NEW p \in Packets(toClient) PROVE KexTold(p)' /\ UserTold(p)'
    <2>0. KexTold(p) /\ UserTold(p)
      BY <1>0
    <2>1. KexTold(p)'
      BY <1>1, <1>3, <1>a, <2>0 DEF KexTold
    <2>2. UserTold(p)'
      BY <1>0, <1>1, <1>4, <1>5, <2>0 DEF UserTold
    <2> QED
      BY <2>1, <2>2
  <1>9. \A p \in Packets(e) : KexAsked(p)' /\ UserAsked(p)'
    BY DEF KexAsked, UserAsked, KexAsks, UserAsks
  <1>10. ~In(e, Questions)
    BY DEF In, Questions, KexAsks, UserAsks
  <1> QED
    BY <1>0, <1>1, <1>2, <1>6, <1>7, <1>8, <1>9, <1>10, SaidStep

\* ... without a packet.
LEMMA SaidNothing ==
    ASSUME IInv, NEW t, Steps(t, <<>>), KexKept(c, t), UserKept(c, t),
           t.enabled = c.enabled, t.handles60 = c.handles60, t.payload = c.payload,
           t.why = c.why, t.link \in {c.link, "closed"},
           t.hostDlg # "none" => c.hostDlg # "none", t.authDlg # "none" => c.authDlg # "none",
           c.authDlg = "open" => t.authDlg \in {"open", "none"}
    PROVE  IInv'
  <1>1. /\ Alike(t, c') /\ c'.payload = t.payload /\ c' \in ClientState /\ c'.out = <<>> /\ Says(<<>>)
        /\ toClient' = toClient /\ srv' = srv
    BY DEF Steps
  <1>2. KexKept(c, c')
    BY <1>1 DEF KexKept, Alike, Kept
  <1>3. UserKept(c, c')
    BY <1>1 DEF UserKept, Alike, Kept
  <1>4. /\ t.hostDlg = c'.hostDlg /\ t.authDlg = c'.authDlg /\ t.why = c'.why /\ t.link = c'.link
        /\ t.enabled = c'.enabled /\ t.handles60 = c'.handles60
    BY StepsKeep
  <1>5. c.link = "up" => c.why = "none"
    BY OnTheWay
  <1>6. <<>> \in Seq(Said) /\ Packets(<<>>) = {} /\ Single(<<>>) /\ Written(<<>>)
    BY <1>2, <1>4, <1>5, NothingSent DEF KexKept
  <1> QED
    BY <1>1, <1>2, <1>3, <1>4, <1>6, SaidStays

LEMMA ShowHostDialogStep ==
    ASSUME IInv, ShowHostDialog
    PROVE  IInv'
  <1> DEFINE t == [c EXCEPT !.hostDlg = "open"]
  <1>0. c \in ClientState /\ c.out = <<>> /\ c.hostDlg = "posted"
    BY OnTheWay DEF ShowHostDialog
  <1>1. t \in ClientState /\ t.out = <<>>
    BY <1>0 DEF ClientState, Shown
  <1>2. Client(t) /\ toClient' = toClient /\ srv' = srv
    BY DEF ShowHostDialog, Dialog
  <1>3. KexKept(c, t)
    BY <1>0 DEF ClientState, KexKept
  <1>4. UserKept(c, t)
    BY <1>0 DEF ClientState, UserKept
  <1>5. /\ t.enabled = c.enabled /\ t.handles60 = c.handles60 /\ t.payload = c.payload
        /\ t.authDlg = c.authDlg /\ t.why = c.why /\ t.link = c.link
    BY <1>0 DEF ClientState
  <1> HIDE DEF t
  <1>6. Steps(t, <<>>)
    BY <1>1, <1>2, DialogSteps
  <1> QED
    BY <1>0, <1>3, <1>4, <1>5, <1>6, SaidNothing

LEMMA ShowAuthDialogStep ==
    ASSUME IInv, ShowAuthDialog
    PROVE  IInv'
  <1> DEFINE t == [c EXCEPT !.authDlg = "open"]
  <1>0. c \in ClientState /\ c.out = <<>> /\ c.authDlg = "posted"
    BY OnTheWay DEF ShowAuthDialog
  <1>1. t \in ClientState /\ t.out = <<>>
    BY <1>0 DEF ClientState, Shown
  <1>2. Client(t) /\ toClient' = toClient /\ srv' = srv
    BY DEF ShowAuthDialog, Dialog
  <1>3. KexKept(c, t)
    BY <1>0 DEF ClientState, KexKept
  <1>4. UserKept(c, t)
    BY <1>0 DEF ClientState, UserKept
  <1>5. /\ t.enabled = c.enabled /\ t.handles60 = c.handles60 /\ t.payload = c.payload
        /\ t.hostDlg = c.hostDlg /\ t.why = c.why /\ t.link = c.link
    BY <1>0 DEF ClientState
  <1> HIDE DEF t
  <1>6. Steps(t, <<>>)
    BY <1>1, <1>2, DialogSteps
  <1> QED
    BY <1>0, <1>3, <1>4, <1>5, <1>6, SaidNothing

LEMMA CloseTCPStep ==
    ASSUME IInv, CloseTCP
    PROVE  IInv'
  <1> DEFINE t == [c EXCEPT !.link = "closed", !.authDlg = "none", !.hostDlg = "none", !.out = <<>>]
  <1>0. c \in ClientState /\ c.out = <<>>
    BY OnTheWay
  <1>1. t \in ClientState /\ t.out = <<>>
    <2>1. <<>> \in Seq(Said)
      OBVIOUS
    <2> QED
      BY ZenonT(40), <1>0, <2>1 DEF ClientState, Shown
  <1>2. Client(t) /\ toClient' = toClient /\ srv' = srv
    BY DEF CloseTCP
  <1>3. KexKept(c, t)
    BY <1>0 DEF ClientState, KexKept
  <1>4. UserKept(c, t)
    BY <1>0 DEF ClientState, UserKept
  <1>5. /\ t.enabled = c.enabled /\ t.handles60 = c.handles60 /\ t.payload = c.payload
        /\ t.hostDlg = "none" /\ t.authDlg = "none" /\ t.why = c.why /\ t.link = "closed"
    BY <1>0 DEF ClientState
  <1> HIDE DEF t
  <1>6. Steps(t, <<>>)
    BY <1>1, <1>2, DialogSteps
  <1> QED
    BY <1>3, <1>4, <1>5, <1>6, SaidNothing

\* The user cancels.
LEMMA UserLeaves ==
    ASSUME IInv, Client(Leaving(c, "user")), toClient' = toClient, srv' = srv
    PROVE  IInv'
  <1> DEFINE t == Leaving(c, "user")
  <1>0. c \in Ready /\ c \in ClientState /\ (c.link = "up" => c.why = "none")
    BY OnTheWay DEF Ready
  <1>1. t \in ClientState /\ Departs(c, t, t.out) /\ t.handles60 = c.handles60 /\ t.payload = c.payload
    BY <1>0, LeavingDoes
  <1>2. Client(t)
    OBVIOUS
  <1> HIDE DEF t
  <1>3. Steps(t, t.out) /\ t.out \in Seq(Said)
    BY <1>1, <1>2, DialogSteps
  <1>4. Alike(t, c') /\ c'.payload = t.payload /\ c' \in ClientState /\ c'.out = <<>> /\ Says(t.out)
    BY <1>3 DEF Steps
  <1>5. KexKept(c, c')
    BY <1>1, <1>4 DEF KexKept, Alike, Kept, Departs
  <1>6. UserKept(c, c')
    BY <1>1, <1>4 DEF UserKept, Alike, Kept, Departs
  <1>7. /\ t.hostDlg = c'.hostDlg /\ t.authDlg = c'.authDlg /\ t.why = c'.why /\ t.link = c'.link
        /\ t.enabled = c'.enabled /\ t.handles60 = c'.handles60
    BY <1>3, StepsKeep
  <1>8. /\ c'.enabled = c.enabled /\ c'.handles60 = c.handles60 /\ c'.payload = c.payload
        /\ c'.hostDlg \in {c.hostDlg, "none"} /\ c'.authDlg \in {c.authDlg, "none"} /\ c'.why # "none"
    BY <1>1, <1>4, <1>7 DEF Departs, LinkKept
  <1>9. Written(t.out) /\ Single(t.out) /\ \A p \in Packets(t.out) : p.t = "DISCONNECT"
    <2>1. CASE c.why = "none"
      <3>1. c'.link = "closing" /\ Speaks(c, t.out, "DISCONNECT", "", 0)
        BY <1>1, <1>7, <2>1 DEF Departs
      <3>2. "DISCONNECT" \in ClientTypes /\ "" \in Whats /\ 0 \in Prompts \cup {0}
        BY DEF ClientTypes, Whats
      <3>3. Utters(t.out, "DISCONNECT", "", 0)
        BY <1>0, <1>5, <1>8, <3>1, <3>2, OneSaid DEF KexKept
      <3> QED
        BY <3>3 DEF Utters
    <2>2. CASE c.why # "none"
      <3>1. LinkKept(c, t) /\ t.out = <<>>
        BY <1>1, <2>2 DEF Departs
      <3>2. c'.link = c.link /\ c'.why = c.why
        BY <1>7, <3>1 DEF LinkKept
      <3>3. Packets(<<>>) = {} /\ Single(<<>>) /\ Written(<<>>)
        BY <1>0, <1>5, <3>2, NothingSent DEF KexKept
      <3> QED
        BY <3>1, <3>3
    <2> QED
      BY <2>1, <2>2
  <1> QED
    BY <1>3, <1>4, <1>5, <1>6, <1>8, <1>9, SaidStays

LEMMA CancelStep ==
    ASSUME IInv, HostCancel \/ AuthCancel
    PROVE  IInv'
  <1>1. Client(Leaving(c, "user")) /\ toClient' = toClient /\ srv' = srv
    BY DEF HostCancel, AuthCancel, Dialog
  <1> QED
    BY <1>1, UserLeaves

\* The user accepts the host's key: NEWKEYS goes out.
LEMMA HostContinueStep ==
    ASSUME IInv, HostContinue
    PROVE  IInv'
  <1> DEFINE s == [c EXCEPT !.hostDlg = "none"]
  <1> DEFINE t == NotifyHostOK(s)
  <1>0. /\ \A p \in Packets(toServer) : KexAsked(p) /\ UserAsked(p)
        /\ \A p \in Packets(toClient) : KexTold(p) /\ UserTold(p) /\ p.t \in Types
        /\ Standing /\ Progress /\ (c.link = "up" => c.why = "none")
        /\ c \in ClientState /\ c.out = <<>> /\ c.kex \in Stages /\ srv \in ServerState
    BY OnTheWay
  <1>1. s \in ClientState /\ s.out = <<>>
    BY <1>0 DEF ClientState, Shown
  <1>2. Client(t) /\ toClient' = toClient /\ srv' = srv /\ c.hostDlg = "open"
    BY DEF HostContinue, Dialog
  <1>3. KexKept(c, s)
    BY <1>0 DEF ClientState, KexKept
  <1>4. UserKept(c, s)
    BY <1>0 DEF ClientState, UserKept
  <1>5. /\ s.enabled = c.enabled /\ s.handles60 = c.handles60 /\ s.payload = c.payload
        /\ s.hostDlg = "none" /\ s.authDlg = c.authDlg /\ s.why = c.why /\ s.link = c.link
    BY <1>0 DEF ClientState
  <1>6. t = NotifyHostOK(s)
    OBVIOUS
  <1> HIDE DEF s, t
  <1>7. CASE s.hostOK
    <2>1. t = s
      BY <1>6, <1>7 DEF NotifyHostOK
    <2>2. Steps(s, <<>>)
      BY <1>1, <1>2, <2>1, DialogSteps
    <2> QED
      BY <1>3, <1>4, <1>5, <2>2, SaidNothing
  <1>8. CASE ~s.hostOK
    <2>1. ~c.hostOK /\ c.kex \in {{}, {"received"}} /\ s.kex = c.kex /\ s.outKeys = c.outKeys /\ s.derived = c.derived
          /\ ~c.success /\ ~c.nameOK
      <3>1. ~c.hostOK /\ s.kex = c.kex /\ s.outKeys = c.outKeys /\ s.derived = c.derived
        BY <1>3, <1>8 DEF KexKept
      <3>2. c.kex \in {{}, {"received"}}
        BY <1>0, <3>1 DEF Standing
      <3>3. ~c.nameOK
        BY <1>0, <3>2 DEF Standing
      <3> QED
        BY <1>0, <3>1, <3>2, <3>3 DEF Standing
    <2>2. t \in ClientState /\ TurnsOut(s, t) /\ t.out = s.out \o <<Own(s, "NEWKEYS", "", 0)>>
      BY <1>1, <1>6, <1>8, <2>1, NotifyHostOKDoes
    <2>3. Own(s, "NEWKEYS", "", 0) = Own(c, "NEWKEYS", "", 0) /\ Own(c, "NEWKEYS", "", 0) \in Said
      <3>1. "NEWKEYS" \in ClientTypes /\ "" \in Whats /\ 0 \in Prompts \cup {0}
        BY DEF ClientTypes, Whats
      <3>2. Own(c, "NEWKEYS", "", 0) \in Said
        BY <1>0, <3>1, OwnSaid
      <3> QED
        BY <2>1, <3>2 DEF Own
    <2>4. Speaks(c, t.out, "NEWKEYS", "", 0)
      <3>1. <<>> \o <<Own(c, "NEWKEYS", "", 0)>> = <<Own(c, "NEWKEYS", "", 0)>>
        BY <2>3, OneOf
      <3> QED
        BY <1>1, <2>2, <2>3, <3>1 DEF Speaks
    <2>5. Steps(t, t.out)
      BY <1>2, <2>2, DialogSteps
    <2> DEFINE e == t.out
    <2>6. TurnsOut(s, t) /\ Speaks(c, e, "NEWKEYS", "", 0) /\ Steps(t, e)
      BY <2>2, <2>4, <2>5
    <2> HIDE DEF e
    <2>7. c' \in ClientState /\ c'.out = <<>> /\ Says(e)
      BY <2>6 DEF Steps
    <2>8. /\ t.kex = c'.kex /\ t.kind = c'.kind /\ t.derived = c'.derived /\ t.inKeys = c'.inKeys
          /\ t.outKeys = c'.outKeys /\ t.hostOK = c'.hostOK /\ t.nameOK = c'.nameOK /\ t.success = c'.success
          /\ t.listFirst = c'.listFirst /\ t.listAsked = c'.listAsked /\ t.method = c'.method
          /\ t.tryed = c'.tryed /\ t.retried = c'.retried /\ t.tis = c'.tis
          /\ t.link = c'.link /\ t.why = c'.why /\ t.hostDlg = c'.hostDlg /\ t.authDlg = c'.authDlg
          /\ t.handles60 = c'.handles60 /\ t.enabled = c'.enabled
      BY <2>6, StepsKeep
    <2>9. /\ c'.tryed = c.tryed /\ c'.retried = c.retried /\ c'.tis = c.tis
          /\ c'.handles60 = c.handles60 /\ c'.success = c.success
          /\ c'.link = c.link /\ c'.why = c.why /\ c'.kind = c.kind /\ c'.derived = c.derived
          /\ c'.inKeys = c.inKeys /\ c'.hostDlg = "none" /\ c'.enabled = c.enabled
          /\ c'.hostOK /\ c'.outKeys = c.derived
      BY <1>3, <1>4, <1>5, <2>6, <2>8 DEF TurnsOut, LoginKept, LinkKept, KexKept, UserKept
    <2>10. ~c.tryed /\ c.authDlg = "none" /\ c.handles60 /\ ~c.tis /\ ~(c.retried > 0)
      <3>1. {"done"} \notin {{}, {"received"}}
        OBVIOUS
      <3> QED
        BY <1>0, <2>1, <3>1 DEF Progress
    <2>11. \/ /\ c.kex = {} /\ c'.kex = {"sent"} /\ ~c'.nameOK /\ c'.authDlg = "none"
           \/ /\ c.kex = {"received"} /\ c'.kex = {"done"} /\ c'.nameOK /\ c'.authDlg = "posted" /\ c'.method = "none"
      <3>1. s.nameOK = c.nameOK /\ s.authDlg = c.authDlg
        BY <1>3, <1>5 DEF KexKept
      <3>2. CASE c.kex = {}
        BY ZenonT(40), <2>1, <2>6, <2>8, <2>10, <3>1, <3>2 DEF TurnsOut
      <3>3. CASE c.kex = {"received"}
        <4>1. {"received"} # {}
          OBVIOUS
        <4> QED
          BY <2>1, <2>6, <2>8, <2>10, <3>1, <3>3, <4>1 DEF TurnsOut, Advances
      <3> QED
        BY <2>1, <3>2, <3>3
    <2>12. (c.why = "none" => c.derived = 1) /\ srv.out # 0 /\ (c.kex = {"received"} => c.derived > 0)
      BY <1>0, <1>2, <2>1 DEF Standing
    <2>13. Utters(e, "NEWKEYS", "", 0)
      <3>1. "NEWKEYS" \in ClientTypes /\ "" \in Whats /\ 0 \in Prompts \cup {0}
        BY DEF ClientTypes, Whats
      <3> QED
        BY <1>0, <2>1, <2>6, <2>9, <2>12, <3>1, OneSaid
    <2>14. Standing'
      <3>1. c'.kex \notin {{}, {"received"}, {"rekeying"}, {"rekeying", "received"}}
        BY <2>11
      <3>2. c'.nameOK <=> c'.kex \notin {{}, {"sent"}, {"received"}}
        BY <2>11
      <3>3. c'.nameOK => c'.outKeys > 0
        BY <2>9, <2>11, <2>12
      <3>4. "NEWKEYS" \in c'.enabled => c'.derived > 0
        BY <1>0, <2>9 DEF Standing
      <3> QED
        BY <1>2, <2>1, <2>9, <2>12, <3>1, <3>2, <3>3, <3>4 DEF Standing
    <2>15. Progress'
      BY <1>0, <1>2, <2>1, <2>9, <2>10, <2>11 DEF Progress
    <2>16. ASSUME NEW p \in Packets(toServer) PROVE KexAsked(p)' /\ UserAsked(p)'
      <3>1. {"rekeying"} \notin {{}, {"received"}} /\ {"done"} \notin {{}, {"received"}}
        OBVIOUS
      <3>2. ~Pending /\ ~InAuth
        BY <1>2, <2>1, <3>1 DEF Pending, InAuth
      <3>3. p.t \notin Questions /\ KexAsked(p) /\ UserAsked(p)
        BY <1>0, <2>16, <3>2 DEF KexAsked, UserAsked, Questions
      <3> QED
        BY <2>9, <3>3, NoQuestion
    <2>17. ASSUME NEW p \in Packets(toClient) PROVE KexTold(p)' /\ UserTold(p)'
      <3>1. {"rekeying"} \notin {{}, {"received"}} /\ {"done"} \notin {{}, {"received"}}
            /\ {"received"} \notin {{}, {"sent"}, {"rekeying"}}
        OBVIOUS
      <3>2. ~Pending /\ ~InAuth
        BY <1>2, <2>1, <3>1 DEF Pending, InAuth
      <3>3. KexTold(p) /\ UserTold(p) /\ p.t \in Types
        BY <1>0, <2>17
      <3>4. p.t \notin {"31", "33", "KEXINIT", "DATA"} /\ p.t \notin UserAnswers
        BY <2>1, <3>1, <3>2, <3>3 DEF KexTold, UserTold
      <3>5. CASE p.t = "NEWKEYS"
        <4>1. HasReply' <=> HasReply
          BY <1>2 DEF HasReply
        <4>2. c'.kex = {"sent"}
          BY <2>1, <2>11, <3>1, <3>3, <3>5 DEF KexTold
        <4> QED
          BY <2>9, <3>3, <3>5, <4>1, <4>2 DEF KexTold, UserTold, UserAnswers, Auth
      <3>6. CASE p.t = "EXT_INFO"
        BY <2>9, <3>3, <3>6 DEF KexTold, UserTold, UserAnswers, Auth
      <3>7. CASE p.t \in Always
        BY <3>7, AlwaysTold
      <3> QED
        BY <3>3, <3>4, <3>5, <3>6, <3>7 DEF Types, Always, Transfer, UserAnswers
    <2>18. \A p \in Packets(e) : KexAsked(p)' /\ UserAsked(p)'
      BY <2>13 DEF Utters, KexAsked, UserAsked, KexAsks, UserAsks
    <2>19. ~In(e, Questions) /\ e \in Seq(Said) /\ Single(e) /\ Written(e)
      BY <2>13 DEF Utters, Questions, KexAsks, UserAsks
    <2>20. c'.kex \in Stages
      BY <2>11 DEF Stages
    <2>21. c.enabled \subseteq c'.enabled /\ c'.success = c.success
           /\ (c'.why = "none" => c.why = "none" /\ c'.inKeys = c.inKeys /\ c'.derived = c.derived)
      BY <2>9
    <2> QED
      BY <1>2, <2>7, <2>14, <2>15, <2>16, <2>17, <2>18, <2>19, <2>20, <2>21, SaidStep
  <1> QED
    BY <1>7, <1>8

\* While the user looks at the dialog for a login, and the list of methods is not
\* being asked for, nothing is on its way but what is always handled.
LEMMA Resting ==
    ASSUME IInv, AtRest, c.authDlg # "none", ~Listing
    PROVE  Quiet /\ (\A p \in Packets(toServer) : p.t \notin Questions) /\ ~srv.auth
           /\ c.kex = {"done"} /\ ~c.success /\ c.handles60 /\ c.nameOK /\ c.outKeys > 0
  <1>0. /\ \A p \in Packets(toServer) : KexAsked(p) /\ UserAsked(p)
        /\ \A p \in Packets(toClient) : KexTold(p) /\ UserTold(p) /\ p.t \in Types
        /\ Standing /\ Progress /\ c \in ClientState /\ c.kex \in Stages /\ toClient \in Seq(Told)
    BY OnTheWay
  <1>1. c.kex = {"done"} /\ ~c.success /\ c.handles60
    BY <1>0 DEF Progress
  <1>2. c.nameOK /\ c.outKeys > 0
    <2>1. c.nameOK
      BY <1>0, <1>1 DEF Standing
    <2> QED
      BY <1>0, <2>1 DEF Standing
  <1>3. {"done"} # {} /\ {"done"} \notin {{}, {"sent"}, {"rekeying"}} /\ {"done"} # {"rekeying"}
    OBVIOUS
  <1>4. ~Pending /\ ~InAuth
    BY <1>1, <1>3 DEF Pending, InAuth
  <1>5. \A p \in Packets(toServer) : p.t \notin Questions
    BY <1>0, <1>4 DEF KexAsked, UserAsked, Questions
  <1>6. ~srv.auth
    <2>1. srv.auth => c.success \/ In(toClient, {"SUCCESS"})
      BY DEF IInv, LoggingIn
    <2>2. ~In(toClient, {"SUCCESS"})
      BY <1>0, <1>4 DEF UserTold, UserAnswers, Auth, In
    <2> QED
      BY <1>1, <2>1, <2>2
  <1>7. \A p \in Packets(toClient) : p.t \notin {"31", "33", "KEXINIT", "NEWKEYS", "DATA"} /\ p.t \notin UserAnswers
    BY <1>0, <1>1, <1>3, <1>4, <1>6 DEF KexTold, UserTold
  <1>8. \A i \in DOMAIN toClient : toClient[i].t # "EXT_INFO"
    <2>1. SUFFICES ASSUME NEW i \in DOMAIN toClient, toClient[i].t = "EXT_INFO" PROVE FALSE
      OBVIOUS
    <2>2. toClient[i].joined /\ (i > 1 => toClient[i - 1].t = "NEWKEYS")
      BY <2>1 DEF IInv, Turns
    <2>3. i \in Nat \ {0} /\ i <= Len(toClient) /\ (i > 1 => i - 1 \in DOMAIN toClient) /\ toClient # <<>>
      BY <1>0, <2>1
    <2>4. CASE i > 1
      <3>1. toClient[i - 1] \in Packets(toClient)
        BY <2>3, <2>4 DEF Packets
      <3> QED
        BY <1>7, <2>2, <2>4, <3>1
    <2>5. CASE i = 1
      <3>1. Head(toClient) = toClient[1]
        BY <1>0, <2>3
      <3> QED
        BY <2>2, <2>3, <2>5, <3>1 DEF AtRest
    <2> QED
      BY <2>3, <2>4, <2>5
  <1>9. Quiet
    BY <1>0, <1>7, <1>8 DEF Quiet, Packets, Types, Always, Transfer, UserAnswers
  <1> QED
    BY <1>1, <1>2, <1>5, <1>6, <1>9

\* The user's dialog asks something of the server, or nothing.
LEMMA SaidAsk ==
    ASSUME IInv, AtRest, c.authDlg # "none", ~Listing, toClient' = toClient, srv' = srv,
           NEW e \in Seq(Said), Says(e), c' \in ClientState, c'.out = <<>>,
           KexKept(c, c'), LinkKept(c, c'), c'.hostDlg = c.hostDlg,
           "NEWKEYS" \in c'.enabled => "NEWKEYS" \in c.enabled, Progress',
           Single(e), Written(e), \A p \in Packets(e) : p.t \in UserAsks /\ UserAsked(p)'
    PROVE  IInv'
  <1>0. /\ \A p \in Packets(toServer) : KexAsked(p) /\ UserAsked(p)
        /\ Standing /\ c.kex \in Stages
    BY OnTheWay
  <1>1. /\ c'.kex = c.kex /\ c'.derived = c.derived /\ c'.inKeys = c.inKeys /\ c'.outKeys = c.outKeys
        /\ c'.hostOK = c.hostOK /\ c'.nameOK = c.nameOK /\ c'.success = c.success /\ c'.why = c.why
    BY DEF KexKept, LinkKept
  <1>2. Quiet /\ \A p \in Packets(toServer) : p.t \notin Questions
    BY Resting
  <1>3. ~In(toServer, Questions)
    BY <1>2 DEF In
  <1>4. Standing'
    BY <1>0, <1>1 DEF Standing
  <1>5. \A p \in Packets(toServer) : KexAsked(p)' /\ UserAsked(p)'
    BY <1>0, <1>1, <1>2, NoQuestion
  <1>6. \A p \in Packets(e) : KexAsked(p)' /\ UserAsked(p)'
    BY DEF KexAsked, KexAsks, UserAsks
  <1>7. \A p \in Packets(toClient) : KexTold(p)' /\ UserTold(p)'
    BY <1>2, AlwaysTold DEF Quiet
  <1> QED
    BY <1>0, <1>1, <1>2, <1>3, <1>4, <1>5, <1>6, <1>7, SaidStep

\* The list of methods is asked for.
LEMMA AskListStep ==
    ASSUME IInv, AskList
    PROVE  IInv'
  <1> DEFINE s == [c EXCEPT !.listAsked = TRUE]
  <1> DEFINE t == Userauth(s)
  <1>0. c \in ClientState /\ c.out = <<>> /\ Standing /\ Progress /\ (c.link = "up" => c.why = "none")
    BY OnTheWay
  <1>1. s \in ClientState /\ s.out = <<>>
    BY <1>0 DEF ClientState
  <1>2. /\ Client(t) /\ toClient' = toClient /\ srv' = srv
        /\ c.authDlg = "open" /\ ~c.tis /\ c.listFirst /\ ~c.tryed /\ ~c.listAsked /\ AtRest
    BY DEF AskList, Dialog
  <1>3. KexKept(c, s)
    BY <1>0 DEF ClientState, KexKept
  <1>4. /\ s.listFirst = c.listFirst /\ s.listAsked /\ s.method = c.method /\ s.tryed = c.tryed /\ s.retried = c.retried
        /\ s.tis = c.tis /\ s.handles60 = c.handles60
    BY <1>0 DEF ClientState
  <1>5. s.hostDlg = c.hostDlg /\ s.authDlg = c.authDlg /\ s.why = c.why /\ s.link = c.link
    BY <1>0 DEF ClientState
  <1>6. t = Userauth(s)
    OBVIOUS
  <1> HIDE DEF s, t
  <1>7. t \in ClientState /\ Kept(s, t) /\ Speaks(s, t.out, "SERVICE_REQUEST", "", 0)
        /\ t.enabled = Always \cup {"SERVICE_ACCEPT"}
    <2>1. s \in Ready
      BY <1>1 DEF Ready
    <2>2. ~s.tryed /\ ~(s.retried > 0)
      BY <1>0, <1>2, <1>4 DEF Progress
    <2> QED
      BY <1>6, <2>1, <2>2, UserauthDoes DEF Speaks
  <1>8. Speaks(c, t.out, "SERVICE_REQUEST", "", 0)
    BY <1>3, <1>7 DEF Speaks, Own, KexKept
  <1>9. Steps(t, t.out)
    BY <1>2, <1>7, DialogSteps
  <1> DEFINE e == t.out
  <1>10. Speaks(c, e, "SERVICE_REQUEST", "", 0) /\ Steps(t, e)
    BY <1>8, <1>9
  <1> HIDE DEF e
  <1>11. c' \in ClientState /\ c'.out = <<>> /\ Says(e)
    BY <1>10 DEF Steps
  <1>12. Alike(t, c')
    BY <1>10 DEF Steps
  <1>13. KexKept(c, c')
    BY <1>3, <1>7, <1>12 DEF KexKept, Alike, Kept
  <1>14. /\ c'.listFirst = c.listFirst /\ c'.listAsked /\ c'.method = c.method /\ c'.tryed = c.tryed
         /\ c'.retried = c.retried /\ c'.tis = c.tis
    BY <1>4, <1>7, <1>12 DEF Alike, Kept, UserKept
  <1>15. /\ c'.hostDlg = c.hostDlg /\ c'.authDlg = c.authDlg /\ c'.why = c.why /\ c'.link = c.link
         /\ c'.handles60 = c.handles60
    BY <1>4, <1>5, <1>7, <1>12 DEF Alike, Kept, LinkKept, DlgKept
  <1>16. c'.enabled = Always \cup {"SERVICE_ACCEPT"} /\ LinkKept(c, c')
    BY <1>7, <1>12, <1>15 DEF Alike, LinkKept
  <1>17. ~Listing
    BY <1>2 DEF Listing
  <1>18. ~srv.auth /\ c.kex = {"done"} /\ ~c.success /\ c.handles60 /\ c.nameOK /\ c.outKeys > 0
    BY <1>2, <1>17, Resting
  <1>19. c'.kex = c.kex /\ c'.outKeys = c.outKeys /\ c'.hostOK = c.hostOK /\ c'.nameOK = c.nameOK /\ c'.success = c.success
    BY <1>13 DEF KexKept
  <1>20. Utters(e, "SERVICE_REQUEST", "", 0)
    <2>1. "SERVICE_REQUEST" \in ClientTypes \ {"NEWKEYS", "DISCONNECT"} /\ "" \in Whats /\ 0 \in Prompts \cup {0}
      BY DEF ClientTypes, Whats
    <2> QED
      BY <1>0, <1>10, <1>15, <1>19, <2>1, PlainSaid
  <1>21. InAuth'
    BY <1>2, <1>14, <1>15, <1>18, <1>19 DEF InAuth, Listing
  <1>22. Progress'
    BY <1>0, <1>2, <1>14, <1>15, <1>18, <1>19 DEF Progress
  <1>23. \A p \in Packets(e) : p.t \in UserAsks /\ UserAsked(p)'
    BY <1>2, <1>14, <1>16, <1>18, <1>20, <1>21 DEF Utters, UserAsked, UserAsks
  <1>24. "NEWKEYS" \notin c'.enabled
    BY <1>16 DEF Always
  <1> QED
    BY <1>2, <1>11, <1>13, <1>15, <1>16, <1>17, <1>20, <1>22, <1>23, <1>24, SaidAsk DEF Utters

\* What an answer of the user in the dialog for a login is: s is what the dialog
\* leaves, t what the request made of it does.
Answers60(s, t, e, what) ==
    /\ KexKept(c, s) /\ LinkKept(c, s) /\ s.hostDlg = c.hostDlg /\ s.authDlg = "none"
    /\ s.listFirst = c.listFirst /\ s.listAsked = c.listAsked
    /\ s.tryed = c.tryed /\ s.retried = c.retried /\ s.tis = c.tis /\ s.handles60 = c.handles60
    /\ s.enabled = c.enabled /\ s.payload = c.payload /\ what = s.method
    /\ Steps(t, e)

\* The dialog is closed, and a request goes out.
LEMMA AnswerGiven ==
    ASSUME IInv, AtRest, c.authDlg # "none", ~Listing, NEW s, NEW t, NEW e, NEW what, Answers60(s, t, e, what),
           Kept(s, t), "NEWKEYS" \in t.enabled => "NEWKEYS" \in c.enabled, c.enabled \subseteq t.enabled \/ ~c.tryed
    PROVE  /\ e \in Seq(Said) /\ Says(e) /\ c' \in ClientState /\ c'.out = <<>> /\ toClient' = toClient /\ srv' = srv
           /\ KexKept(c, c') /\ LinkKept(c, c') /\ c'.hostDlg = c.hostDlg /\ c'.enabled = t.enabled
           /\ c'.authDlg = "none" /\ c'.tryed = c.tryed /\ c'.method = what
           /\ c'.outKeys = c.outKeys /\ c'.hostOK = c.hostOK /\ c'.why = c.why /\ (c'.link = "up" => c'.why = "none")
           /\ Progress' /\ InAuth' /\ ~srv.auth /\ c.outKeys > 0
  <1>0. Standing /\ Progress /\ (c.link = "up" => c.why = "none") /\ c \in ClientState
    BY OnTheWay
  <1>1. /\ Alike(t, c') /\ c' \in ClientState /\ c'.out = <<>> /\ Says(e) /\ toClient' = toClient /\ srv' = srv
    BY DEF Answers60, Steps
  <1>2. e \in Seq(Said)
    BY DEF Answers60, Steps, ClientState
  <1>3. KexKept(c, c')
    BY <1>1 DEF Answers60, KexKept, Alike, Kept
  <1>4. /\ c'.listFirst = c.listFirst /\ c'.listAsked = c.listAsked /\ c'.method = what /\ c'.tryed = c.tryed
        /\ c'.retried = c.retried /\ c'.tis = c.tis
    BY <1>1 DEF Answers60, Alike, Kept, UserKept
  <1>5. /\ c'.hostDlg = c.hostDlg /\ c'.authDlg = "none" /\ c'.why = c.why /\ c'.link = c.link
        /\ c'.handles60 = c.handles60 /\ c'.enabled = t.enabled
    BY <1>1 DEF Answers60, Alike, Kept, LinkKept, DlgKept
  <1>6. LinkKept(c, c')
    BY <1>5 DEF LinkKept
  <1>7. ~srv.auth /\ c.kex = {"done"} /\ ~c.success /\ c.handles60 /\ c.nameOK /\ c.outKeys > 0
    BY Resting
  <1>8. c'.kex = c.kex /\ c'.outKeys = c.outKeys /\ c'.hostOK = c.hostOK /\ c'.nameOK = c.nameOK /\ c'.success = c.success
    BY <1>3 DEF KexKept
  <1>9. Progress'
    <2>1. c.tis => c.tryed
      BY <1>0 DEF Progress
    <2> QED
      BY <1>0, <1>1, <1>4, <1>5, <1>7, <1>8, <2>1 DEF Progress
  <1>10. InAuth'
    BY <1>5, <1>7, <1>8 DEF InAuth
  <1> QED
    BY <1>0, <1>1, <1>2, <1>3, <1>4, <1>5, <1>6, <1>7, <1>8, <1>9, <1>10

\* end_auth_dlg
LEMMA AuthOKStep ==
    ASSUME IInv, AuthOK
    PROVE  IInv'
  <1>1. PICK w \in Methods :
          Dialog(Userauth([c EXCEPT !.authDlg = "none", !.method = w,
                            !.keyAt = IF w = "pageant" THEN 0 ELSE @,
                            !.keyFinal = IF w = "pageant" THEN FALSE ELSE @]))
    BY DEF AuthOK
  <1> DEFINE s == [c EXCEPT !.authDlg = "none", !.method = w,
                            !.keyAt = IF w = "pageant" THEN 0 ELSE @,
                            !.keyFinal = IF w = "pageant" THEN FALSE ELSE @]
  <1> DEFINE t == Userauth(s)
  <1>0. c \in ClientState /\ c.out = <<>> /\ Standing /\ Progress
    BY OnTheWay
  <1>2. s \in ClientState /\ s.out = <<>>
    <2> DEFINE k == IF w = "pageant" THEN 0 ELSE c.keyAt
    <2> DEFINE f == IF w = "pageant" THEN FALSE ELSE c.keyFinal
    <2>1. k \in Nat /\ f \in BOOLEAN
      BY <1>0 DEF ClientState
    <2>2. s = [c EXCEPT !.authDlg = "none", !.method = w, !.keyAt = k, !.keyFinal = f]
      BY <1>0 DEF ClientState
    <2> HIDE DEF k, f, s
    <2>3. s \in ClientState
      BY ZenonT(40), <1>0, <2>1, <2>2 DEF ClientState, Shown
    <2>4. s.out = <<>>
      BY <1>0, <2>2 DEF ClientState
    <2> QED
      BY <2>3, <2>4
  <1>3. /\ Client(t) /\ toClient' = toClient /\ srv' = srv
        /\ c.authDlg = "open" /\ ~c.tis /\ (c.listFirst => c.tryed) /\ AtRest
    BY <1>1 DEF AuthOK, Dialog
  <1>4. KexKept(c, s)
    BY <1>0 DEF ClientState, KexKept
  <1>5. /\ s.listFirst = c.listFirst /\ s.listAsked = c.listAsked /\ s.tryed = c.tryed /\ s.retried = c.retried
        /\ s.tis = c.tis /\ s.handles60 = c.handles60 /\ s.enabled = c.enabled
    BY <1>0 DEF ClientState
  <1>6. s.hostDlg = c.hostDlg /\ s.authDlg = "none" /\ s.payload = c.payload /\ LinkKept(c, s)
    BY <1>0 DEF ClientState, LinkKept
  <1>7. t = Userauth(s) /\ s \in Ready
    BY <1>2 DEF Ready
  <1> HIDE DEF s, t
  <1>8. t \in ClientState /\ Kept(s, t)
        /\ IF s.tryed THEN AuthSent(s, t, t.out)
           ELSE ~(s.retried > 0) => Speaks(s, t.out, "SERVICE_REQUEST", "", 0) /\ t.enabled = Always \cup {"SERVICE_ACCEPT"}
    BY <1>7, UserauthDoes DEF Speaks
  <1>9. Steps(t, t.out)
    BY <1>3, <1>8, DialogSteps
  <1>10. ~Listing
    BY <1>3 DEF Listing
  <1> DEFINE e == t.out
  <1>11. /\ Steps(t, e)
         /\ IF s.tryed THEN AuthSent(s, t, e)
            ELSE ~(s.retried > 0) => Speaks(s, e, "SERVICE_REQUEST", "", 0) /\ t.enabled = Always \cup {"SERVICE_ACCEPT"}
    BY <1>8, <1>9
  <1> HIDE DEF e
  <1>12. Answers60(s, t, e, s.method)
    BY <1>4, <1>5, <1>6, <1>11 DEF Answers60
  <1>13. CASE ~c.tryed
    <2>1. Speaks(s, e, "SERVICE_REQUEST", "", 0) /\ t.enabled = Always \cup {"SERVICE_ACCEPT"}
      BY <1>0, <1>5, <1>11, <1>13 DEF Progress
    <2>2. Speaks(c, e, "SERVICE_REQUEST", "", 0)
      BY <1>4, <2>1 DEF Speaks, Own, KexKept
    <2>3. "NEWKEYS" \notin t.enabled
      BY <2>1 DEF Always
    <2>4. /\ e \in Seq(Said) /\ Says(e) /\ c' \in ClientState /\ c'.out = <<>>
          /\ KexKept(c, c') /\ LinkKept(c, c') /\ c'.hostDlg = c.hostDlg /\ c'.enabled = t.enabled
          /\ c'.authDlg = "none" /\ c'.tryed = c.tryed
          /\ c'.outKeys = c.outKeys /\ c'.hostOK = c.hostOK /\ c'.why = c.why /\ (c'.link = "up" => c'.why = "none")
          /\ Progress' /\ InAuth' /\ ~srv.auth /\ c.outKeys > 0
      BY <1>3, <1>8, <1>10, <1>12, <1>13, <2>3, AnswerGiven
    <2>5. Utters(e, "SERVICE_REQUEST", "", 0)
      <3>1. "SERVICE_REQUEST" \in ClientTypes \ {"NEWKEYS", "DISCONNECT"} /\ "" \in Whats /\ 0 \in Prompts \cup {0}
        BY DEF ClientTypes, Whats
      <3> QED
        BY <1>0, <2>2, <2>4, <3>1, PlainSaid
    <2>6. \A p \in Packets(e) : p.t \in UserAsks /\ UserAsked(p)'
      BY <1>3, <1>13, <2>1, <2>4, <2>5 DEF Utters, UserAsked, UserAsks
    <2> QED
      BY <1>3, <1>10, <2>3, <2>4, <2>5, <2>6, SaidAsk DEF Utters
  <1>14. CASE c.tryed
    <2>1. AuthSent(s, t, e)
      BY <1>5, <1>11, <1>14
    <2>2. c.enabled \subseteq t.enabled /\ t.enabled \subseteq c.enabled \cup {"60"}
      BY <1>5, <2>1 DEF AuthSent
    <2>3. /\ e \in Seq(Said) /\ Says(e) /\ c' \in ClientState /\ c'.out = <<>>
          /\ KexKept(c, c') /\ LinkKept(c, c') /\ c'.hostDlg = c.hostDlg /\ c'.enabled = t.enabled
          /\ c'.authDlg = "none" /\ c'.tryed = c.tryed /\ c'.method = s.method
          /\ c'.outKeys = c.outKeys /\ c'.hostOK = c.hostOK /\ c'.why = c.why /\ (c'.link = "up" => c'.why = "none")
          /\ Progress' /\ InAuth' /\ ~srv.auth /\ c.outKeys > 0
      BY ZenonT(40), <1>3, <1>8, <1>10, <1>12, <2>2, AnswerGiven
    <2>4. AuthSent(c, c', e)
      <3>1. c.outKeys = s.outKeys /\ c.enabled = s.enabled /\ t.enabled = c'.enabled /\ t.method = c'.method
        BY <1>4, <1>5, <1>8, <2>3 DEF KexKept, Kept, UserKept
      <3>2. CASE e = <<>> /\ t.enabled = s.enabled
        BY <3>1, <3>2 DEF AuthSent
      <3>3. CASE \E v \in {"keyboard", "query"} :
                   /\ e = <<Own(s, "AUTH", v, 0)>> /\ t.enabled = s.enabled \cup {"60"}
                   /\ t.method = IF v = "query" THEN "pageant" ELSE "keyboard"
        BY <3>1, <3>3 DEF AuthSent, Own
      <3>4. CASE \E v \in {"signed", "password"} :
                   /\ e = <<Own(s, "AUTH", v, 0)>> /\ t.enabled = s.enabled
                   /\ t.method = IF v = "signed" THEN "publickey" ELSE "password"
        BY <3>1, <3>4 DEF AuthSent, Own
      <3> QED
        BY <2>1, <3>2, <3>3, <3>4 DEF AuthSent
    <2>5. Offers(e)
      BY <1>0, <2>3, <2>4, AuthSentOffers
    <2>6. Auth \subseteq c'.enabled
      <3>1. ~c.success
        BY <1>3, <1>10, Resting
      <3> QED
        BY <1>0, <1>14, <2>2, <2>3, <3>1 DEF Progress
    <2>7. ASSUME NEW p \in Packets(e) PROVE p.t \in UserAsks /\ UserAsked(p)'
      <3>1. /\ p.t = "AUTH" /\ p.keys = c.outKeys
            /\ \/ p.what = "keyboard" /\ c'.method = "keyboard" /\ "60" \in c'.enabled
               \/ p.what = "query" /\ c'.method = "pageant" /\ "60" \in c'.enabled
               \/ p.what = "signed" /\ c'.method = "publickey"
               \/ p.what = "password" /\ c'.method = "password"
        BY <2>5, <2>7 DEF Offers
      <3> QED
        BY <1>3, <1>14, <2>3, <2>6, <3>1 DEF UserAsked, UserAsks
    <2>8. "NEWKEYS" \in c'.enabled => "NEWKEYS" \in c.enabled
      BY <2>5 DEF Offers
    <2> QED
      BY <1>3, <1>10, <2>3, <2>5, <2>7, <2>8, SaidAsk DEF Offers
  <1> QED
    BY <1>13, <1>14

\* end_TIS_dlg
LEMMA TISOKStep ==
    ASSUME IInv, TISOK
    PROVE  IInv'
  <1> DEFINE s == [c EXCEPT !.authDlg = "none", !.method = "keyboard", !.typed = TRUE]
  <1> DEFINE t == InfoReq(s)
  <1>0. c \in ClientState /\ c.out = <<>> /\ Standing /\ Progress /\ (c.link = "up" => c.why = "none")
    BY OnTheWay
  <1>2. s \in ClientState /\ s.out = <<>>
    BY ZenonT(40), <1>0 DEF ClientState, Shown
  <1>3. /\ Client(t) /\ toClient' = toClient /\ srv' = srv
        /\ c.authDlg = "open" /\ c.tis /\ AtRest
    BY DEF TISOK, Dialog
  <1>4. KexKept(c, s)
    BY <1>0 DEF ClientState, KexKept
  <1>5. /\ s.listFirst = c.listFirst /\ s.listAsked = c.listAsked /\ s.tryed = c.tryed /\ s.retried = c.retried
        /\ s.tis = c.tis /\ s.handles60 = c.handles60 /\ s.enabled = c.enabled /\ s.method = "keyboard"
    BY <1>0 DEF ClientState
  <1>6. s.hostDlg = c.hostDlg /\ s.authDlg = "none" /\ s.payload = c.payload /\ LinkKept(c, s)
    BY <1>0 DEF ClientState, LinkKept
  <1>7. t = InfoReq(s) /\ s \in Ready
    BY <1>2 DEF Ready
  <1> HIDE DEF s, t
  <1>8. t \in ClientState /\ (Responds(s, t, t.out) \/ ShowsPrompts(s, t, t.out))
    BY <1>7, InfoReqDoes
  <1>9. Steps(t, t.out)
    BY <1>3, <1>8, DialogSteps
  <1>10. ~Listing
    BY <1>3 DEF Listing
  <1>11. c.tryed /\ "60" \in c.enabled /\ Fits(c.payload.n) /\ Auth \subseteq c.enabled
    <2>1. ~c.success
      BY <1>3, <1>10, Resting
    <2> QED
      BY <1>0, <1>3, <2>1 DEF Progress
  <1>12. CASE Responds(s, t, t.out)
    <2> DEFINE e == t.out
    <2>1. Kept(s, t) /\ t.enabled = s.enabled /\ Speaks(s, e, "INFO_RESPONSE", "", c.payload.n) /\ Steps(t, e)
      BY <1>6, <1>9, <1>12 DEF Responds, Speaks
    <2> HIDE DEF e
    <2>2. Speaks(c, e, "INFO_RESPONSE", "", c.payload.n)
      BY <1>4, <2>1 DEF Speaks, Own, KexKept
    <2>3. Answers60(s, t, e, "keyboard")
      BY <1>4, <1>5, <1>6, <2>1 DEF Answers60
    <2>4. /\ e \in Seq(Said) /\ Says(e) /\ c' \in ClientState /\ c'.out = <<>>
          /\ KexKept(c, c') /\ LinkKept(c, c') /\ c'.hostDlg = c.hostDlg /\ c'.enabled = t.enabled
          /\ c'.authDlg = "none" /\ c'.tryed = c.tryed /\ c'.method = "keyboard"
          /\ c'.outKeys = c.outKeys /\ c'.hostOK = c.hostOK /\ c'.why = c.why /\ (c'.link = "up" => c'.why = "none")
          /\ Progress' /\ InAuth' /\ ~srv.auth /\ c.outKeys > 0
      BY ZenonT(40), <1>3, <1>5, <1>10, <2>1, <2>3, AnswerGiven
    <2>5. Utters(e, "INFO_RESPONSE", "", c.payload.n)
      <3>1. "INFO_RESPONSE" \in ClientTypes \ {"NEWKEYS", "DISCONNECT"} /\ "" \in Whats
        BY DEF ClientTypes, Whats
      <3>2. c.payload.n \in Prompts \cup {0}
        <4>1. c.payload \in Told
          BY <1>0 DEF ClientState
        <4> QED
          BY <4>1 DEF Told
      <3> QED
        BY <1>0, <2>2, <2>4, <3>1, <3>2, PlainSaid
    <2>6. \A p \in Packets(e) : p.t \in UserAsks /\ UserAsked(p)'
      BY <1>3, <1>5, <1>11, <2>1, <2>4, <2>5 DEF Utters, UserAsked, UserAsks, Fits
    <2> QED
      BY <1>3, <1>5, <1>10, <2>1, <2>4, <2>5, <2>6, SaidAsk DEF Utters
  <1>13. CASE ShowsPrompts(s, t, t.out)
    <2>1. Steps(t, <<>>) /\ t.payload = s.payload
      BY <1>9, <1>13 DEF ShowsPrompts
    <2>2. /\ Alike(t, c') /\ c'.payload = c.payload /\ c' \in ClientState /\ c'.out = <<>> /\ Says(<<>>)
      BY <1>6, <2>1 DEF Steps
    <2>3. KexKept(c, c')
      BY <1>4, <1>13, <2>2 DEF ShowsPrompts, RestKept, KexKept, Alike, Kept
    <2>4. /\ c'.tryed = c.tryed /\ c'.retried = c.retried /\ c'.tis /\ c'.method = "none" /\ c'.authDlg = "posted"
          /\ c'.handles60 = c.handles60 /\ c'.enabled = c.enabled
      BY <1>5, <1>6, <1>13, <2>2 DEF ShowsPrompts, Advances, Alike, Kept, UserKept, DlgKept
    <2>5. c'.hostDlg = c.hostDlg /\ c'.why = c.why /\ c'.link = c.link
      BY <1>6, <1>13, <2>2 DEF ShowsPrompts, RestKept, LinkKept, Alike, Kept, DlgKept
    <2>6. c'.kex = c.kex /\ c'.outKeys = c.outKeys /\ c'.hostOK = c.hostOK /\ c'.nameOK = c.nameOK /\ c'.success = c.success
      BY <2>3 DEF KexKept
    <2>7. ~srv.auth /\ c.kex = {"done"} /\ ~c.success /\ c.handles60 /\ c.nameOK
      BY <1>3, <1>10, Resting
    <2>8. Fits(c.payload.n)'
      BY <1>3, <1>11, <2>2 DEF Fits
    <2>9. Progress'
      BY <1>0, <1>3, <1>11, <2>4, <2>6, <2>7, <2>8 DEF Progress
    <2>10. <<>> \in Seq(Said) /\ Packets(<<>>) = {} /\ Single(<<>>) /\ Written(<<>>)
      BY <1>0, <2>5, <2>6, NothingSent
    <2>11. LinkKept(c, c')
      BY <2>5 DEF LinkKept
    <2> QED
      BY <1>3, <1>10, <2>2, <2>3, <2>4, <2>5, <2>9, <2>10, <2>11, SaidAsk
  <1> QED
    BY <1>8, <1>12, <1>13

-----------------------------------------------------------------------------
(* The server.                                                              *)

\* A step of the server: it takes a packet or none, and its packets e go out.
Acts(e) ==    /\ c' = c /\ srv' \in ServerState /\ (Serving \/ toServer' = toServer)
              /\ Replied(e) /\ ~srv.left
              /\ (srv.noisy => srv'.noisy) /\ (srv.auth => srv'.auth)

\* The keys of what the server has not read yet.
WritingKept ==
    /\ srv.left => srv'.left
    /\ \/ toServer' = toServer /\ srv'.in = srv.in
       \/ /\ Serving /\ ~srv.left
          /\ srv'.in = IF Head(toServer).t = "NEWKEYS" THEN srv.in + 1 ELSE srv.in
          /\ Head(toServer).t = "DISCONNECT" => srv'.left

LEMMA WritingAnswered ==
    ASSUME TypeOK, Writing, c' = c, srv' \in ServerState, WritingKept
    PROVE  Writing'
  <1>1. CASE toServer' = toServer /\ srv'.in = srv.in
    BY <1>1 DEF Writing, WritingKept, In, Keyed, Before
  <1>2. ASSUME Serving, ~srv.left, srv'.in = IF Head(toServer).t = "NEWKEYS" THEN srv.in + 1 ELSE srv.in,
               Head(toServer).t = "DISCONNECT" => srv'.left
        PROVE  Writing'
    <2>0. /\ toServer \in Seq(Said) /\ toServer # <<>> /\ toServer' = Tail(toServer)
          /\ srv.in \in {0, 1} /\ c.outKeys \in Nat
      BY <1>2 DEF TypeOK, Serving, ClientState, Writing
    <2>1. \A T : In(toServer, T) <=> Head(toServer).t \in T \/ In(toServer', T)
      BY <2>0, InShorter
    <2>2. /\ Head(toServer) = toServer[1] /\ 1 \in DOMAIN toServer
          /\ \A i \in DOMAIN toServer' : i \in Nat \ {0} /\ i + 1 \in DOMAIN toServer /\ toServer'[i] = toServer[i + 1]
      BY <2>0, Shorter
    <2>3. \A i, j \in DOMAIN toServer : toServer[i].t = "NEWKEYS" /\ toServer[j].t = "NEWKEYS" => i = j
      BY DEF Writing
    <2>4. \A i, j \in DOMAIN toServer' : toServer'[i].t = "NEWKEYS" /\ toServer'[j].t = "NEWKEYS" => i = j
      <3> SUFFICES ASSUME NEW i \in DOMAIN toServer', NEW j \in DOMAIN toServer',
                          toServer'[i].t = "NEWKEYS", toServer'[j].t = "NEWKEYS"
                   PROVE  i = j
        OBVIOUS
      <3>1. i + 1 = j + 1
        BY <2>2, <2>3
      <3> QED
        BY <2>2, <3>1
    <2>5. Head(toServer).t = "NEWKEYS" => ~In(toServer', {"NEWKEYS"})
      <3> SUFFICES ASSUME Head(toServer).t = "NEWKEYS", NEW i \in DOMAIN toServer', toServer'[i].t = "NEWKEYS"
                   PROVE  FALSE
        BY DEF In, Packets
      <3>1. i + 1 = 1
        BY <2>2, <2>3
      <3> QED
        BY <2>2, <3>1
    <2>6. /\ c.link = "up" => c.why = "none"
          /\ c.why = "none" => /\ ~In(toServer, {"DISCONNECT"})
                               /\ c.outKeys = IF In(toServer, {"NEWKEYS"}) THEN srv.in + 1 ELSE srv.in
          /\ c.why # "none" => srv.left \/ In(toServer, {"DISCONNECT"})
          /\ Keyed(toServer, srv.in)
          /\ In(toServer, {"NEWKEYS"}) => c.hostOK /\ srv.in = 0
          /\ ~c.hostOK => c.outKeys = 0 /\ srv.in = 0
      BY <1>2 DEF Writing
    <2>7. srv'.left \/ Keyed(toServer', srv'.in)
      <3>1. CASE Head(toServer).t = "DISCONNECT"
        BY <1>2, <3>1
      <3>2. CASE Head(toServer).t # "DISCONNECT"
        <4>1. Keyed(Tail(toServer), IF Head(toServer).t = "NEWKEYS" THEN srv.in + 1 ELSE srv.in)
          <5>1. srv.in \in Nat
            BY <2>0
          <5> QED
            BY <2>0, <2>3, <2>6, <3>2, <5>1, KeyedShorter
        <4> QED
          BY <1>2, <2>0, <4>1
      <3> QED
        BY <3>1, <3>2
    <2>8. CASE Head(toServer).t = "NEWKEYS"
      <3>1. In(toServer, {"NEWKEYS"}) /\ ~In(toServer', {"NEWKEYS"}) /\ srv'.in = 1 /\ srv.in = 0 /\ c.hostOK
        BY <1>2, <2>0, <2>1, <2>5, <2>6, <2>8
      <3>2. In(toServer, {"DISCONNECT"}) <=> In(toServer', {"DISCONNECT"})
        BY <2>1, <2>8
      <3> QED
        BY <1>2, <2>0, <2>4, <2>6, <2>7, <3>1, <3>2 DEF Writing
    <2>9. CASE Head(toServer).t # "NEWKEYS"
      <3>1. (In(toServer, {"NEWKEYS"}) <=> In(toServer', {"NEWKEYS"})) /\ srv'.in = srv.in
        BY <1>2, <2>1, <2>9
      <3>2. In(toServer', {"DISCONNECT"}) => In(toServer, {"DISCONNECT"})
        BY <2>1
      <3>3. In(toServer, {"DISCONNECT"}) => srv'.left \/ In(toServer', {"DISCONNECT"})
        BY <1>2, <2>1
      <3> QED
        BY <1>2, <2>0, <2>4, <2>6, <2>7, <3>1, <3>2, <3>3 DEF Writing
    <2> QED
      BY <2>8, <2>9
  <1> QED
    BY <1>1, <1>2 DEF WritingKept

\* What the server says of the key exchange.
LEMMA ExchangingAnswered ==
    ASSUME IInv, NEW e \in Seq(Told), Acts(e), Fitting(e), Numbered(e),
           \A p \in Packets(e) : KexTold(p)'
    PROVE  Exchanging'
  <1>0. /\ \A p \in Packets(toServer) : KexAsked(p)
        /\ \A p \in Packets(toClient) : KexTold(p)
        /\ Standing /\ TypeOK /\ srv.out \in Nat /\ srv'.out \in Nat
    BY OnTheWay DEF IInv, Acts, ServerState
  <1>1. /\ c' = c /\ Replied(e) /\ (srv.auth => srv'.auth)
    BY DEF Acts
  <1>2. Packets(toClient') = Packets(toClient) \cup Packets(e)
    BY <1>0, <1>1, Answering
  <1>3. Packets(toServer') \subseteq Packets(toServer)
    BY <1>0, Served DEF Acts
  <1>4. /\ In(toClient', {"NEWKEYS"}) <=> In(toClient, {"NEWKEYS"}) \/ In(e, {"NEWKEYS"})
        /\ HasReply' <=> HasReply \/ \E p \in Packets(e) : IsReply(p)
    BY <1>2 DEF In, HasReply
  <1>5. IF In(e, {"NEWKEYS"}) THEN Quiet /\ srv'.out = srv.out + 1 /\ \E p \in Packets(e) : IsReply(p)
        ELSE srv'.out = srv.out /\ \A p \in Packets(e) : ~IsReply(p)
    BY DEF Numbered
  <1>6. Standing'
    <2>1. srv'.out = 0 => srv.out = 0
      BY <1>0, <1>5
    <2> QED
      BY <1>0, <1>1, <2>1 DEF Standing
  <1>7. \A p \in Packets(toServer') : KexAsked(p)'
    BY <1>0, <1>1, <1>3 DEF KexAsked, Pending
  <1>8. ASSUME NEW p \in Packets(toClient) PROVE KexTold(p)'
    <2>1. p.t = "KEXINIT" => srv'.out = srv.out
      BY <1>5, <1>8 DEF Quiet, Always
    <2>2. KexTold(p)
      BY <1>0
    <2>3. HasReply => HasReply'
      BY <1>4
    <2> QED
      BY <1>1, <2>1, <2>2, <2>3 DEF KexTold, Pending
  <1>9. \A p \in Packets(toClient') : KexTold(p)'
    BY <1>2, <1>8
  <1>10. HasReply' => In(toClient', {"NEWKEYS"})
    BY <1>4, <1>5 DEF IInv, Exchanging
  <1>11. srv'.out = 0 => ~In(toClient', {"NEWKEYS"})
    BY <1>0, <1>4, <1>5 DEF IInv, Exchanging
  <1>12. toClient' # <<>> /\ Head(toClient').t = "EXT_INFO" /\ c'.why = "none" => "EXT_INFO" \in c'.enabled
    <2>1. CASE toClient = <<>>
      <3>1. toClient' = e
        BY <1>1, <2>1 DEF Replied
      <3>2. e # <<>> => 1 \in DOMAIN e /\ Head(e) = e[1]
        BY Shorter
      <3>3. \A j \in DOMAIN e : e[j].t = "EXT_INFO" => j > 1
        BY DEF Fitting
      <3> QED
        BY <3>1, <3>2, <3>3
    <2>2. CASE toClient # <<>>
      <3>1. toClient' = toClient \o e /\ toClient \in Seq(Told)
        BY <1>0, <1>1 DEF Replied, TypeOK
      <3>2. Head(toClient') = Head(toClient)
        <4>1. 1 \in DOMAIN toClient /\ Head(toClient) = toClient[1]
          BY <2>2, <3>1, Shorter
        <4>2. 1 \in DOMAIN (toClient \o e) /\ (toClient \o e)[1] = toClient[1] /\ toClient \o e \in Seq(Told)
          BY <3>1, <4>1, Grown
        <4>3. toClient \o e # <<>>
          BY <4>2
        <4>4. Head(toClient \o e) = (toClient \o e)[1]
          BY <4>2, <4>3, Shorter
        <4> QED
          BY <3>1, <4>1, <4>2, <4>4
      <3> QED
        BY <1>1, <2>2, <3>2 DEF IInv, Exchanging
    <2> QED
      BY <2>1, <2>2
  <1> QED
    BY <1>6, <1>7, <1>9, <1>10, <1>11, <1>12 DEF Exchanging

\* ... and of the login.  A question of the user's is the only one on its way.
UserServed == Serving /\ Head(toServer).t \in UserAsks

LEMMA LoggingInAnswered ==
    ASSUME IInv, NEW e \in Seq(Told), Acts(e),
           srv'.asked # srv.asked \/ srv'.auth # srv.auth => UserServed,
           srv'.auth => srv'.in = 1 /\ (srv.auth \/ In(e, {"SUCCESS"})),
           \A p \in Packets(e) : UserTold(p)',
           srv'.kex = "idle" =>
              \/ /\ srv.kex = "idle"
                 /\ \A p \in Packets(e) : p.t # "KEXINIT" /\ (c.success => p.t \in Always \cup {"DATA"})
              \/ ~c.success /\ ~In(toClient', {"KEXINIT"})
    PROVE  LoggingIn'
  <1>0. /\ \A p \in Packets(toServer) : UserAsked(p)
        /\ \A p \in Packets(toClient) : UserTold(p)
        /\ Progress /\ TypeOK /\ Turns
    BY OnTheWay DEF IInv
  <1>1. /\ c' = c /\ Replied(e) /\ (srv.auth => srv'.auth) /\ (srv.noisy => srv'.noisy) /\ ~srv.left
    BY DEF Acts
  <1>2. Packets(toClient') = Packets(toClient) \cup Packets(e)
    BY <1>0, <1>1, Answering
  <1>3. Packets(toServer') \subseteq Packets(toServer)
    BY <1>0, Served DEF Acts
  <1>4. UserServed => /\ \A p \in Packets(toServer') : p.t \notin Questions
                      /\ \A p \in Packets(toClient) : p.t \in Always
    BY <1>0, HeadAsks DEF UserServed, Questions, Quiet
  <1>5. UserServed => ~srv.auth /\ ~c.success /\ (c.authDlg = "none" \/ ~c.tis)
    <2>1. Serving => UserAsked(Head(toServer))
      BY <1>0, Served
    <2> QED
      BY <2>1 DEF UserServed, UserAsked, InAuth, Listing
  <1>6. Progress'
    <2>1. c.authDlg # "none" /\ c.tis => Fits(c.payload.n)'
      <3> SUFFICES ASSUME c.authDlg # "none", c.tis
                   PROVE  Fits(c.payload.n)'
        OBVIOUS
      <3>1. srv'.asked = srv.asked /\ Fits(c.payload.n)
        BY <1>0, <1>5 DEF Progress
      <3> QED
        BY <1>1, <3>1 DEF Fits
    <2>2. srv'.kex = "idle" /\ c.success => c.kex = {"done"} /\ c.enabled = Always \cup Transfer
      BY <1>0 DEF Progress
    <2> QED
      BY <1>0, <1>1, <2>1, <2>2 DEF Progress
  <1>7. ASSUME NEW p \in Packets(toServer') PROVE UserAsked(p)'
    <2>1. UserAsked(p)
      BY <1>0, <1>3
    <2>2. CASE p.t \in UserAsks
      <3>1. srv'.asked = srv.asked /\ srv'.auth = srv.auth
        BY <1>4, <1>7, <2>2 DEF Questions
      <3> QED
        BY <1>1, <2>1, <3>1 DEF UserAsked, InAuth, Listing, Fits
    <2>3. CASE p.t \notin UserAsks
      BY <1>1, <2>1, <2>3 DEF UserAsked, UserAsks
    <2> QED
      BY <2>2, <2>3
  <1>8. ASSUME NEW p \in Packets(toClient) PROVE UserTold(p)'
    <2>1. UserTold(p)
      BY <1>0
    <2>2. CASE UserServed
      <3>1. p.t \in Always
        BY <1>4, <1>8, <2>2
      <3> QED
        BY <3>1 DEF UserTold, UserAnswers, Auth, Always
    <2>3. CASE ~UserServed
      <3>1. srv'.asked = srv.asked /\ srv'.auth = srv.auth
        BY <2>3
      <3> QED
        BY <1>1, <2>1, <3>1 DEF UserTold, InAuth, Listing, Fits
    <2> QED
      BY <2>2, <2>3
  <1>9. srv'.auth => c'.success \/ In(toClient', {"SUCCESS"})
    BY <1>1, <1>2 DEF IInv, LoggingIn, In
  <1>10. srv'.kex = "idle" =>
         /\ ~In(toClient', {"KEXINIT"})
         /\ c'.success => \A p \in Packets(toClient') : p.t \in Always \cup {"DATA"}
    BY <1>1, <1>2 DEF IInv, LoggingIn, In
  <1> QED
    BY <1>2, <1>6, <1>7, <1>8, <1>9, <1>10 DEF LoggingIn

\* A step of the server.
LEMMA Answered ==
    ASSUME IInv, NEW e \in Seq(Told), Acts(e), Fitting(e), Numbered(e), WritingKept,
           In(toServer', Questions) => \A r \in Packets(e) : r.t \in Always,
           In(e, {"IGNORE"}) => srv'.noisy, In(e, {"DISCONNECT"}) => srv'.left,
           srv'.asked # srv.asked \/ srv'.auth # srv.auth => UserServed,
           srv'.auth => srv'.in = 1 /\ (srv.auth \/ In(e, {"SUCCESS"})),
           \A p \in Packets(e) : KexTold(p)' /\ UserTold(p)',
           srv'.kex = "idle" =>
              \/ /\ srv.kex = "idle"
                 /\ \A p \in Packets(e) : p.t # "KEXINIT" /\ (c.success => p.t \in Always \cup {"DATA"})
              \/ ~c.success /\ ~In(toClient', {"KEXINIT"})
    PROVE  IInv'
  <1>0. TypeOK /\ Turns /\ Writing
    BY DEF IInv
  <1>1. /\ c' = c /\ srv' \in ServerState /\ Replied(e) /\ (toServer' = toServer \/ Serving)
        /\ (srv.noisy => srv'.noisy) /\ ~srv.left
    BY DEF Acts
  <1>2. TypeOK'
    <2>1. toClient' \in Seq(Told)
      BY <1>0, <1>1, Answering
    <2>2. toServer' \in Seq(Said)
      BY <1>0, <1>1, Served DEF TypeOK
    <2> QED
      BY <1>0, <1>1, <2>1, <2>2 DEF TypeOK
  <1>3. Turns'
    BY <1>0, <1>1, TurnsAnswered
  <1>4. Exchanging'
    BY ExchangingAnswered
  <1>5. Reading'
    BY <1>1, ReadingAnswered
  <1>6. Writing'
    BY <1>0, <1>1, WritingAnswered
  <1>7. LoggingIn'
    BY LoggingInAnswered
  <1> QED
    BY <1>2, <1>3, <1>4, <1>5, <1>6, <1>7 DEF IInv

\* The packets of the kinds that the server names, with the keys it has.
Kinds == Types \X Whats \X (Prompts \cup {0})
Worded(kinds) ==
    [i \in 1..Len(kinds) |->
        Packet(kinds[i][1], kinds[i][2], kinds[i][3],
               IF \E j \in 1..(i - 1) : kinds[j][1] = "NEWKEYS" THEN srv.out + 1 ELSE srv.out, i > 1)]
Is(p, k) == p.t = k[1] /\ p.what = k[2] /\ p.n = k[3]
Words(e, kinds) ==
    /\ e \in Seq(Told) /\ DOMAIN e = DOMAIN kinds
    /\ \A i \in DOMAIN e :
         /\ Is(e[i], kinds[i]) /\ i \in Nat \ {0} /\ (e[i].joined <=> i > 1)
         /\ e[i].keys = IF Before(e, i, {"NEWKEYS"}) THEN srv.out + 1 ELSE srv.out

LEMMA RepliesDo ==
    ASSUME NEW kinds \in Seq(Kinds), Replies(srv, kinds), srv.out \in Nat
    PROVE  Replied(Worded(kinds)) /\ Words(Worded(kinds), kinds)
  <1> DEFINE e == Worded(kinds)
  <1>1. Replied(e)
    BY DEF Replied, Replies, Worded
  <1>2. DOMAIN kinds = 1..Len(kinds) /\ Len(kinds) \in Nat
    BY LenProperties
  <1>3. DOMAIN e = 1..Len(kinds)
    BY DEF Worded
  <1>4. ASSUME NEW i \in 1..Len(kinds)
        PROVE  /\ Is(e[i], kinds[i]) /\ (e[i].joined <=> i > 1)
               /\ e[i].keys = IF \E j \in 1..(i - 1) : kinds[j][1] = "NEWKEYS" THEN srv.out + 1 ELSE srv.out
               /\ e[i] \in Told
    <2>1. kinds[i][1] \in Types /\ kinds[i][2] \in Whats /\ kinds[i][3] \in Prompts \cup {0}
      BY <1>2 DEF Kinds
    <2>2. e[i] = Packet(kinds[i][1], kinds[i][2], kinds[i][3],
                        IF \E j \in 1..(i - 1) : kinds[j][1] = "NEWKEYS" THEN srv.out + 1 ELSE srv.out, i > 1)
      BY <1>4 DEF Worded
    <2>3. (IF \E j \in 1..(i - 1) : kinds[j][1] = "NEWKEYS" THEN srv.out + 1 ELSE srv.out) \in Nat
      OBVIOUS
    <2> DEFINE k == IF \E j \in 1..(i - 1) : kinds[j][1] = "NEWKEYS" THEN srv.out + 1 ELSE srv.out
    <2> DEFINE j == i > 1
    <2>4. k \in Nat /\ j \in BOOLEAN /\ e[i] = Packet(kinds[i][1], kinds[i][2], kinds[i][3], k, j)
      BY <2>2, <2>3
    <2> HIDE DEF e, k, j
    <2>5. e[i] \in Told
      BY <2>1, <2>4 DEF Packet, Told
    <2>6. Is(e[i], kinds[i]) /\ e[i].joined = j /\ e[i].keys = k
      BY <2>4 DEF Packet, Is
    <2>7. j <=> i > 1
      BY DEF j
    <2> QED
      BY <2>5, <2>6, <2>7 DEF k
  <1> HIDE DEF e
  <1>5. ASSUME NEW i \in 1..Len(kinds)
        PROVE  (\E j \in 1..(i - 1) : kinds[j][1] = "NEWKEYS") <=> Before(e, i, {"NEWKEYS"})
    <2>1. \A j \in 1..Len(kinds) : e[j].t = kinds[j][1]
      BY <1>4 DEF Is
    <2>2. \A j \in Int : j \in 1..(i - 1) <=> j \in 1..Len(kinds) /\ j < i
      BY <1>2
    <2>3. Before(e, i, {"NEWKEYS"}) <=> \E j \in 1..Len(kinds) : j < i /\ e[j].t = "NEWKEYS"
      BY <1>3 DEF Before
    <2> QED
      BY <2>1, <2>2, <2>3
  <1>6. e \in Seq(Told)
    <2>1. e = [i \in 1..Len(kinds) |-> e[i]]
      BY DEF e, Worded
    <2>2. e \in [1..Len(kinds) -> Told]
      BY <1>4, <2>1
    <2> QED
      BY <1>2, <2>2, SeqDef
  <1>7. Words(e, kinds)
    BY <1>2, <1>3, <1>4, <1>5, <1>6 DEF Words
  <1> QED
    BY <1>1, <1>7 DEF e

\* Without NEWKEYS and a reply the keys stay.
LEMMA WordsNumbered ==
    ASSUME NEW kinds, NEW e, Words(e, kinds), srv'.out = srv.out,
           \A i \in DOMAIN kinds : kinds[i][1] \notin {"NEWKEYS", "33"} /\
                                   (kinds[i][1] = "31" => kinds[i][2] = "group")
    PROVE  Numbered(e)
  <1>1. /\ DOMAIN e = DOMAIN kinds
        /\ \A i \in DOMAIN e : e[i].t = kinds[i][1] /\ e[i].what = kinds[i][2]
                               /\ e[i].keys = IF Before(e, i, {"NEWKEYS"}) THEN srv.out + 1 ELSE srv.out
    BY DEF Words, Is
  <1>2. ~In(e, {"NEWKEYS"}) /\ \A p \in Packets(e) : ~IsReply(p)
    BY <1>1 DEF In, Packets, IsReply
  <1> QED
    BY <1>1, <1>2 DEF Numbered

\* While the client has nothing but what is always handled, and the server has not left,
\* anything may follow.
LEMMA QuietFits ==
    ASSUME TypeOK, Turns, ~srv.left, Quiet
    PROVE  \A p \in Packets(toClient), t \in Types : MayFollow(p, t)
  <1>1. \A p \in Packets(toClient) : p.t = "IGNORE"
    BY DEF Turns, In, Quiet, Always
  <1> QED
    BY <1>1 DEF MayFollow

\* The server takes a packet.
LEMMA ServesActs ==
    ASSUME IInv, ~srv.left, toServer # <<>>, NEW next \in ServerState, NEW kinds \in Seq(Kinds),
           Serves(next, kinds), srv.noisy => next.noisy, srv.auth => next.auth
    PROVE  \E e \in Seq(Told) : Acts(e) /\ Words(e, kinds) /\ Serving /\ srv' = next
  <1>1. srv' = next /\ Replies(srv, kinds) /\ toServer' = Tail(toServer) /\ c' = c
    BY DEF Serves
  <1>2. srv.out \in Nat
    BY OnTheWay DEF ServerState
  <1>3. Replied(Worded(kinds)) /\ Words(Worded(kinds), kinds)
    BY <1>1, <1>2, RepliesDo
  <1>4. Worded(kinds) \in Seq(Told)
    BY <1>3 DEF Words
  <1>5. Serving
    BY <1>1 DEF Serving
  <1>6. Acts(Worded(kinds))
    BY <1>1, <1>3, <1>5 DEF Acts
  <1> QED
    BY <1>1, <1>3, <1>4, <1>5, <1>6

\* A request of the user's.
Requested(m) ==
    ~srv.left /\ toServer # <<>> /\ m = Head(toServer) /\ m.t \in UserAsks

LEMMA RequestedIs ==
    ASSUME IInv, NEW m, Requested(m)
    PROVE  UserAsked(m) /\ InAuth /\ ~srv.auth /\ srv.in = 1 /\ m \in Said /\ Quiet
           /\ \A p \in Packets(Tail(toServer)) : p.t \notin Questions
  <1>1. toServer \in Seq(Said) /\ toServer # <<>> /\ m = Head(toServer) /\ ~srv.left /\ m.t \in UserAsks
    BY DEF IInv, TypeOK, Requested
  <1>2. Packets(toServer) = {m} \cup Packets(Tail(toServer)) /\ m \in Said /\ 1 \in DOMAIN toServer /\ toServer[1] = m
    BY <1>1, PacketsShorter, Shorter
  <1>3. UserAsked(m)
    BY <1>2, OnTheWay
  <1>4. InAuth /\ m.keys > 0 /\ ~srv.auth
    BY <1>1, <1>3 DEF UserAsked
  <1>5. Keyed(toServer, srv.in) /\ srv.in \in {0, 1}
    BY <1>1 DEF IInv, Writing
  <1>6. ~Before(toServer, 1, {"DISCONNECT"}) /\ ~Before(toServer, 1, {"NEWKEYS"})
    <2>1. \A i \in DOMAIN toServer : i \in Nat \ {0}
      BY <1>1, Shorter
    <2> QED
      BY <2>1 DEF Before
  <1>7. m.keys = srv.in
    BY <1>2, <1>5, <1>6 DEF Keyed
  <1>8. srv.in = 1
    BY <1>4, <1>5, <1>7
  <1>9. Quiet
    BY <1>1, <1>2 DEF IInv, Turns, In, Questions
  <1>10. \A p \in Packets(Tail(toServer)) : p.t \notin Questions
    <2>1. \A i \in DOMAIN Tail(toServer) : i \in Nat \ {0} /\ i + 1 \in DOMAIN toServer /\ Tail(toServer)[i] = toServer[i + 1]
      BY <1>1, Shorter
    <2>2. \A i, j \in DOMAIN toServer :
            toServer[i].t \in Questions /\ toServer[j].t \in Questions => i = j
      BY DEF IInv, Turns
    <2>3. toServer[1].t \in Questions
      BY <1>1, <1>2 DEF Questions
    <2> DEFINE r == Tail(toServer)
    <2> HIDE DEF r
    <2>4. ASSUME NEW i \in DOMAIN r, r[i].t \in Questions PROVE FALSE
      BY <1>2, <2>1, <2>2, <2>3, <2>4 DEF r
    <2>5. \A p \in Packets(r) : p.t \notin Questions
      BY <2>4 DEF Packets
    <2> QED
      BY <2>5 DEF r
  <1> QED
    BY <1>2, <1>3, <1>4, <1>8, <1>9, <1>10

LEMMA UserAnswered ==
    ASSUME IInv, NEW m, Requested(m), NEW next \in ServerState, NEW kinds \in Seq(Kinds), Serves(next, kinds),
           next.in = srv.in, next.out = srv.out, next.kex = srv.kex, next.noisy = srv.noisy,
           next.auth => \E i \in DOMAIN kinds : kinds[i][1] = "SUCCESS",
           \A i \in DOMAIN kinds : /\ kinds[i][1] \in UserAnswers \cup {"DISCONNECT"}
                                   /\ kinds[i][1] = "DISCONNECT" => next.left,
           \A i, j \in DOMAIN kinds : i < j => kinds[i][1] = "BANNER" /\ kinds[j][1] = "FAILURE",
           \A i \in DOMAIN kinds, p \in Told : srv' = next /\ c' = c /\ Is(p, kinds[i]) => UserTold(p)'
    PROVE  IInv'
  <1>0. ~srv.left /\ toServer # <<>> /\ m = Head(toServer) /\ m.t \in UserAsks
    BY DEF Requested
  <1>1. UserAsked(m) /\ InAuth /\ ~srv.auth /\ srv.in = 1 /\ Quiet
        /\ \A p \in Packets(Tail(toServer)) : p.t \notin Questions
    BY RequestedIs
  <1>2. PICK e \in Seq(Told) : Acts(e) /\ Words(e, kinds) /\ Serving /\ srv' = next
    BY <1>0, <1>1, ServesActs
  <1>3. c' = c /\ toServer' = Tail(toServer)
    BY <1>2 DEF Acts, Serving
  <1>4. /\ DOMAIN e = DOMAIN kinds
        /\ \A i \in DOMAIN e : /\ Is(e[i], kinds[i]) /\ e[i].t = kinds[i][1] /\ i \in Nat
                               /\ e[i] \in Told
    <2>1. \A i \in DOMAIN e : e[i] \in Told
      BY PacketsIn DEF Packets
    <2> QED
      BY <1>2, <2>1 DEF Words, Is
  <1>5. \A p \in Packets(e) : p.t \in UserAnswers \cup {"DISCONNECT"} /\ UserTold(p)'
    BY <1>2, <1>3, <1>4 DEF Packets
  <1>6. Numbered(e)
    <2>1. \A i \in DOMAIN kinds : kinds[i][1] \notin {"NEWKEYS", "33", "31"}
      BY DEF UserAnswers
    <2> QED
      BY <1>2, <2>1, WordsNumbered
  <1>7. Fitting(e)
    <2>1. TypeOK /\ Turns
      BY DEF IInv
    <2>2. \A p \in Packets(toClient), t \in Types : MayFollow(p, t)
      BY <1>0, <1>1, <2>1, QuietFits
    <2>3. \A r \in Packets(e) : r.t \in Types
      BY <1>5 DEF UserAnswers, Types, Always
    <2>4. \A i, j \in DOMAIN e : i < j => MayFollow(e[i], e[j].t)
      BY <1>4 DEF MayFollow
    <2>5. \A j \in DOMAIN e : e[j].t # "EXT_INFO"
      BY <1>5 DEF Packets, UserAnswers
    <2> QED
      BY <2>2, <2>3, <2>4, <2>5 DEF Fitting
  <1>8. WritingKept
    <2>1. m.t # "NEWKEYS" /\ m.t # "DISCONNECT"
      BY <1>0 DEF UserAsks
    <2> QED
      BY <1>0, <1>2, <2>1 DEF WritingKept
  <1>9. ~In(toServer', Questions)
    BY <1>1, <1>3 DEF In
  <1>10. ~In(e, {"IGNORE"}) /\ (In(e, {"DISCONNECT"}) => srv'.left)
    <2>1. \A p \in Packets(e) : p.t # "IGNORE"
      BY <1>5 DEF UserAnswers
    <2>2. \A i \in DOMAIN e : e[i].t = "DISCONNECT" => next.left
      BY <1>4
    <2> QED
      BY <1>2, <2>1, <2>2 DEF In, Packets
  <1>11. UserServed
    BY <1>0, <1>2 DEF UserServed
  <1>12. srv'.auth => srv'.in = 1 /\ In(e, {"SUCCESS"})
    BY <1>1, <1>2, <1>4 DEF In, Packets
  <1>13. \A p \in Packets(e) : KexTold(p)'
    <2>1. \A p \in Packets(e) : p.t \notin {"31", "33", "KEXINIT", "NEWKEYS", "EXT_INFO", "DATA"}
      BY <1>5 DEF UserAnswers
    <2> QED
      BY <2>1 DEF KexTold
  <1>14. ~c.success /\ \A p \in Packets(e) : p.t # "KEXINIT"
    BY <1>1, <1>5 DEF InAuth, UserAnswers
  <1> QED
    BY <1>2, <1>5, <1>6, <1>7, <1>8, <1>9, <1>10, <1>11, <1>12, <1>13, <1>14, Answered

\* One packet in answer to a request of the user's.
LEMMA OneAnswered ==
    ASSUME IInv, NEW m, Requested(m), NEW next \in ServerState,
           NEW t \in UserAnswers \cup {"DISCONNECT"}, NEW what \in Whats, NEW n \in Prompts \cup {0},
           Serves(next, <<<<t, what, n>>>>),
           next.in = srv.in, next.out = srv.out, next.kex = srv.kex, next.noisy = srv.noisy,
           next.auth => t = "SUCCESS", t = "DISCONNECT" => next.left,
           \A p \in Told : srv' = next /\ c' = c /\ p.t = t /\ p.what = what /\ p.n = n => UserTold(p)'
    PROVE  IInv'
  <1> DEFINE k == <<t, what, n>>
             kinds == <<k>>
  <1>1. k \in Kinds /\ k[1] = t /\ k[2] = what /\ k[3] = n
    BY DEF UserAnswers, Types, Always, Kinds
  <1>2. Serves(next, kinds)
    OBVIOUS
  <1> HIDE DEF k
  <1>3. kinds \in Seq(Kinds) /\ DOMAIN kinds = {1} /\ kinds[1] = k
    BY <1>1, OneOf
  <1> HIDE DEF kinds
  <1>4. \A i \in DOMAIN kinds : kinds[i] = k /\ kinds[i][1] = t /\ i = 1
    BY <1>1, <1>3
  <1>5. next.auth => \E i \in DOMAIN kinds : kinds[i][1] = "SUCCESS"
    BY <1>1, <1>3
  <1>6. \A i \in DOMAIN kinds : /\ kinds[i][1] \in UserAnswers \cup {"DISCONNECT"}
                                /\ kinds[i][1] = "DISCONNECT" => next.left
    BY <1>4
  <1>7. \A i, j \in DOMAIN kinds : i < j => kinds[i][1] = "BANNER" /\ kinds[j][1] = "FAILURE"
    BY <1>4
  <1>8. \A i \in DOMAIN kinds, p \in Told : srv' = next /\ c' = c /\ Is(p, kinds[i]) => UserTold(p)'
    BY <1>1, <1>4 DEF Is
  <1> QED
    BY <1>2, <1>3, <1>5, <1>6, <1>7, <1>8, UserAnswered

LEMMA RefusesStep ==
    ASSUME IInv, NEW m, Requested(m), m.t \in {"AUTH", "INFO_RESPONSE"}, Refuses
    PROVE  IInv'
  <1>0. srv \in ServerState /\ UserAsked(m) /\ InAuth /\ ~srv.auth /\ m.t \in UserAsks
    BY OnTheWay, RequestedIs DEF Requested
  <1>1. Auth \subseteq c.enabled
    BY <1>0 DEF UserAsked
  <1>2. "" \in Whats /\ "FAILURE" \in UserAnswers /\ "DISCONNECT" \in UserAnswers \cup {"DISCONNECT"}
        /\ 0 \in Prompts \cup {0}
    BY DEF Whats, UserAnswers
  <1>3. CASE srv.fails < MaxFailures
    <2> DEFINE next == [srv EXCEPT !.fails = @ + 1, !.asked = -1]
    <2>1. next \in ServerState /\ next.in = srv.in /\ next.out = srv.out /\ next.kex = srv.kex
          /\ next.noisy = srv.noisy /\ ~next.auth
      <3>1. srv.fails + 1 \in Nat /\ -1 \in Prompts \cup {-1}
        BY <1>0 DEF ServerState
      <3> DEFINE f == srv.fails + 1
      <3>2. next = [srv EXCEPT !.fails = f, !.asked = -1] /\ f \in Nat
        BY <3>1
      <3> HIDE DEF next, f
      <3>3. next \in ServerState
        BY <1>0, <3>1, <3>2 DEF ServerState
      <3>4. next.in = srv.in /\ next.out = srv.out /\ next.kex = srv.kex
            /\ next.noisy = srv.noisy /\ next.auth = srv.auth
        BY <1>0, <3>2 DEF ServerState
      <3> QED
        BY <1>0, <3>3, <3>4
    <2>2. Serves(next, <<<<"FAILURE", "", 0>>>>)
      BY <1>3 DEF Refuses
    <2> HIDE DEF next
    <2>3. \A p \in Told : srv' = next /\ c' = c /\ p.t = "FAILURE" => UserTold(p)'
      BY <1>0, <1>1, <2>1 DEF UserTold, InAuth, Listing, Auth
    <2> QED
      BY <1>2, <2>1, <2>2, <2>3, OneAnswered
  <1>4. CASE ~(srv.fails < MaxFailures)
    <2> DEFINE next == [srv EXCEPT !.left = TRUE, !.asked = -1]
    <2>1. next \in ServerState /\ next.in = srv.in /\ next.out = srv.out /\ next.kex = srv.kex
          /\ next.noisy = srv.noisy /\ ~next.auth /\ next.left
      BY <1>0 DEF ServerState
    <2>2. Serves(next, <<<<"DISCONNECT", "", 0>>>>)
      BY <1>4 DEF Refuses
    <2> HIDE DEF next
    <2>3. \A p \in Told : srv' = next /\ c' = c /\ p.t = "DISCONNECT" => UserTold(p)'
      BY DEF UserTold, UserAnswers, Auth
    <2> QED
      BY <1>2, <2>1, <2>2, <2>3, OneAnswered
  <1> QED
    BY <1>3, <1>4

LEMMA AcceptsStep ==
    ASSUME IInv, NEW m, Requested(m), m.t \in {"AUTH", "INFO_RESPONSE"}, m.what # "none" \/ m.t # "AUTH", Accepts
    PROVE  IInv'
  <1>0. srv \in ServerState /\ UserAsked(m) /\ InAuth /\ ~srv.auth /\ m.t \in UserAsks
    BY OnTheWay, RequestedIs DEF Requested
  <1>1. Auth \subseteq c.enabled /\ c.tryed /\ c.authDlg = "none"
    BY <1>0 DEF UserAsked
  <1> DEFINE next == [srv EXCEPT !.auth = TRUE, !.asked = -1]
  <1>2. next \in ServerState /\ next.in = srv.in /\ next.out = srv.out /\ next.kex = srv.kex
        /\ next.noisy = srv.noisy /\ next.auth
    BY <1>0 DEF ServerState
  <1>3. Serves(next, <<<<"SUCCESS", "", 0>>>>)
    BY DEF Accepts
  <1> HIDE DEF next
  <1>4. \A p \in Told : srv' = next /\ c' = c /\ p.t = "SUCCESS" => UserTold(p)'
    BY <1>0, <1>1, <1>2 DEF UserTold, InAuth, Listing, Auth
  <1>5. "" \in Whats /\ "SUCCESS" \in UserAnswers \cup {"DISCONNECT"} /\ 0 \in Prompts \cup {0}
    BY DEF Whats, UserAnswers
  <1> QED
    BY <1>2, <1>3, <1>4, <1>5, OneAnswered

LEMMA AsksStep ==
    ASSUME IInv, NEW m, Requested(m), m.t = "INFO_RESPONSE" \/ (m.t = "AUTH" /\ m.what = "keyboard"), Asks
    PROVE  IInv'
  <1>0. srv \in ServerState /\ UserAsked(m) /\ InAuth /\ ~srv.auth /\ m.t \in UserAsks
    BY OnTheWay, RequestedIs DEF Requested
  <1>1. Auth \subseteq c.enabled /\ c.tryed /\ c.authDlg = "none" /\ c.method = "keyboard" /\ "60" \in c.enabled
    BY <1>0 DEF UserAsked
  <1>2. PICK n \in Prompts : Serves([srv EXCEPT !.asked = n, !.fails = @ + 1], <<<<"60", "prompts", n>>>>)
    BY DEF Asks
  <1> DEFINE next == [srv EXCEPT !.asked = n, !.fails = @ + 1]
  <1>3. next \in ServerState /\ next.in = srv.in /\ next.out = srv.out /\ next.kex = srv.kex
        /\ next.noisy = srv.noisy /\ ~next.auth /\ next.asked = n
    <2>1. srv.fails + 1 \in Nat /\ n \in Prompts \cup {-1}
      BY <1>0 DEF ServerState
    <2> DEFINE f == srv.fails + 1
    <2>2. next = [srv EXCEPT !.asked = n, !.fails = f] /\ f \in Nat
      BY <2>1
    <2> HIDE DEF next, f
    <2>3. next \in ServerState
      BY <1>0, <2>1, <2>2 DEF ServerState
    <2>4. next.in = srv.in /\ next.out = srv.out /\ next.kex = srv.kex
          /\ next.noisy = srv.noisy /\ next.auth = srv.auth /\ next.asked = n
      BY <1>0, <2>2 DEF ServerState
    <2> QED
      BY <1>0, <2>3, <2>4
  <1>4. Serves(next, <<<<"60", "prompts", n>>>>)
    BY <1>2
  <1> HIDE DEF next
  <1>5. \A p \in Told : srv' = next /\ c' = c /\ p.t = "60" /\ p.what = "prompts" /\ p.n = n => UserTold(p)'
    BY <1>0, <1>1, <1>3 DEF UserTold, InAuth, Listing, Auth, Fits
  <1>6. "prompts" \in Whats /\ "60" \in UserAnswers \cup {"DISCONNECT"} /\ n \in Prompts \cup {0}
    BY DEF Whats, UserAnswers
  <1> QED
    BY <1>3, <1>4, <1>5, <1>6, OneAnswered

\* A packet 60, or another answer that changes nothing at the server.
LEMMA PlainAnswer ==
    ASSUME IInv, NEW m, Requested(m),
           NEW t \in UserAnswers \ {"SUCCESS"}, NEW what \in Whats, Serves(srv, <<<<t, what, 0>>>>),
           \A p \in Told : srv' = srv /\ c' = c /\ p.t = t /\ p.what = what => UserTold(p)'
    PROVE  IInv'
  <1>1. srv \in ServerState /\ ~srv.auth /\ t # "DISCONNECT" /\ 0 \in Prompts \cup {0}
    BY OnTheWay, RequestedIs DEF UserAnswers
  <1>2. t \in UserAnswers \cup {"DISCONNECT"}
    OBVIOUS
  <1> QED
    BY <1>1, <1>2, OneAnswered

LEMMA ServiceRequestStep ==
    ASSUME IInv, NEW m, Requested(m), m.t = "SERVICE_REQUEST", Serves(srv, <<<<"SERVICE_ACCEPT", "", 0>>>>)
    PROVE  IInv'
  <1>1. UserAsked(m) /\ InAuth /\ ~srv.auth
    BY RequestedIs
  <1>2. \A p \in Told : srv' = srv /\ c' = c /\ p.t = "SERVICE_ACCEPT" => UserTold(p)'
    BY <1>1 DEF UserAsked, UserTold, InAuth, Listing, Auth
  <1>3. "SERVICE_ACCEPT" \in UserAnswers \ {"SUCCESS"} /\ "" \in Whats
    BY DEF UserAnswers, Whats
  <1> QED
    BY <1>2, <1>3, PlainAnswer

\* The answer to "none", which may come with a banner.
Bannered == Serves(srv, <<<<"BANNER", "", 0>>, <<"FAILURE", "", 0>>>>)

LEMMA BannerStep ==
    ASSUME IInv, NEW m, Requested(m), m.t = "AUTH", Bannered
    PROVE  IInv'
  <1>0. srv \in ServerState /\ UserAsked(m) /\ InAuth /\ ~srv.auth /\ m.t \in UserAsks
    BY OnTheWay, RequestedIs DEF Requested
  <1>1. Auth \subseteq c.enabled
    BY <1>0 DEF UserAsked
  <1> DEFINE b == <<"BANNER", "", 0>>
             f == <<"FAILURE", "", 0>>
             kinds == <<b, f>>
  <1>2. b \in Kinds /\ f \in Kinds /\ b[1] = "BANNER" /\ f[1] = "FAILURE"
    BY DEF Kinds, Types, Whats
  <1>3. Serves(srv, kinds)
    BY DEF Bannered
  <1> HIDE DEF b, f
  <1>4. kinds \in Seq(Kinds) /\ DOMAIN kinds = 1..2 /\ kinds[1] = b /\ kinds[2] = f
    <2>1. kinds \in Seq(Kinds) /\ Len(kinds) = 2
      BY <1>2
    <2>2. kinds[1] = b /\ kinds[2] = f
      OBVIOUS
    <2> QED
      BY <2>1, <2>2, LenProperties
  <1> HIDE DEF kinds
  <1>5. \A i \in DOMAIN kinds : kinds[i][1] \in {"BANNER", "FAILURE"}
    <2>1. \A i \in 1..2 : i = 1 \/ i = 2
      OBVIOUS
    <2> QED
      BY <1>2, <1>4, <2>1
  <1>6. \A i \in DOMAIN kinds : /\ kinds[i][1] \in UserAnswers \cup {"DISCONNECT"}
                                /\ kinds[i][1] = "DISCONNECT" => srv.left
    BY <1>5 DEF UserAnswers
  <1>7. \A i, j \in DOMAIN kinds : i < j => kinds[i][1] = "BANNER" /\ kinds[j][1] = "FAILURE"
    <2>1. \A i, j \in 1..2 : i < j => i = 1 /\ j = 2
      OBVIOUS
    <2> QED
      BY <1>2, <1>4, <2>1
  <1>8. \A p \in Told : srv' = srv /\ c' = c /\ p.t \in {"BANNER", "FAILURE"} => UserTold(p)'
    BY <1>0, <1>1 DEF UserTold, InAuth, Listing, Auth
  <1>9. \A i \in DOMAIN kinds, p \in Told : srv' = srv /\ c' = c /\ Is(p, kinds[i]) => UserTold(p)'
    BY <1>5, <1>8 DEF Is
  <1> QED
    BY <1>0, <1>3, <1>4, <1>6, <1>7, <1>9, UserAnswered

LEMMA ServeAuthStep ==
    ASSUME IInv, NEW m, Requested(m), m.t = "AUTH", ServeAuth(m.what)
    PROVE  IInv'
  <1>0. UserAsked(m) /\ InAuth /\ ~srv.auth /\ m.t \in UserAsks
    BY RequestedIs DEF Requested
  <1>1. Auth \subseteq c.enabled /\ (m.what # "none" => c.tryed /\ c.authDlg = "none")
    BY <1>0 DEF UserAsked
  <1>2. CASE Refuses
    BY <1>2, RefusesStep
  <1>3. CASE Accepts /\ m.what # "none"
    BY <1>3, AcceptsStep
  <1>4. CASE Asks /\ m.what = "keyboard"
    BY <1>4, AsksStep
  <1>5. CASE Bannered
    BY <1>5, BannerStep
  <1>6. CASE m.what = "query" /\ Serves(srv, <<<<"60", "pk_ok", 0>>>>)
    <2>1. c.method = "pageant" /\ "60" \in c.enabled /\ c.tryed /\ c.authDlg = "none"
      BY <1>0, <1>1, <1>6 DEF UserAsked
    <2>2. \A p \in Told : srv' = srv /\ c' = c /\ p.t = "60" /\ p.what = "pk_ok" => UserTold(p)'
      BY <1>0, <1>1, <2>1 DEF UserTold, InAuth, Listing, Auth
    <2>3. "60" \in UserAnswers \ {"SUCCESS"} /\ "pk_ok" \in Whats
      BY DEF UserAnswers, Whats
    <2> QED
      BY <1>6, <2>2, <2>3, PlainAnswer
  <1>7. CASE m.what = "password" /\ "changereq" \in ServerMay /\ Serves(srv, <<<<"60", "changereq", 0>>>>)
    <2>1. c.method = "password" /\ c.tryed /\ c.authDlg = "none"
      BY <1>0, <1>1, <1>7 DEF UserAsked
    <2>2. \A p \in Told : srv' = srv /\ c' = c /\ p.t = "60" /\ p.what = "changereq" => UserTold(p)'
      BY <1>0, <1>1, <1>7, <2>1 DEF UserTold, InAuth, Listing, Auth
    <2>3. "60" \in UserAnswers \ {"SUCCESS"} /\ "changereq" \in Whats
      BY DEF UserAnswers, Whats
    <2> QED
      BY <1>7, <2>2, <2>3, PlainAnswer
  <1>8. \/ Refuses
        \/ Accepts /\ m.what # "none"
        \/ Asks /\ m.what = "keyboard"
        \/ Bannered
        \/ m.what = "query" /\ Serves(srv, <<<<"60", "pk_ok", 0>>>>)
        \/ m.what = "password" /\ "changereq" \in ServerMay /\ Serves(srv, <<<<"60", "changereq", 0>>>>)
    BY DEF ServeAuth, Bannered
  <1> QED
    BY <1>2, <1>3, <1>4, <1>5, <1>6, <1>7, <1>8

\* A question of the key exchange.
KexRequested(m) ==
    ~srv.left /\ toServer # <<>> /\ m = Head(toServer) /\ m.t \in KexAsks

LEMMA KexRequestedIs ==
    ASSUME IInv, NEW m, KexRequested(m)
    PROVE  KexAsked(m) /\ Pending /\ Quiet
           /\ (srv.kex = "idle" => ~c.success)
           /\ (srv.out = 0 => ~c.tryed)
  <1>1. toServer \in Seq(Said) /\ toServer # <<>> /\ m = Head(toServer) /\ m.t \in KexAsks
    BY DEF IInv, TypeOK, KexRequested
  <1>2. m \in Packets(toServer)
    BY <1>1, PacketsShorter
  <1>3. KexAsked(m) /\ Progress /\ Standing
    BY <1>2, OnTheWay
  <1>4. Pending
    BY <1>1, <1>3 DEF KexAsked
  <1>5. Quiet
    BY <1>1, <1>2 DEF IInv, Turns, In, Questions
  <1>6. srv.kex = "idle" => ~c.success
    <2>1. {"done"} # {"rekeying"}
      OBVIOUS
    <2> QED
      BY <1>3, <1>4, <2>1 DEF Pending, Progress
  <1>7. srv.out = 0 => ~c.tryed
    <2>1. srv.out = 0 => c.kex = {}
      BY <1>3 DEF Standing
    <2>2. c.nameOK => c.kex # {}
      BY <1>3 DEF Standing
    <2> QED
      BY <1>3, <2>1, <2>2 DEF Progress
  <1> QED
    BY <1>3, <1>4, <1>5, <1>6, <1>7

LEMMA KexAnswered ==
    ASSUME IInv, NEW m, KexRequested(m), NEW e \in Seq(Told), Acts(e), Serving, Numbered(e),
           srv'.in = srv.in, srv'.auth = srv.auth, srv'.asked = srv.asked, srv'.left = srv.left,
           srv'.kex = "idle" => srv.kex = "idle",
           \A i, j \in DOMAIN e : i < j => MayFollow(e[i], e[j].t),
           \A j \in DOMAIN e : e[j].t = "EXT_INFO" => e[j].joined /\ j > 1 /\ e[j - 1].t = "NEWKEYS",
           \A p \in Packets(e) : p.t \in {"31", "33", "NEWKEYS", "EXT_INFO"} /\ KexTold(p)'
    PROVE  IInv'
  <1>0. TypeOK /\ Turns /\ Progress /\ ~srv.left /\ m = Head(toServer) /\ m.t \in KexAsks
    BY OnTheWay DEF IInv, KexRequested
  <1>1. Quiet /\ (srv.kex = "idle" => ~c.success) /\ Pending
    BY KexRequestedIs
  <1>2. \A p \in Packets(toServer') : p.t \notin Questions
    BY <1>0, HeadAsks DEF Questions
  <1>3. Fitting(e)
    <2>1. \A p \in Packets(toClient), t \in Types : MayFollow(p, t)
      BY <1>0, <1>1, QuietFits
    <2>2. \A r \in Packets(e) : r.t \in Types
      BY DEF Types
    <2> QED
      BY <2>1, <2>2 DEF Fitting
  <1>4. WritingKept
    <2>1. m.t # "NEWKEYS" /\ m.t # "DISCONNECT"
      BY <1>0 DEF KexAsks
    <2> QED
      BY <1>0, <2>1 DEF WritingKept
  <1>5. ~In(toServer', Questions) /\ ~In(e, {"IGNORE"}) /\ ~In(e, {"DISCONNECT"})
    BY <1>2 DEF In
  <1>6. \A p \in Packets(e) : KexTold(p)' /\ UserTold(p)'
    <2>1. \A p \in Packets(e) : p.t \notin UserAnswers \cup Auth
      BY DEF UserAnswers, Auth
    <2> QED
      BY <2>1 DEF UserTold, UserAnswers, Auth
  <1>7. srv'.auth => srv'.in = 1 /\ (srv.auth \/ In(e, {"SUCCESS"}))
    BY <1>0 DEF Progress
  <1>8. srv'.kex = "idle" => srv.kex = "idle" /\ ~c.success /\ \A p \in Packets(e) : p.t # "KEXINIT"
    BY <1>1
  <1> QED
    BY <1>3, <1>4, <1>5, <1>6, <1>7, <1>8, Answered

LEMMA GexRequestStep ==
    ASSUME IInv, NEW m, KexRequested(m), m.t = "GEX_REQUEST", NEW k, k = <<"31", "group", 0>>, Serves(srv, <<k>>)
    PROVE  IInv'
  <1>1. k \in Kinds /\ k[1] = "31" /\ k[2] = "group"
    BY DEF Kinds, Types, Whats
  <1>2. <<k>> \in Seq(Kinds) /\ DOMAIN <<k>> = {1} /\ <<k>>[1] = k
    BY <1>1, OneOf
  <1> DEFINE kinds == <<k>>
  <1>3. kinds \in Seq(Kinds) /\ Serves(srv, kinds) /\ DOMAIN kinds = {1} /\ kinds[1] = k
    BY <1>2
  <1> HIDE DEF kinds
  <1>4. srv \in ServerState /\ ~srv.left /\ toServer # <<>>
    BY OnTheWay DEF KexRequested
  <1>5. PICK e \in Seq(Told) : Acts(e) /\ Words(e, kinds) /\ Serving /\ srv' = srv
    BY <1>3, <1>4, ServesActs
  <1>6. /\ DOMAIN e = {1} /\ e[1].t = "31" /\ e[1].what = "group"
    BY <1>1, <1>3, <1>5 DEF Words, Is
  <1>7. KexAsked(m) /\ Pending /\ c' = c
    BY <1>5, KexRequestedIs DEF Acts
  <1>8. Numbered(e)
    BY <1>1, <1>3, <1>5, WordsNumbered
  <1>9. \A p \in Packets(e) : p.t \in {"31", "33", "NEWKEYS", "EXT_INFO"} /\ KexTold(p)'
    <2>1. \A p \in Packets(e) : p.t = "31" /\ p.what = "group"
      BY <1>6 DEF Packets
    <2>2. c.enabled = Always \cup {"31"} /\ c.kind = "gex"
      BY <1>7 DEF KexAsked
    <2>3. Pending'
      BY <1>7 DEF Pending
    <2> QED
      BY <1>7, <2>1, <2>2, <2>3 DEF KexTold
  <1>10. \A i, j \in DOMAIN e : i < j => FALSE
    BY <1>6
  <1>11. \A j \in DOMAIN e : e[j].t # "EXT_INFO"
    BY <1>6
  <1> QED
    BY <1>5, <1>8, <1>9, <1>10, <1>11, KexAnswered

\* The reply, NEWKEYS and what may follow it.
Concluded(t, e) ==
    /\ e[1].t = t /\ e[1].what \in {"good", "bad"} /\ e[2].t = "NEWKEYS"
    /\ \/ DOMAIN e = {1, 2}
       \/ DOMAIN e = {1, 2, 3} /\ e[3].t = "EXT_INFO" /\ e[3].joined /\ srv.out = 0

LEMMA ConcludedStep ==
    ASSUME IInv, NEW m, KexRequested(m), NEW t, NEW e \in Seq(Told), Acts(e), Serving, Concluded(t, e),
           (m.t = "INIT" /\ t = "31") \/ (m.t = "GEX_INIT" /\ t = "33"),
           srv' = [srv EXCEPT !.kex = "newkeys", !.out = @ + 1],
           \A i \in DOMAIN e : e[i].keys = IF Before(e, i, {"NEWKEYS"}) THEN srv.out + 1 ELSE srv.out
    PROVE  IInv'
  <1>0. KexAsked(m) /\ Pending /\ Quiet /\ c' = c /\ (srv.out = 0 => ~c.tryed) /\ srv \in ServerState
    BY KexRequestedIs, OnTheWay DEF Acts
  <1>1. /\ srv'.in = srv.in /\ srv'.auth = srv.auth /\ srv'.asked = srv.asked /\ srv'.left = srv.left
        /\ srv'.kex = "newkeys" /\ srv'.out = srv.out + 1
    BY <1>0 DEF ServerState
  <1>2. DOMAIN e \subseteq {1, 2, 3} /\ {1, 2} \subseteq DOMAIN e
        /\ e[1].t = t /\ e[1].what \in {"good", "bad"} /\ e[2].t = "NEWKEYS"
        /\ (3 \in DOMAIN e => e[3].t = "EXT_INFO" /\ e[3].joined /\ srv.out = 0)
    BY DEF Concluded
  <1>3. IsReply(e[1]) /\ e[1] \in Packets(e) /\ e[2] \in Packets(e)
    BY <1>2 DEF IsReply, Packets
  <1>4. Numbered(e)
    BY <1>0, <1>1, <1>2, <1>3 DEF Numbered, In
  <1>5. \A i, j \in DOMAIN e : i < j => MayFollow(e[i], e[j].t)
    <2>1. \A j \in DOMAIN e : 1 < j => e[j].t \in {"NEWKEYS", "EXT_INFO"}
      BY <1>2
    <2>2. \A i, j \in DOMAIN e : i < j => i = 1 \/ (i = 2 /\ j = 3)
      BY <1>2
    <2> QED
      BY <1>2, <1>3, <2>1, <2>2 DEF MayFollow
  <1>6. \A j \in DOMAIN e : e[j].t = "EXT_INFO" => e[j].joined /\ j > 1 /\ e[j - 1].t = "NEWKEYS"
    BY <1>2
  <1>7. \A p \in Packets(e) : p.t \in {"31", "33", "NEWKEYS", "EXT_INFO"} /\ KexTold(p)'
    <2>1. TypeOK /\ Replied(e)
      BY DEF IInv, Acts
    <2>2. HasReply'
      BY <1>3, <2>1, Answering DEF HasReply
    <2>3. Pending' /\ c.kex \in {{}, {"rekeying"}}
      BY <1>0 DEF Pending
    <2>4. c.enabled = Always \cup {t} /\ (t = "31" => c.kind = "dh") /\ (t = "33" => c.kind = "gex")
      BY <1>0 DEF KexAsked
    <2>5. KexTold(e[1])'
      BY <1>0, <1>2, <2>3, <2>4 DEF KexTold
    <2>6. KexTold(e[2])'
      BY <1>0, <1>2, <2>2, <2>3 DEF KexTold
    <2>7. 3 \in DOMAIN e => KexTold(e[3])'
      BY <1>0, <1>2 DEF KexTold
    <2>8. \A i \in DOMAIN e : e[i].t \in {"31", "33", "NEWKEYS", "EXT_INFO"} /\ KexTold(e[i])'
      BY <1>2, <2>5, <2>6, <2>7
    <2> QED
      BY <2>8 DEF Packets
  <1> QED
    BY <1>1, <1>4, <1>5, <1>6, <1>7, KexAnswered

LEMMA PairOf ==
    ASSUME NEW S, NEW a \in S, NEW b \in S
    PROVE  /\ <<a, b>> \in Seq(S) /\ DOMAIN <<a, b>> = {1, 2} /\ <<a, b>>[1] = a /\ <<a, b>>[2] = b
           /\ <<a, b>> \o <<>> = <<a, b>>
  <1>1. \A i \in Int : i \in 1..2 <=> i = 1 \/ i = 2
    OBVIOUS
  <1>2. DOMAIN <<a, b>> = 1..2 /\ 1..2 = {1, 2}
    BY <1>1
  <1> QED
    BY <1>2

LEMMA ThreeOf ==
    ASSUME NEW S, NEW a \in S, NEW b \in S, NEW d \in S
    PROVE  /\ <<a, b>> \o <<d>> \in Seq(S) /\ DOMAIN (<<a, b>> \o <<d>>) = {1, 2, 3}
           /\ (<<a, b>> \o <<d>>)[1] = a /\ (<<a, b>> \o <<d>>)[2] = b /\ (<<a, b>> \o <<d>>)[3] = d
  <1>1. \A i \in Int : i \in 1..3 <=> i = 1 \/ i = 2 \/ i = 3
    OBVIOUS
  <1> DEFINE q == <<a, b>>
             r == <<d>>
  <1>2. q \in Seq(S) /\ Len(q) = 2 /\ q[1] = a /\ q[2] = b
    OBVIOUS
  <1>3. r \in Seq(S) /\ Len(r) = 1 /\ r[1] = d
    OBVIOUS
  <1> HIDE DEF q, r
  <1>4. /\ q \o r \in Seq(S) /\ Len(q \o r) = 3
        /\ (q \o r)[1] = q[1] /\ (q \o r)[2] = q[2] /\ (q \o r)[3] = r[1]
    <2> DEFINE qr == q \o r
    <2>0. /\ q \o r \in Seq(S) /\ Len(q \o r) = Len(q) + Len(r)
          /\ \A i \in 1..(Len(q) + Len(r)) :
               (q \o r)[i] = IF i <= Len(q) THEN q[i] ELSE r[i - Len(q)]
      <3>1. q \in Seq(S) /\ r \in Seq(S)
        BY <1>2, <1>3
      <3> HIDE DEF qr
      <3> QED
        BY <3>1, ConcatProperties
    <2>1. /\ qr \in Seq(S) /\ Len(qr) = 2 + 1
          /\ \A i \in 1..(2 + 1) : qr[i] = IF i <= 2 THEN q[i] ELSE r[i - 2]
      BY <1>2, <1>3, <2>0
    <2> HIDE DEF qr
    <2>2. Len(qr) = 3 /\ qr[1] = q[1] /\ qr[2] = q[2] /\ qr[3] = r[1]
      BY <2>1
    <2> QED
      BY <2>1, <2>2 DEF qr
  <1>5. DOMAIN (q \o r) = 1..3 /\ 1..3 = {1, 2, 3}
    BY <1>1, <1>4, LenProperties
  <1> QED
    BY <1>2, <1>3, <1>4, <1>5 DEF q, r

\* What the server sends at the end of an exchange.
Ends(kinds, t) ==
    /\ kinds \in Seq(Kinds)
    /\ kinds[1][1] = t /\ kinds[1][2] \in {"good", "bad"} /\ kinds[2][1] = "NEWKEYS"
    /\ \/ DOMAIN kinds = {1, 2}
       \/ DOMAIN kinds = {1, 2, 3} /\ kinds[3][1] = "EXT_INFO" /\ srv.out = 0

LEMMA ConcludesEnds ==
    ASSUME NEW t \in {"31", "33"}, Concludes(t)
    PROVE  \E kinds : Ends(kinds, t) /\ Serves([srv EXCEPT !.kex = "newkeys", !.out = @ + 1], kinds)
  <1> DEFINE next == [srv EXCEPT !.kex = "newkeys", !.out = @ + 1]
  <1>1. PICK what \in {"good", "bad"}, ext \in BOOLEAN :
          Serves(next, <<<<t, what, 0>>, <<"NEWKEYS", "", 0>>>> \o
                       IF ext /\ srv.out = 0 THEN <<<<"EXT_INFO", "", 0>>>> ELSE <<>>)
    BY DEF Concludes
  <1> DEFINE a == <<t, what, 0>>
             b == <<"NEWKEYS", "", 0>>
             d == <<"EXT_INFO", "", 0>>
  <1>2. /\ a \in Kinds /\ b \in Kinds /\ d \in Kinds
        /\ a[1] = t /\ a[2] = what /\ b[1] = "NEWKEYS" /\ d[1] = "EXT_INFO"
    BY DEF Kinds, Types, Whats
  <1>3. Serves(next, <<a, b>> \o IF ext /\ srv.out = 0 THEN <<d>> ELSE <<>>)
    BY <1>1
  <1> HIDE DEF next, a, b, d
  <1>4. CASE ext /\ srv.out = 0
    <2> DEFINE kinds == <<a, b>> \o <<d>>
    <2>1. Serves(next, kinds)
      BY <1>3, <1>4
    <2>2. kinds \in Seq(Kinds) /\ DOMAIN kinds = {1, 2, 3} /\ kinds[1] = a /\ kinds[2] = b /\ kinds[3] = d
      BY <1>2, ThreeOf
    <2> HIDE DEF kinds
    <2>3. Ends(kinds, t)
      BY <1>2, <1>4, <2>2 DEF Ends
    <2> QED
      BY <2>1, <2>3 DEF next
  <1>5. CASE ~(ext /\ srv.out = 0)
    <2> DEFINE kinds == <<a, b>>
    <2>1. kinds \in Seq(Kinds) /\ DOMAIN kinds = {1, 2} /\ kinds[1] = a /\ kinds[2] = b /\ kinds \o <<>> = kinds
      BY <1>2, PairOf
    <2>2. Serves(next, kinds \o <<>>)
      BY <1>3, <1>5
    <2> HIDE DEF kinds
    <2>3. Ends(kinds, t)
      BY <1>2, <2>1 DEF Ends
    <2> QED
      BY <2>1, <2>2, <2>3 DEF next
  <1> QED
    BY <1>4, <1>5

LEMMA ConcludesStep ==
    ASSUME IInv, NEW m, KexRequested(m), NEW t,
           (m.t = "INIT" /\ t = "31") \/ (m.t = "GEX_INIT" /\ t = "33"), Concludes(t)
    PROVE  IInv'
  <1> DEFINE next == [srv EXCEPT !.kex = "newkeys", !.out = @ + 1]
  <1>1. PICK kinds : Ends(kinds, t) /\ Serves(next, kinds)
    BY ConcludesEnds
  <1>2. srv \in ServerState /\ ~srv.left /\ toServer # <<>> /\ kinds \in Seq(Kinds)
    BY <1>1, OnTheWay DEF KexRequested, Ends
  <1>3. next \in ServerState /\ next.noisy = srv.noisy /\ next.auth = srv.auth
    <2> DEFINE k == srv.out + 1
    <2>1. next = [srv EXCEPT !.kex = "newkeys", !.out = k] /\ k \in Nat
      BY <1>2 DEF ServerState
    <2> HIDE DEF next, k
    <2>2. next \in ServerState
      BY <1>2, <2>1 DEF ServerState
    <2> QED
      BY <1>2, <2>1, <2>2 DEF ServerState
  <1>4. srv' = next
    BY <1>1 DEF Serves
  <1> HIDE DEF next
  <1>5. PICK e \in Seq(Told) : Acts(e) /\ Words(e, kinds) /\ Serving
    BY <1>1, <1>2, <1>3, ServesActs
  <1>6. Concluded(t, e)
    <2>1. /\ kinds[1][1] = t /\ kinds[1][2] \in {"good", "bad"} /\ kinds[2][1] = "NEWKEYS"
          /\ \/ DOMAIN kinds = {1, 2}
             \/ DOMAIN kinds = {1, 2, 3} /\ kinds[3][1] = "EXT_INFO" /\ srv.out = 0
      BY <1>1 DEF Ends
    <2>2. /\ DOMAIN e = DOMAIN kinds
          /\ \A i \in DOMAIN e : /\ e[i].t = kinds[i][1] /\ e[i].what = kinds[i][2]
                                 /\ (e[i].joined <=> i > 1)
      BY <1>5 DEF Words, Is
    <2>3. 1 \in DOMAIN e /\ 2 \in DOMAIN e
      BY <2>1, <2>2
    <2> QED
      BY <2>1, <2>2, <2>3 DEF Concluded
  <1>7. \A i \in DOMAIN e : e[i].keys = IF Before(e, i, {"NEWKEYS"}) THEN srv.out + 1 ELSE srv.out
    BY <1>5 DEF Words
  <1> QED
    BY <1>4, <1>5, <1>6, <1>7, ConcludedStep DEF next

\* A packet that is not answered.
LEMMA Unanswered ==
    ASSUME IInv, ~srv.left, toServer # <<>>, NEW m, m = Head(toServer), NEW next \in ServerState,
           NEW kinds, kinds = <<>>, Serves(next, kinds),
           next.auth = srv.auth, next.asked = srv.asked, next.noisy = srv.noisy, next.out = srv.out,
           next.in = IF m.t = "NEWKEYS" THEN srv.in + 1 ELSE srv.in, next.auth => next.in = 1,
           m.t = "DISCONNECT" => next.left,
           next.kex = "idle" => srv.kex = "idle" \/ (~c.success /\ ~In(toClient, {"KEXINIT"}))
    PROVE  IInv'
  <1>1. kinds \in Seq(Kinds) /\ DOMAIN kinds = {}
    OBVIOUS
  <1>2. PICK e \in Seq(Told) : Acts(e) /\ Words(e, kinds) /\ Serving /\ srv' = next
    BY <1>1, ServesActs
  <1>3. DOMAIN e = {} /\ Packets(e) = {}
    BY <1>1, <1>2 DEF Words, Packets
  <1>4. Numbered(e) /\ Fitting(e)
    BY <1>2, <1>3 DEF Numbered, Fitting, In
  <1>5. WritingKept
    BY <1>2 DEF WritingKept
  <1>6. ~In(e, {"IGNORE"}) /\ ~In(e, {"DISCONNECT"})
    BY <1>3 DEF In
  <1>7. TypeOK /\ Replied(e)
    BY <1>2 DEF IInv, Acts
  <1>8. Packets(toClient') = Packets(toClient)
    BY <1>3, <1>7, Answering
  <1>9. In(toClient', {"KEXINIT"}) <=> In(toClient, {"KEXINIT"})
    BY <1>8 DEF In
  <1>10. srv'.kex = "idle" => srv.kex = "idle" \/ (~c.success /\ ~In(toClient', {"KEXINIT"}))
    BY <1>2, <1>9
  <1> QED
    BY <1>2, <1>3, <1>4, <1>5, <1>6, <1>10, Answered

LEMMA KexInitServed ==
    ASSUME IInv, ~srv.left, toServer # <<>>, Head(toServer).t = "KEXINIT",
           NEW kinds, kinds = <<>>, Serves([srv EXCEPT !.kex = "init"], kinds)
    PROVE  IInv'
  <1>1. srv \in ServerState /\ Progress
    BY OnTheWay
  <1> DEFINE next == [srv EXCEPT !.kex = "init"]
  <1>2. next \in ServerState /\ next.kex = "init" /\ next.auth = srv.auth /\ next.asked = srv.asked
        /\ next.noisy = srv.noisy /\ next.out = srv.out /\ next.in = srv.in
    BY <1>1 DEF ServerState
  <1>3. next.auth => next.in = 1
    BY <1>1, <1>2 DEF Progress
  <1>4. Serves(next, kinds)
    OBVIOUS
  <1> HIDE DEF next
  <1> QED
    BY <1>2, <1>3, <1>4, Unanswered

LEMMA NewKeysServed ==
    ASSUME IInv, ~srv.left, toServer # <<>>, Head(toServer).t = "NEWKEYS",
           NEW kinds, kinds = <<>>, Serves([srv EXCEPT !.kex = "idle", !.in = @ + 1], kinds)
    PROVE  IInv'
  <1>1. srv \in ServerState /\ Progress /\ Standing /\ srv.in \in Nat
    BY OnTheWay DEF ServerState
  <1>2. In(toServer, {"NEWKEYS"})
    <2>1. toServer \in Seq(Said)
      BY DEF IInv, TypeOK
    <2> QED
      BY <2>1, PacketsShorter DEF In
  <1>3. c.hostOK /\ srv.in = 0
    BY <1>2 DEF IInv, Writing
  <1>4. ~srv.auth /\ ~c.success
    BY <1>1, <1>3 DEF Progress
  <1>5. ~In(toClient, {"KEXINIT"})
    <2>1. \A p \in Packets(toClient) : KexTold(p)
      BY OnTheWay
    <2>2. c.kex # {}
      BY <1>1, <1>3 DEF Standing
    <2>3. \A p \in Packets(toClient) : p.t # "KEXINIT"
      BY <1>4, <2>1, <2>2 DEF KexTold
    <2> QED
      BY <2>3 DEF In
  <1> DEFINE next == [srv EXCEPT !.kex = "idle", !.in = @ + 1]
  <1>6. next \in ServerState /\ next.kex = "idle" /\ next.auth = srv.auth /\ next.asked = srv.asked
        /\ next.noisy = srv.noisy /\ next.out = srv.out /\ next.in = srv.in + 1
    <2> DEFINE k == srv.in + 1
    <2>1. next = [srv EXCEPT !.kex = "idle", !.in = k] /\ k \in Nat
      BY <1>1
    <2> HIDE DEF next, k
    <2>2. next \in ServerState
      BY <1>1, <2>1 DEF ServerState
    <2>3. next.kex = "idle" /\ next.auth = srv.auth /\ next.asked = srv.asked
          /\ next.noisy = srv.noisy /\ next.out = srv.out /\ next.in = k
      BY <1>1, <2>1 DEF ServerState
    <2> QED
      BY <2>2, <2>3 DEF k
  <1>7. Serves(next, kinds)
    OBVIOUS
  <1> HIDE DEF next
  <1> QED
    BY <1>4, <1>5, <1>6, <1>7, Unanswered

LEMMA DisconnectServed ==
    ASSUME IInv, ~srv.left, toServer # <<>>, Head(toServer).t = "DISCONNECT",
           NEW kinds, kinds = <<>>, Serves([srv EXCEPT !.left = TRUE], kinds)
    PROVE  IInv'
  <1>1. srv \in ServerState /\ Progress
    BY OnTheWay
  <1> DEFINE next == [srv EXCEPT !.left = TRUE]
  <1>2. next \in ServerState /\ next.kex = srv.kex /\ next.auth = srv.auth /\ next.asked = srv.asked
        /\ next.noisy = srv.noisy /\ next.out = srv.out /\ next.in = srv.in /\ next.left
    BY <1>1 DEF ServerState
  <1>3. next.auth => next.in = 1
    BY <1>1, <1>2 DEF Progress
  <1>4. Serves(next, kinds)
    OBVIOUS
  <1> HIDE DEF next
  <1> QED
    BY <1>2, <1>3, <1>4, Unanswered

\* The session's channel is opened; the server answers with what it has to show.
Shows == toServer # <<>> /\ Serves(srv, <<<<"DATA", "", 0>>>>)

LEMMA OpenServed ==
    ASSUME IInv, ~srv.left, Head(toServer).t = "OPEN", srv.kex = "idle", Shows
    PROVE  IInv'
  <1>1. srv \in ServerState /\ Progress /\ TypeOK /\ Turns
    BY OnTheWay DEF IInv
  <1> DEFINE k == <<"DATA", "", 0>>
             kinds == <<k>>
  <1>2. k \in Kinds /\ k[1] = "DATA"
    BY DEF Kinds, Types, Transfer, Whats
  <1>3. Serves(srv, kinds) /\ (toServer # <<>>)
    BY DEF Shows
  <1> HIDE DEF k
  <1>4. kinds \in Seq(Kinds) /\ DOMAIN kinds = {1} /\ kinds[1] = k
    BY <1>2, OneOf
  <1> HIDE DEF kinds
  <1>5. PICK e \in Seq(Told) : Acts(e) /\ Words(e, kinds) /\ Serving /\ srv' = srv
    BY <1>1, <1>3, <1>4, ServesActs
  <1>6. DOMAIN e = {1} /\ (\A p \in Packets(e) : p.t = "DATA") /\ e[1].t = "DATA"
    BY <1>2, <1>4, <1>5 DEF Words, Is, Packets
  <1>7. c.success
    <2>1. toServer \in Seq(Said)
      BY <1>1 DEF TypeOK
    <2>2. UserAsked(Head(toServer))
      BY <1>3, <2>1, PacketsShorter, OnTheWay
    <2> QED
      BY <2>2 DEF UserAsked
  <1>8. c.kex = {"done"} /\ c.enabled = Always \cup Transfer /\ c' = c
    BY <1>1, <1>5, <1>7 DEF Progress, Acts
  <1>9. Numbered(e)
    BY <1>2, <1>4, <1>5, WordsNumbered
  <1>10. Fitting(e)
    <2>1. \A p \in Packets(toClient) : p.t \in Always \cup {"DATA"}
      BY <1>7 DEF IInv, LoggingIn
    <2>2. \A p \in Packets(toClient) : p.t # "DISCONNECT"
      BY <1>1 DEF Turns, In
    <2>3. \A p \in Packets(toClient), r \in Packets(e) : MayFollow(p, r.t)
      BY <1>6, <2>1, <2>2 DEF MayFollow, Always
    <2>4. \A i, j \in DOMAIN e : ~(i < j) /\ e[j].t # "EXT_INFO"
      <3>1. \A i \in {1}, j \in {1} : ~(i < j)
        OBVIOUS
      <3> QED
        BY <1>6, <3>1
    <2> QED
      BY <2>3, <2>4 DEF Fitting
  <1>11. WritingKept
    BY <1>5 DEF WritingKept
  <1>12. ~In(toServer', Questions)
    <2>1. Packets(toServer') \subseteq Packets(toServer)
      BY <1>1, <1>5, Served
    <2>2. \A p \in Packets(toServer) : KexAsked(p) /\ UserAsked(p)
      BY OnTheWay
    <2>3. ~Pending /\ ~InAuth
      <3>1. {"done"} # {} /\ {"done"} # {"rekeying"}
        OBVIOUS
      <3> QED
        BY <1>7, <1>8, <3>1 DEF Pending, InAuth
    <2> QED
      BY <2>1, <2>2, <2>3 DEF In, Questions, KexAsked, UserAsked
  <1>13. ~In(e, {"IGNORE"}) /\ ~In(e, {"DISCONNECT"})
    BY <1>6 DEF In
  <1>14. \A p \in Packets(e) : KexTold(p)' /\ UserTold(p)'
    BY <1>6, <1>7, <1>8 DEF KexTold, UserTold, UserAnswers, Auth
  <1>15. srv'.auth => srv'.in = 1 /\ (srv.auth \/ In(e, {"SUCCESS"}))
    BY <1>1, <1>5 DEF Progress
  <1>16. \A p \in Packets(e) : p.t # "KEXINIT" /\ (c.success => p.t \in Always \cup {"DATA"})
    BY <1>6
  <1> QED
    BY <1>5, <1>9, <1>10, <1>11, <1>12, <1>13, <1>14, <1>15, <1>16, Answered

\* The server speaks up with one packet.
SpeaksUp(k) == Replies(srv, <<k>>)

LEMMA SpeaksUpActs ==
    ASSUME IInv, ~srv.left, NEW k \in Kinds, SpeaksUp(k), c' = c, toServer' = toServer, srv' \in ServerState,
           srv.noisy => srv'.noisy, srv'.auth = srv.auth, srv'.out = srv.out,
           k[1] \notin {"NEWKEYS", "31", "33", "EXT_INFO"}
    PROVE  \E e \in Seq(Told) : /\ Acts(e) /\ Numbered(e)
                                /\ \A p \in Packets(e) : p.t = k[1] /\ p.what = k[2]
                                /\ \A i, j \in DOMAIN e : ~(i < j) /\ e[j].t # "EXT_INFO"
  <1> DEFINE kinds == <<k>>
  <1>1. Replies(srv, kinds)
    BY DEF SpeaksUp
  <1>2. kinds \in Seq(Kinds) /\ DOMAIN kinds = {1} /\ kinds[1] = k
    BY OneOf
  <1> HIDE DEF kinds
  <1>3. srv.out \in Nat
    BY OnTheWay DEF ServerState
  <1> DEFINE e == Worded(kinds)
  <1>4. Replied(e) /\ Words(e, kinds)
    BY <1>1, <1>2, <1>3, RepliesDo
  <1> HIDE DEF e
  <1>5. e \in Seq(Told) /\ Acts(e)
    BY <1>4 DEF Words, Acts
  <1>6. Numbered(e)
    BY <1>2, <1>4, WordsNumbered
  <1>7. DOMAIN e = {1} /\ e[1].t = k[1] /\ e[1].what = k[2]
    BY <1>2, <1>4 DEF Words, Is
  <1>8. \A p \in Packets(e) : p.t = k[1] /\ p.what = k[2]
    BY <1>7 DEF Packets
  <1>9. \A i, j \in DOMAIN e : ~(i < j) /\ e[j].t # "EXT_INFO"
    <2>1. \A i \in {1}, j \in {1} : ~(i < j)
      OBVIOUS
    <2> QED
      BY <1>7, <2>1
  <1> QED
    BY <1>5, <1>6, <1>8, <1>9

LEMMA NoiseStep ==
    ASSUME IInv, Noise
    PROVE  IInv'
  <1>1. /\ ~srv.left /\ srv' = [srv EXCEPT !.noisy = TRUE] /\ c' = c /\ toServer' = toServer
        /\ Replies(srv, <<<<"IGNORE", "", 0>>>>)
    BY DEF Noise
  <1>2. srv \in ServerState /\ Progress
    BY OnTheWay
  <1>3. /\ srv' \in ServerState /\ srv'.noisy /\ srv'.kex = srv.kex /\ srv'.in = srv.in /\ srv'.out = srv.out
        /\ srv'.auth = srv.auth /\ srv'.asked = srv.asked /\ srv'.left = srv.left
    BY <1>1, <1>2 DEF ServerState
  <1> DEFINE k == <<"IGNORE", "", 0>>
  <1>4. k \in Kinds /\ k[1] = "IGNORE" /\ SpeaksUp(k)
    BY <1>1 DEF Kinds, Types, Always, Whats, SpeaksUp
  <1> HIDE DEF k
  <1>5. PICK e \in Seq(Told) : /\ Acts(e) /\ Numbered(e)
                               /\ \A p \in Packets(e) : p.t = k[1] /\ p.what = k[2]
                               /\ \A i, j \in DOMAIN e : ~(i < j) /\ e[j].t # "EXT_INFO"
    <2>1. /\ ~srv.left /\ c' = c /\ toServer' = toServer /\ (srv.noisy => srv'.noisy)
          /\ k[1] \notin {"NEWKEYS", "31", "33", "EXT_INFO"}
      BY <1>1, <1>3, <1>4
    <2> QED
      BY <1>3, <1>4, <2>1, SpeaksUpActs
  <1>6. \A p \in Packets(e) : p.t = "IGNORE"
    BY <1>4, <1>5
  <1>7. Fitting(e)
    BY <1>5, <1>6 DEF Fitting, MayFollow, Always
  <1>8. WritingKept
    BY <1>1, <1>3 DEF WritingKept
  <1>9. \A p \in Packets(e) : p.t \in Always /\ KexTold(p)' /\ UserTold(p)'
    BY <1>6 DEF KexTold, UserTold, UserAnswers, Auth, Always
  <1>10. ~In(e, {"DISCONNECT"})
    BY <1>6 DEF In
  <1>11. srv'.auth => srv'.in = 1 /\ srv.auth
    BY <1>2, <1>3 DEF Progress
  <1>12. \A p \in Packets(e) : p.t # "KEXINIT" /\ p.t \in Always \cup {"DATA"}
    BY <1>6, <1>9
  <1> QED
    BY <1>3, <1>5, <1>7, <1>8, <1>9, <1>10, <1>11, <1>12, Answered

LEMMA RekeyStep ==
    ASSUME IInv, Rekey
    PROVE  IInv'
  <1>1. /\ ~srv.left /\ srv.kex = "idle" /\ srv.auth
        /\ srv' = [srv EXCEPT !.kex = "kexinit"] /\ c' = c /\ toServer' = toServer
    BY DEF Rekey
  <1>2. PICK kind \in {"dh", "gex"} : Replies(srv, <<<<"KEXINIT", kind, 0>>>>)
    BY DEF Rekey
  <1>3. srv \in ServerState /\ Progress /\ Turns
    BY OnTheWay DEF IInv
  <1>4. /\ srv' \in ServerState /\ srv'.noisy = srv.noisy /\ srv'.kex = "kexinit" /\ srv'.in = srv.in
        /\ srv'.out = srv.out /\ srv'.auth = srv.auth /\ srv'.asked = srv.asked /\ srv'.left = srv.left
    BY <1>1, <1>3 DEF ServerState
  <1> DEFINE k == <<"KEXINIT", kind, 0>>
  <1>5. k \in Kinds /\ k[1] = "KEXINIT" /\ k[2] \in {"dh", "gex"} /\ SpeaksUp(k)
    BY <1>2 DEF Kinds, Types, Transfer, Whats, SpeaksUp
  <1> HIDE DEF k
  <1>6. PICK e \in Seq(Told) : /\ Acts(e) /\ Numbered(e)
                               /\ \A p \in Packets(e) : p.t = k[1] /\ p.what = k[2]
                               /\ \A i, j \in DOMAIN e : ~(i < j) /\ e[j].t # "EXT_INFO"
    <2>1. /\ ~srv.left /\ c' = c /\ toServer' = toServer /\ (srv.noisy => srv'.noisy)
          /\ k[1] \notin {"NEWKEYS", "31", "33", "EXT_INFO"}
      BY <1>1, <1>4, <1>5
    <2> QED
      BY <1>4, <1>5, <2>1, SpeaksUpActs
  <1>7. \A p \in Packets(e) : p.t = "KEXINIT" /\ p.what \in {"dh", "gex"}
    BY <1>5, <1>6
  <1>8. c.success \/ \E p \in Packets(toClient) : p.t = "SUCCESS"
    BY <1>1 DEF IInv, LoggingIn, In
  <1>9. \A p \in Packets(toClient) : KexTold(p) /\ UserTold(p) /\ p.t \in Types /\ p.t # "DISCONNECT"
    <2>1. \A p \in Packets(toClient) : p.t # "DISCONNECT"
      BY <1>1, <1>3 DEF Turns, In
    <2> QED
      BY <2>1, OnTheWay
  <1>10. /\ c.kex = {"done"} /\ (c.success => c.enabled = Always \cup Transfer)
         /\ \A p \in Packets(toClient) : MayFollow(p, "KEXINIT")
         /\ \A p \in Packets(toServer) : p.t \notin Questions
    <2>1. CASE c.success
      <3>1. c.kex = {"done"} /\ c.enabled = Always \cup Transfer
        BY <1>1, <1>3, <2>1 DEF Progress
      <3>2. \A p \in Packets(toClient) : p.t \in Always \cup {"DATA"}
        BY <1>1, <2>1 DEF IInv, LoggingIn
      <3>3. \A p \in Packets(toClient) : MayFollow(p, "KEXINIT")
        BY <1>9, <3>2 DEF MayFollow, Always
      <3>4. {"done"} # {} /\ {"done"} # {"rekeying"}
        OBVIOUS
      <3>5. ~Pending /\ ~InAuth
        BY <2>1, <3>1, <3>4 DEF Pending, InAuth
      <3>6. \A p \in Packets(toServer) : KexAsked(p) /\ UserAsked(p)
        BY OnTheWay
      <3>7. \A p \in Packets(toServer) : p.t \notin Questions
        BY <3>5, <3>6 DEF Questions, KexAsked, UserAsked
      <3> QED
        BY <3>1, <3>3, <3>7
    <2>2. CASE ~c.success
      <3>1. PICK s \in Packets(toClient) : s.t = "SUCCESS"
        BY <1>8, <2>2
      <3>2. InAuth /\ c.tryed
        BY <1>9, <3>1 DEF UserTold, UserAnswers
      <3>3. c.kex = {"done"}
        BY <3>2 DEF InAuth
      <3>4. ~In(toClient, {"KEXINIT"})
        BY <1>1 DEF IInv, LoggingIn
      <3>5. {"done"} \notin {{}, {"sent"}, {"rekeying"}} /\ {"done"} # {} /\ {"done"} # {"rekeying"}
        OBVIOUS
      <3>6. ~Pending
        BY <3>3, <3>5 DEF Pending
      <3>7. \A p \in Packets(toClient) : p.t \notin {"31", "33", "NEWKEYS", "EXT_INFO", "KEXINIT"}
        BY <1>9, <3>2, <3>3, <3>4, <3>5, <3>6 DEF KexTold, In
      <3>8. \A p \in Packets(toClient) : p.t \in UserAnswers => p.t = "SUCCESS"
        BY <1>1, <1>9 DEF UserTold
      <3>9. \A p \in Packets(toClient) : p.t \in {"IGNORE", "SUCCESS", "DATA"}
        BY <1>9, <3>7, <3>8 DEF Types, Always, Transfer, UserAnswers
      <3>10. \A p \in Packets(toClient) : MayFollow(p, "KEXINIT")
        BY <3>9 DEF MayFollow
      <3>11. ~In(toServer, Questions)
        BY <1>3, <3>1 DEF Turns, Quiet, Always
      <3> QED
        BY <2>2, <3>3, <3>10, <3>11 DEF In
    <2> QED
      BY <2>1, <2>2
  <1>11. Fitting(e)
    BY <1>6, <1>7, <1>10 DEF Fitting
  <1>12. WritingKept
    BY <1>1, <1>4 DEF WritingKept
  <1>13. \A p \in Packets(e) : KexTold(p)' /\ UserTold(p)'
    BY <1>1, <1>4, <1>7, <1>10 DEF KexTold, UserTold, UserAnswers, Auth
  <1>14. ~In(e, {"DISCONNECT"}) /\ ~In(e, {"IGNORE"}) /\ ~In(toServer', Questions)
    BY <1>1, <1>7, <1>10 DEF In
  <1>15. srv'.auth => srv'.in = 1 /\ srv.auth
    BY <1>3, <1>4 DEF Progress
  <1> QED
    BY <1>4, <1>6, <1>11, <1>12, <1>13, <1>14, <1>15, Answered

LEMMA PeerClosesStep ==
    ASSUME IInv, PeerCloses
    PROVE  IInv'
  <1>1. /\ c' = [c EXCEPT !.link = "closing"] /\ srv' = [srv EXCEPT !.left = TRUE]
        /\ toServer' = toServer /\ toClient' = toClient
    BY DEF PeerCloses
  <1>2. c \in ClientState /\ srv \in ServerState /\ c.out = <<>>
    BY OnTheWay
  <1>3. /\ c' \in ClientState /\ c'.out = c.out /\ c'.kex = c.kex /\ c'.enabled = c.enabled /\ c'.kind = c.kind
        /\ c'.derived = c.derived /\ c'.inKeys = c.inKeys /\ c'.outKeys = c.outKeys /\ c'.hostOK = c.hostOK
        /\ c'.hostDlg = c.hostDlg /\ c'.nameOK = c.nameOK /\ c'.success = c.success /\ c'.why = c.why
        /\ c'.link = "closing"
    BY <1>1, <1>2 DEF ClientState
  <1>4. /\ c'.listFirst = c.listFirst /\ c'.listAsked = c.listAsked /\ c'.method = c.method
        /\ c'.tryed = c.tryed /\ c'.retried = c.retried /\ c'.tis = c.tis /\ c'.authDlg = c.authDlg
        /\ c'.handles60 = c.handles60 /\ c'.payload = c.payload
    BY <1>1, <1>2 DEF ClientState
  <1>5. /\ srv' \in ServerState /\ srv'.noisy = srv.noisy /\ srv'.kex = srv.kex /\ srv'.in = srv.in
        /\ srv'.out = srv.out /\ srv'.auth = srv.auth /\ srv'.asked = srv.asked /\ srv'.left
    BY <1>1, <1>2 DEF ServerState
  <1>6. TypeOK'
    BY <1>1, <1>3, <1>5 DEF IInv, TypeOK
  <1>7. Turns'
    BY <1>1, <1>5 DEF IInv, Turns, In, Quiet
  <1>8. Exchanging'
    <2>1. Standing'
      BY <1>3, <1>5 DEF IInv, Exchanging, Standing
    <2>2. \A p \in Packets(toServer) : KexAsked(p)'
      BY <1>3, OnTheWay DEF KexAsked, Pending
    <2>3. \A p \in Packets(toClient) : KexTold(p)'
      BY <1>1, <1>3, <1>5, OnTheWay DEF KexTold, Pending, HasReply
    <2>4. /\ toClient # <<>> /\ Head(toClient).t = "EXT_INFO" /\ c.why = "none" => "EXT_INFO" \in c.enabled
          /\ HasReply => In(toClient, {"NEWKEYS"})
          /\ srv.out = 0 => ~In(toClient, {"NEWKEYS"})
      BY DEF IInv, Exchanging
    <2>5. (HasReply' <=> HasReply) /\ (In(toClient', {"NEWKEYS"}) <=> In(toClient, {"NEWKEYS"}))
      BY <1>1 DEF HasReply
    <2> QED
      BY <1>1, <1>3, <1>5, <2>1, <2>2, <2>3, <2>4, <2>5 DEF Exchanging
  <1>9. Reading'
    BY <1>1, <1>3, <1>5 DEF IInv, Reading, HasReply
  <1>10. Writing'
    BY <1>1, <1>3, <1>5 DEF IInv, Writing
  <1>11. LoggingIn'
    <2>1. \A n : Fits(n)'
      BY <1>5 DEF Fits
    <2>2. InAuth' <=> InAuth
      BY <1>3, <1>4 DEF InAuth, Listing
    <2>3. Progress'
      BY <1>3, <1>4, <1>5, <2>1 DEF IInv, LoggingIn, Progress
    <2>4. \A p \in Packets(toServer) : UserAsked(p)'
      BY <1>3, <1>4, <1>5, <2>1, <2>2, OnTheWay DEF UserAsked
    <2>5. \A p \in Packets(toClient) : UserTold(p)'
      BY <1>3, <1>4, <1>5, <2>1, <2>2, OnTheWay DEF UserTold
    <2> QED
      BY <1>1, <1>3, <1>5, <2>3, <2>4, <2>5 DEF IInv, LoggingIn
  <1> QED
    BY <1>6, <1>7, <1>8, <1>9, <1>10, <1>11 DEF IInv

\* The server takes the packet at the head of its queue.
LEMMA ServeStep ==
    ASSUME IInv, Serve
    PROVE  IInv'
  <1> DEFINE m == Head(toServer)
  <1>1. ~srv.left /\ toServer # <<>>
    BY DEF Serve
  <1>2. m \in Said
    BY <1>1, Shorter DEF IInv, TypeOK
  <1>3. m.t \in ClientTypes
    BY <1>2 DEF Said
  <1>4. CASE m.t = "KEXINIT"
    <2>1. Serves([srv EXCEPT !.kex = "init"], <<>>)
      BY <1>4 DEF Serve
    <2> QED
      BY <1>1, <1>4, <2>1, KexInitServed
  <1>5. CASE m.t = "GEX_REQUEST"
    <2> DEFINE k == <<"31", "group", 0>>
    <2>1. Serves(srv, <<k>>)
      BY <1>5 DEF Serve
    <2>2. KexRequested(m)
      BY <1>1, <1>5 DEF KexRequested, KexAsks
    <2>3. \A x : x = k => Serves(srv, <<x>>)
      BY <2>1
    <2> HIDE DEF k, m
    <2> QED
      BY <1>5, <2>2, <2>3, GexRequestStep DEF k
  <1>6. CASE m.t = "INIT"
    <2>1. Concludes("31") /\ KexRequested(m)
      BY <1>1, <1>6 DEF Serve, KexRequested, KexAsks
    <2> QED
      BY <1>6, <2>1, ConcludesStep
  <1>7. CASE m.t = "GEX_INIT"
    <2>1. Concludes("33") /\ KexRequested(m)
      BY <1>1, <1>7 DEF Serve, KexRequested, KexAsks
    <2> QED
      BY <1>7, <2>1, ConcludesStep
  <1>8. CASE m.t = "NEWKEYS"
    <2>1. Serves([srv EXCEPT !.kex = "idle", !.in = @ + 1], <<>>)
      BY <1>8 DEF Serve
    <2> QED
      BY <1>1, <1>8, <2>1, NewKeysServed
  <1>9. CASE m.t = "SERVICE_REQUEST"
    <2>1. Serves(srv, <<<<"SERVICE_ACCEPT", "", 0>>>>) /\ Requested(m)
      BY <1>1, <1>9 DEF Serve, Requested, UserAsks
    <2> QED
      BY <1>9, <2>1, ServiceRequestStep
  <1>10. CASE m.t = "AUTH"
    <2>1. ServeAuth(m.what) /\ Requested(m)
      BY <1>1, <1>10 DEF Serve, Requested, UserAsks
    <2> QED
      BY <1>10, <2>1, ServeAuthStep
  <1>11. CASE m.t = "INFO_RESPONSE"
    <2>1. (Refuses \/ Accepts \/ Asks) /\ Requested(m)
      BY <1>1, <1>11 DEF Serve, Requested, UserAsks
    <2> QED
      BY <1>11, <2>1, RefusesStep, AcceptsStep, AsksStep
  <1>12. CASE m.t = "OPEN"
    <2>1. CASE srv.kex = "idle"
      <3>1. Serves(srv, <<<<"DATA", "", 0>>>>)
        BY <1>12, <2>1 DEF Serve
      <3> QED
        BY <1>1, <1>12, <2>1, <3>1, OpenServed DEF Shows
    <2>2. CASE srv.kex # "idle"
      <3>1. Serves(srv, <<>>)
        BY <1>12, <2>2 DEF Serve
      <3>2. srv \in ServerState /\ (srv.auth => srv.in = 1)
        BY OnTheWay DEF Progress
      <3> QED
        BY <1>1, <1>12, <2>2, <3>1, <3>2, Unanswered
    <2> QED
      BY <2>1, <2>2
  <1>13. CASE m.t = "DISCONNECT"
    <2>1. Serves([srv EXCEPT !.left = TRUE], <<>>)
      BY <1>13 DEF Serve
    <2> QED
      BY <1>1, <1>13, <2>1, DisconnectServed
  <1> QED
    BY <1>3, <1>4, <1>5, <1>6, <1>7, <1>8, <1>9, <1>10, <1>11, <1>12, <1>13 DEF ClientTypes

-----------------------------------------------------------------------------
(* The invariant.                                                           *)

LEMMA IInvInit == ASSUME Init PROVE IInv
  <1>1. PICK first \in CheckAuthListFirst : c = ClientInit(first)
    BY DEF Init
  <1>2. PICK kind \in {"dh", "gex", "none"} : toClient = <<Packet("KEXINIT", kind, 0, 0, FALSE)>>
    BY DEF Init
  <1> DEFINE p == Packet("KEXINIT", "", 0, 0, FALSE)
             q == Packet("KEXINIT", kind, 0, 0, FALSE)
  <1>3. srv = ServerInit /\ toServer = <<p>> /\ toClient = <<q>>
    BY <1>2 DEF Init
  <1>4. p \in Said /\ p.t = "KEXINIT" /\ p.keys = 0
    BY DEF Packet, Said, ClientTypes, Whats
  <1>5. q \in Told /\ q.t = "KEXINIT" /\ q.keys = 0 /\ q.what \in {"dh", "gex", "none"}
    BY DEF Packet, Told, Types, Transfer, Whats
  <1> HIDE DEF p, q
  <1>6. /\ toServer \in Seq(Said) /\ DOMAIN toServer = {1} /\ toServer[1] = p
        /\ toClient \in Seq(Told) /\ DOMAIN toClient = {1} /\ toClient[1] = q
    BY <1>3, <1>4, <1>5, OneOf
  <1>7. Packets(toServer) = {p} /\ Packets(toClient) = {q}
    BY <1>6 DEF Packets
  <1> DEFINE pl == Packet("IGNORE", "", 0, 0, FALSE)
  <1>8. pl \in Told
    BY DEF Packet, Told, Types, Always, Whats
  <1> HIDE DEF pl
  <1>9. /\ first \in BOOLEAN
        /\ c = [listFirst |-> first, kex |-> {},
                enabled |-> Always \cup {"KEXINIT"}, kind |-> "none",
                derived |-> 0, inKeys |-> 0, outKeys |-> 0,
                hostOK |-> FALSE, hostDlg |-> "none", nameOK |-> FALSE,
                method |-> "none", tryed |-> FALSE, retried |-> 0, tis |-> FALSE, typed |-> FALSE,
                listAsked |-> FALSE, authDlg |-> "none", keyAt |-> 0, keyFinal |-> FALSE,
                handles60 |-> TRUE, payload |-> pl, success |-> FALSE,
                link |-> "up", why |-> "none", out |-> <<>>]
    BY <1>1, SettingAssumption DEF ClientInit, pl
  <1>10. Always \cup {"KEXINIT"} \subseteq Types
    BY DEF Types, Transfer
  <1>11. <<>> \in Seq(Said)
    OBVIOUS
  <1>12. c \in ClientState
    BY <1>8, <1>9, <1>10, <1>11 DEF ClientState, Shown
  <1>13. /\ c.out = <<>> /\ c.kex = {} /\ c.enabled = Always \cup {"KEXINIT"} /\ c.kind = "none"
         /\ c.derived = 0 /\ c.inKeys = 0 /\ c.outKeys = 0 /\ ~c.hostOK /\ c.hostDlg = "none" /\ ~c.nameOK
         /\ ~c.tryed /\ c.retried = 0 /\ ~c.tis /\ c.authDlg = "none" /\ c.handles60 /\ ~c.success
         /\ c.link = "up" /\ c.why = "none"
    BY <1>9
  <1>14. /\ srv.kex = "kexinit" /\ srv.in = 0 /\ srv.out = 0 /\ ~srv.auth /\ srv.asked = -1
         /\ ~srv.left /\ ~srv.noisy
    BY <1>3 DEF ServerInit
  <1>15. srv \in ServerState
    BY <1>3 DEF ServerInit, ServerState
  <1>16. TypeOK
    <2>1. {} \in Stages
      BY DEF Stages
    <2> QED
      BY <1>6, <1>12, <1>13, <1>15, <2>1 DEF TypeOK
  <1>17. \A x \in Packets(toServer) : x.t = "KEXINIT"
    BY <1>4, <1>7
  <1>18. \A x \in Packets(toClient) : x.t = "KEXINIT" /\ x.what \in {"dh", "gex", "none"}
    BY <1>5, <1>7
  <1>19. \A i \in {1}, j \in {1} : ~(i < j) /\ i = j
    OBVIOUS
  <1>20. Turns
    <2>1. \A i, j \in DOMAIN toServer : i = j
      BY <1>6
    <2>2. ~In(toServer, Questions)
      BY <1>17 DEF In, Questions, KexAsks, UserAsks
    <2>3. \A i, j \in DOMAIN toClient : ~(i < j) /\ toClient[i].t = "KEXINIT"
      BY <1>5, <1>6, <1>19
    <2>4. ~In(toClient, {"IGNORE"}) /\ ~In(toClient, {"DISCONNECT"})
      BY <1>18 DEF In
    <2> QED
      BY <2>1, <2>2, <2>3, <2>4 DEF Turns
  <1>21. Exchanging
    <2>1. {} \notin {{"sent"}, {"received"}, {"rekeying"}, {"rekeying", "received"}} /\ "NEWKEYS" \notin c.enabled
      BY <1>13 DEF Always
    <2>2. Standing
      BY <1>13, <2>1 DEF Standing
    <2>3. Pending
      BY <1>13 DEF Pending
    <2>4. \A x \in Packets(toServer) : KexAsked(x)
      BY <1>17 DEF KexAsked, KexAsks
    <2>5. \A x \in Packets(toClient) : KexTold(x)
      BY <1>13, <1>14, <1>18, <2>3 DEF KexTold
    <2>6. ~HasReply /\ ~In(toClient, {"NEWKEYS"})
      BY <1>18 DEF HasReply, IsReply, In
    <2>7. Head(toClient).t # "EXT_INFO"
      BY <1>3, <1>5
    <2> QED
      BY <2>2, <2>4, <2>5, <2>6, <2>7 DEF Exchanging
  <1>22. Keyed(toClient, 0) /\ Keyed(toServer, 0) /\ ~In(toClient, {"NEWKEYS"}) /\ ~HasReply
         /\ ~In(toServer, {"NEWKEYS"}) /\ ~In(toServer, {"DISCONNECT"})
    <2>1. \A i \in DOMAIN toClient : ~Before(toClient, i, {"NEWKEYS"}) /\ toClient[i].keys = 0
      BY <1>5, <1>6, <1>19 DEF Before
    <2>2. \A i \in DOMAIN toServer : ~Before(toServer, i, {"NEWKEYS"}) /\ toServer[i].keys = 0
      BY <1>4, <1>6, <1>19 DEF Before
    <2>3. Keyed(toClient, 0) /\ Keyed(toServer, 0)
      BY <2>1, <2>2 DEF Keyed
    <2> QED
      BY <1>17, <1>18, <2>3 DEF In, HasReply, IsReply
  <1>23. Reading
    BY <1>13, <1>14, <1>22 DEF Reading
  <1>24. Writing
    <2>1. \A i, j \in DOMAIN toServer : i = j
      BY <1>6
    <2> QED
      BY <1>13, <1>14, <1>22, <2>1 DEF Writing
  <1>25. LoggingIn
    <2>1. Progress
      BY <1>13, <1>14 DEF Progress
    <2>2. \A x \in Packets(toServer) : UserAsked(x)
      BY <1>17 DEF UserAsked, UserAsks
    <2>3. \A x \in Packets(toClient) : UserTold(x)
      BY <1>18 DEF UserTold, UserAnswers, Auth
    <2> QED
      BY <1>14, <2>1, <2>2, <2>3 DEF LoggingIn
  <1> QED
    BY <1>16, <1>20, <1>21, <1>23, <1>24, <1>25 DEF IInv

-----------------------------------------------------------------------------
(* What is always handled stays so, and no handler leaves because of a      *)
(* packet that was not expected.                                            *)

Calm(s) == /\ "enabled" \in DOMAIN s /\ "why" \in DOMAIN s
           /\ Always \subseteq s.enabled /\ s.why # "unexpected"

LEMMA CalmSend ==
    ASSUME NEW s, Calm(s), NEW t, NEW what, NEW n
    PROVE  Calm(Send(s, t, what, n))
  BY DEF Calm, Send

LEMMA CalmDispatch ==
    ASSUME NEW s, Calm(s), NEW msgs
    PROVE  Calm(Dispatch(s, msgs)) /\ Calm(Enabling(s, msgs))
  BY DEF Calm, Dispatch, Enabling

LEMMA CalmLeaving ==
    ASSUME NEW s, Calm(s), NEW why \in {"user", "kex", "server"}
    PROVE  Calm(Leaving(s, why))
  <1>1. CASE s.why # "none"
    BY <1>1 DEF Leaving
  <1>2. CASE s.why = "none"
    <2> DEFINE t == Send(s, "DISCONNECT", "", 0)
    <2>1. Calm(t)
      BY CalmSend
    <2>2. Leaving(s, why) = [t EXCEPT !.why = why, !.link = "closing",
             !.authDlg = IF @ = "open" THEN "none" ELSE @,
             !.hostDlg = IF @ = "open" THEN "none" ELSE @]
      BY <1>2 DEF Leaving
    <2> HIDE DEF t
    <2> QED
      BY <2>1, <2>2 DEF Calm
  <1> QED
    BY <1>1, <1>2

LEMMA CalmAuthRequest ==
    ASSUME NEW s, Calm(s)
    PROVE  Calm(AuthRequest(s))
  <1> DEFINE u == [s EXCEPT !.keyAt = @ + 1]
  <1>1. Calm(u)
    BY DEF Calm
  <1>2. Calm(Enabling(s, {"60"})) /\ Calm(Enabling(u, {"60"}))
    BY <1>1, CalmDispatch
  <1>3. \/ AuthRequest(s) = s
        \/ \E what : \/ AuthRequest(s) = Send(s, "AUTH", what, 0)
                     \/ AuthRequest(s) = Send(Enabling(s, {"60"}), "AUTH", what, 0)
                     \/ AuthRequest(s) = Send(Enabling(u, {"60"}), "AUTH", what, 0)
    BY DEF AuthRequest
  <1> HIDE DEF u
  <1> QED
    BY <1>2, <1>3, CalmSend

LEMMA CalmUserauth ==
    ASSUME NEW s, Calm(s)
    PROVE  Calm(Userauth(s))
  <1> DEFINE u == [s EXCEPT !.typed = FALSE]
  <1>1. Calm(u)
    BY DEF Calm
  <1>2. \/ Userauth(s) = AuthRequest(u)
        \/ Userauth(s) = Dispatch(Send(u, "SERVICE_REQUEST", "", 0), {"SERVICE_ACCEPT"})
    BY DEF Userauth
  <1> HIDE DEF u
  <1> QED
    BY <1>1, <1>2, CalmAuthRequest, CalmSend, CalmDispatch

LEMMA CalmFailure ==
    ASSUME NEW s, Calm(s)
    PROVE  Calm(UserauthFailure(s))
  <1> DEFINE u == [s EXCEPT !.tryed = TRUE]
             v == [s EXCEPT !.retried = @ + 1, !.tis = FALSE]
  <1>1. Calm(u) /\ Calm(AdvanceToNextCred(v))
    BY DEF Calm, AdvanceToNextCred
  <1>2. UserauthFailure(s) \in {AuthRequest(u), AuthRequest(s), AdvanceToNextCred(v)}
    BY DEF UserauthFailure
  <1> HIDE DEF u, v
  <1> QED
    BY <1>1, <1>2, CalmAuthRequest

LEMMA CalmInfoReq ==
    ASSUME NEW s, Calm(s)
    PROVE  Calm(InfoReq(s))
  <1> DEFINE u == [s EXCEPT !.typed = FALSE]
             v == [s EXCEPT !.typed = FALSE, !.tis = TRUE]
  <1>1. Calm(u) /\ Calm(AdvanceToNextCred(v))
    BY DEF Calm, AdvanceToNextCred
  <1>2. InfoReq(s) \in {Send(u, "INFO_RESPONSE", "", s.payload.n), AdvanceToNextCred(v)}
    BY DEF InfoReq
  <1> HIDE DEF u, v
  <1> QED
    BY <1>1, <1>2, CalmSend

LEMMA CalmMsg60 ==
    ASSUME NEW s, Calm(s), NEW agrees \in BOOLEAN
    PROVE  Calm(Msg60(s, agrees))
  <1>1. Calm(InfoReq(s))
    BY CalmInfoReq
  <1>2. Calm([s EXCEPT !.handles60 = FALSE])
    BY DEF Calm
  <1>3. \A w : Calm(Send(s, "AUTH", w, 0))
    BY CalmSend
  <1>4. Calm(PkOk(s, agrees))
    <2>1. Calm([Send(s, "AUTH", "signed", 0) EXCEPT !.keyFinal = TRUE])
      <3> DEFINE t == Send(s, "AUTH", "signed", 0)
      <3>1. Calm(t)
        BY <1>3
      <3> HIDE DEF t
      <3>2. Calm([t EXCEPT !.keyFinal = TRUE])
        BY <3>1 DEF Calm
      <3> QED
        BY <3>2 DEF t
    <2> QED
      BY <1>2, <2>1 DEF PkOk
  <1>5. Calm(ChangeReq(s, agrees))
    <2> DEFINE t == Leaving(s, "user")
    <2>1. Calm(t)
      BY CalmLeaving
    <2>2. ChangeReq(s, agrees) \in {Send(s, "AUTH", "newpassword", 0), [t EXCEPT !.handles60 = FALSE]}
      BY DEF ChangeReq
    <2> HIDE DEF t
    <2>3. Calm([t EXCEPT !.handles60 = FALSE])
      BY <2>1 DEF Calm
    <2> QED
      BY <1>3, <2>2, <2>3
  <1>6. Msg60(s, agrees) \in {InfoReq(s), PkOk(s, agrees), ChangeReq(s, agrees), [s EXCEPT !.handles60 = FALSE]}
    BY DEF Msg60
  <1> QED
    BY <1>1, <1>2, <1>4, <1>5, <1>6

LEMMA CalmSuccess ==
    ASSUME NEW s, Calm(s)
    PROVE  Calm(UserauthSuccess(s)) /\ Calm(ServiceAccept(s)) /\ Calm(GexGroup(s))
  <1> DEFINE u == [s EXCEPT !.success = TRUE, !.kex = {"done"}]
             msgs == {"SUCCESS", "FAILURE", "BANNER"} \cup
                     (IF s.method \in {"keyboard", "pageant", "password"} THEN {"60"} ELSE {})
  <1>1. Calm(u)
    BY DEF Calm
  <1>2. /\ UserauthSuccess(s) = Send(Dispatch(u, Transfer), "OPEN", "session", 0)
        /\ ServiceAccept(s) = AuthRequest(Dispatch(s, msgs))
        /\ GexGroup(s) = Dispatch(Send(s, "GEX_INIT", "", 0), {"33"})
    BY DEF UserauthSuccess, ServiceAccept, GexGroup
  <1> HIDE DEF u, msgs
  <1>3. Calm(UserauthSuccess(s))
    BY <1>1, <1>2, CalmSend, CalmDispatch
  <1>4. Calm(ServiceAccept(s))
    BY <1>2, CalmAuthRequest, CalmDispatch
  <1>5. Calm(GexGroup(s))
    BY <1>2, CalmSend, CalmDispatch
  <1> QED
    BY <1>3, <1>4, <1>5

LEMMA CalmKexInit ==
    ASSUME NEW s, Calm(s), NEW kind \in {"none", "dh", "gex"}
    PROVE  Calm(KexInit(s, kind))
  <1> DEFINE u == [s EXCEPT !.kex = {"rekeying"}]
             r == IF s.kex = {"done"} THEN Send(u, "KEXINIT", "", 0) ELSE s
  <1>1. Calm(u)
    BY DEF Calm
  <1>2. Calm(r)
    <2>1. Calm(Send(u, "KEXINIT", "", 0))
      <3> HIDE DEF u
      <3> QED
        BY <1>1, CalmSend
    <2> QED
      BY <2>1
  <1>3. \/ KexInit(s, kind) = Leaving(r, "kex")
        \/ KexInit(s, kind) = Dispatch([Send(r, "GEX_REQUEST", "", 0) EXCEPT !.kind = kind], {"31"})
        \/ KexInit(s, kind) = Dispatch([Send(r, "INIT", "", 0) EXCEPT !.kind = kind], {"31"})
    BY DEF KexInit
  <1> HIDE DEF r
  <1>4. Calm(Leaving(r, "kex"))
    BY <1>2, CalmLeaving
  <1>5. ASSUME NEW t PROVE Calm(Dispatch([Send(r, t, "", 0) EXCEPT !.kind = kind], {"31"}))
    <2> DEFINE v == Send(r, t, "", 0)
               w == [v EXCEPT !.kind = kind]
    <2>1. Calm(v)
      BY <1>2, CalmSend
    <2> HIDE DEF v
    <2>2. Calm(w)
      BY <2>1 DEF Calm
    <2> HIDE DEF w
    <2>3. Calm(Dispatch(w, {"31"}))
      BY <2>2, CalmDispatch
    <2> QED
      BY <2>3 DEF v, w
  <1> QED
    BY <1>3, <1>4, <1>5

LEMMA CalmKexDone ==
    ASSUME NEW s, Calm(s)
    PROVE  Calm(KexDone(s))
  <1> DEFINE u == [s EXCEPT !.nameOK = TRUE]
             v == AdvanceToNextCred(u)
             w == IF "rekeying" \in s.kex THEN Dispatch(s, Transfer) ELSE v
  <1>1. Calm(v)
    BY DEF Calm, AdvanceToNextCred
  <1>2. Calm(Dispatch(s, Transfer))
    BY CalmDispatch
  <1>3. KexDone(s) = [w EXCEPT !.kex = {"done"}]
    BY DEF KexDone
  <1> HIDE DEF v
  <1>4. Calm(w)
    BY <1>1, <1>2
  <1> HIDE DEF w
  <1> QED
    BY <1>3, <1>4 DEF Calm

LEMMA CalmNotify ==
    ASSUME NEW s, Calm(s)
    PROVE  Calm(NotifyHostOK(s))
  <1> DEFINE t == [s EXCEPT !.hostOK = TRUE]
             u == Send(t, "NEWKEYS", "", 0)
             v == [u EXCEPT !.outKeys = t.derived, !.kex = @ \cup {"sent"}]
  <1>1. Calm(t)
    BY DEF Calm
  <1>2. SendNewKeys(t) = IF "received" \in v.kex THEN KexDone(v) ELSE v
    BY DEF SendNewKeys
  <1>3. NotifyHostOK(s) \in {s, t, SendNewKeys(t)}
    BY DEF NotifyHostOK
  <1> HIDE DEF t
  <1>4. Calm(u)
    BY <1>1, CalmSend
  <1> HIDE DEF u
  <1>5. Calm(v)
    BY <1>4 DEF Calm
  <1> HIDE DEF v
  <1>6. Calm(SendNewKeys(t))
    BY <1>2, <1>5, CalmKexDone
  <1> QED
    BY <1>1, <1>3, <1>6

LEMMA CalmReply ==
    ASSUME NEW s, Calm(s), NEW good \in BOOLEAN, NEW known \in BOOLEAN
    PROVE  Calm(KexReply(s, good, known))
  <1> DEFINE u == [s EXCEPT !.derived = @ + 1]
             t == KexFinish(s, good)
  <1>1. Calm(u)
    BY DEF Calm
  <1>2. t \in {Dispatch(u, {"NEWKEYS"}), Leaving(s, "kex")}
    BY DEF KexFinish
  <1>3. KexReply(s, good, known) \in {NotifyHostOK(t), [t EXCEPT !.hostDlg = "posted"]}
    BY DEF KexReply
  <1> HIDE DEF u, t
  <1>4. Calm(t)
    BY <1>1, <1>2, CalmDispatch, CalmLeaving
  <1>5. Calm([t EXCEPT !.hostDlg = "posted"])
    BY <1>4 DEF Calm
  <1> QED
    BY <1>3, <1>4, <1>5, CalmNotify

LEMMA CalmNewKeys ==
    ASSUME NEW s, Calm(s)
    PROVE  Calm(NewKeys(s))
  <1> DEFINE u == [s EXCEPT !.kex = @ \cup {"received"}, !.inKeys = s.derived]
             t == Enabling(u, {"EXT_INFO"})
  <1>1. Calm(u)
    BY DEF Calm
  <1>2. NewKeys(s) \in {t, KexDone(t)}
    BY DEF NewKeys
  <1> HIDE DEF u
  <1>3. Calm(t)
    BY <1>1, CalmDispatch
  <1> HIDE DEF t
  <1> QED
    BY <1>2, <1>3, CalmKexDone

LEMMA CalmHandle ==
    ASSUME NEW s, Calm(s), NEW m, m.t = "KEXINIT" => m.what \in {"none", "dh", "gex"},
           NEW known \in BOOLEAN, NEW agrees \in BOOLEAN
    PROVE  Calm(Handle(s, m, known, agrees))
  <1> DEFINE h == Handle(s, m, known, agrees)
  <1>1. \/ m.t = "KEXINIT" /\ h = KexInit(s, m.what)
        \/ h = GexGroup(s)
        \/ h = KexReply(s, m.what = "good", known)
        \/ h = NewKeys(s)
        \/ h = ServiceAccept(s)
        \/ h = UserauthFailure(s)
        \/ h = UserauthSuccess(s)
        \/ h = Msg60(s, agrees)
        \/ h = Leaving(s, "server")
        \/ h = s
    BY DEF Handle
  <1> HIDE DEF h
  <1>2. m.t = "KEXINIT" => Calm(KexInit(s, m.what))
    BY CalmKexInit
  <1>3. Calm(KexReply(s, m.what = "good", known))
    <2>1. (m.what = "good") \in BOOLEAN
      OBVIOUS
    <2> QED
      BY <2>1, CalmReply
  <1>4. Calm(GexGroup(s)) /\ Calm(ServiceAccept(s)) /\ Calm(UserauthSuccess(s))
    BY CalmSuccess
  <1>5. Calm(NewKeys(s)) /\ Calm(UserauthFailure(s)) /\ Calm(Msg60(s, agrees)) /\ Calm(Leaving(s, "server"))
    BY CalmNewKeys, CalmFailure, CalmMsg60, CalmLeaving
  <1>6. Calm(h)
    BY <1>1, <1>2, <1>3, <1>4, <1>5
  <1> QED
    BY <1>6 DEF h

\* The next packet is one that the client expects, unless it is a request to
\* change the password.
LEMMA HeadExpected ==
    ASSUME IInv, Calm(c), c.why = "none", toClient # <<>>, "changereq" \notin ServerMay
    PROVE  Expected(c, Head(toClient))
  <1> DEFINE m == Head(toClient)
             q == toClient
  <1>1. q \in Seq(Told) /\ q # <<>>
    BY OnTheWay
  <1>2. /\ Packets(q) = {m} \cup Packets(Tail(q)) /\ 1 \in DOMAIN q /\ m = q[1]
        /\ \A i \in DOMAIN q : i \in Nat \ {0}
    BY <1>1, PacketsShorter, Shorter
  <1>3. KexTold(m) /\ UserTold(m) /\ m.t \in Types
    BY <1>2, OnTheWay
  <1>4. \A p \in Packets(q) : p = m \/ MayFollow(m, p.t)
    <2>1. \A i, j \in DOMAIN q : i < j => MayFollow(q[i], q[j].t)
      BY DEF IInv, Turns
    <2>2. \A j \in DOMAIN q : j = 1 \/ 1 < j
      BY <1>2
    <2> QED
      BY <1>2, <2>1, <2>2 DEF Packets
  <1>5. Always \subseteq c.enabled
    BY DEF Calm
  <1>6. m.t = "EXT_INFO" => "EXT_INFO" \in c.enabled
    BY DEF IInv, Exchanging
  <1>7. srv.auth => c.success \/ \E p \in Packets(q) : p.t = "SUCCESS"
    BY DEF IInv, LoggingIn, In
  <1>8. HasReply => \E p \in Packets(q) : IsReply(p)
    BY DEF HasReply
  <1>9. IsReply(m) => m.t \in {"31", "33"}
    BY DEF IsReply
  <1> HIDE DEF m, q
  <1>10. CASE m.t \in Always
    BY <1>5, <1>10 DEF Expected, Always, m
  <1>11. CASE m.t \in {"31", "33"}
    BY <1>3, <1>11 DEF Expected, KexTold, m
  <1>12. CASE m.t = "KEXINIT"
    <2>1. \A p \in Packets(q) : p.t # "SUCCESS"
      BY <1>4, <1>12 DEF MayFollow, IsReply, Always
    <2>2. srv.auth => c.success
      BY <1>7, <2>1
    <2> QED
      BY <1>3, <1>12, <2>2 DEF Expected, KexTold, Transfer, m
  <1>13. CASE m.t = "NEWKEYS"
    <2>1. \A p \in Packets(q) : ~IsReply(p)
      BY <1>4, <1>9, <1>13 DEF MayFollow, IsReply, Always
    <2>2. ~HasReply
      BY <1>8, <2>1
    <2> QED
      BY <1>3, <1>13, <2>2 DEF Expected, KexTold, m
  <1>14. CASE m.t = "EXT_INFO"
    BY <1>6, <1>14 DEF Expected, m
  <1>15. CASE m.t = "DATA"
    BY <1>3, <1>15 DEF Expected, KexTold, Transfer, m
  <1>16. CASE m.t \in {"SERVICE_ACCEPT", "SUCCESS", "FAILURE", "BANNER"}
    BY <1>3, <1>16 DEF Expected, UserTold, Auth, m
  <1>17. CASE m.t = "60"
    <2>1. InAuth /\ "60" \in c.enabled
      BY <1>3, <1>17 DEF UserTold, UserAnswers
    <2> QED
      BY <1>17, <2>1 DEF Expected, InAuth, m
  <1> QED
    BY <1>3, <1>10, <1>11, <1>12, <1>13, <1>14, <1>15, <1>16, <1>17 DEF Types, Transfer, Always

LEMMA CalmClient ==
    ASSUME NEW s, Calm(s), Client(s)
    PROVE  Calm(c')
  BY DEF Calm, Client

LEMMA CalmPacket ==
    ASSUME IInv, Calm(c), HandlePacket, "changereq" \notin ServerMay
    PROVE  Calm(c')
  <1> DEFINE m == Head(toClient)
             s == [c EXCEPT !.payload = m]
  <1>1. PICK known \in BOOLEAN, agrees \in BOOLEAN :
           Client(IF Expected(c, m) THEN Handle(s, m, known, agrees) ELSE Leaving(s, "unexpected"))
    BY DEF HandlePacket
  <1>2. Calm(s)
    BY DEF Calm
  <1>3. toClient # <<>>
    BY DEF HandlePacket
  <1>4. m.t = "KEXINIT" => m.what \in {"none", "dh", "gex"}
    <2>1. KexTold(m)
      BY <1>3, OnTheWay, PacketsShorter
    <2> QED
      BY <2>1 DEF KexTold
  <1>5. c.why = "none" => Expected(c, m)
    BY <1>3, HeadExpected
  <1>6. s.why = c.why
    BY OnTheWay DEF ClientState
  <1>7. Leaving(s, "unexpected") = s \/ Expected(c, m)
    BY <1>5, <1>6 DEF Leaving
  <1>8. Calm(Handle(s, m, known, agrees))
    <2> HIDE DEF m, s
    <2> QED
      BY <1>2, <1>4, CalmHandle
  <1> HIDE DEF m, s
  <1> QED
    BY <1>1, <1>2, <1>7, <1>8, CalmClient

LEMMA CalmStep ==
    ASSUME IInv, Calm(c), [Next]_vars, "changereq" \notin ServerMay
    PROVE  Calm(c')
  <1>1. CASE HandlePacket
    BY <1>1, CalmPacket
  <1>2. CASE ShowHostDialog \/ ShowAuthDialog \/ CloseTCP \/ PeerCloses
    BY <1>2 DEF ShowHostDialog, ShowAuthDialog, CloseTCP, PeerCloses, Dialog, Client, Calm
  <1>3. CASE HostContinue
    <2> DEFINE s == [c EXCEPT !.hostDlg = "none"]
    <2>1. Calm(s) /\ Client(NotifyHostOK(s))
      BY <1>3 DEF HostContinue, Dialog, Calm
    <2> HIDE DEF s
    <2> QED
      BY <2>1, CalmNotify, CalmClient
  <1>4. CASE HostCancel \/ AuthCancel
    <2>1. Client(Leaving(c, "user"))
      BY <1>4 DEF HostCancel, AuthCancel, Dialog
    <2> QED
      BY <2>1, CalmLeaving, CalmClient
  <1>5. CASE AskList
    <2> DEFINE s == [c EXCEPT !.listAsked = TRUE]
    <2>1. Calm(s) /\ Client(Userauth(s))
      BY <1>5 DEF AskList, Dialog, Calm
    <2> HIDE DEF s
    <2> QED
      BY <2>1, CalmUserauth, CalmClient
  <1>6. CASE AuthOK
    <2>1. PICK m \in Methods :
            Client(Userauth([c EXCEPT !.authDlg = "none", !.method = m,
                               !.keyAt = IF m = "pageant" THEN 0 ELSE @,
                               !.keyFinal = IF m = "pageant" THEN FALSE ELSE @]))
      BY <1>6 DEF AuthOK, Dialog
    <2> DEFINE s == [c EXCEPT !.authDlg = "none", !.method = m,
                       !.keyAt = IF m = "pageant" THEN 0 ELSE @,
                       !.keyFinal = IF m = "pageant" THEN FALSE ELSE @]
    <2>2. Calm(s) /\ Client(Userauth(s))
      BY <2>1 DEF Calm
    <2> HIDE DEF s
    <2> QED
      BY <2>2, CalmUserauth, CalmClient
  <1>7. CASE TISOK
    <2> DEFINE s == [c EXCEPT !.authDlg = "none", !.method = "keyboard", !.typed = TRUE]
    <2>1. Calm(s) /\ Client(InfoReq(s))
      BY <1>7 DEF TISOK, Dialog, Calm
    <2> HIDE DEF s
    <2> QED
      BY <2>1, CalmInfoReq, CalmClient
  <1>8. CASE Serve
    <2>1. \A m, k : Serves(m, k) => c' = c
      BY DEF Serves
    <2>2. c' = c
      <3> USE <2>1
      <3>1. \A t : Concludes(t) => c' = c
        BY DEF Concludes
      <3>2. Refuses \/ Accepts \/ Asks => c' = c
        BY DEF Refuses, Accepts, Asks
      <3>3. \A w : ServeAuth(w) => c' = c
        BY <3>2 DEF ServeAuth
      <3>4. toServer # <<>> /\ Head(toServer).t \in ClientTypes
        <4>1. toServer # <<>> /\ toServer \in Seq(Said)
          BY <1>8 DEF Serve, IInv, TypeOK
        <4>2. Head(toServer) \in Said
          BY <4>1, Shorter
        <4> QED
          BY <4>1, <4>2 DEF Said
      <3> QED
        BY <1>8, <3>1, <3>2, <3>3, <3>4 DEF Serve, ClientTypes
    <2> QED
      BY <2>2
  <1>9. CASE Rekey \/ Noise \/ UNCHANGED vars
    BY <1>9 DEF Rekey, Noise, vars
  <1> QED
    BY <1>1, <1>2, <1>3, <1>4, <1>5, <1>6, <1>7, <1>8, <1>9 DEF Next

-----------------------------------------------------------------------------
LEMMA StutterStep ==
    ASSUME IInv, UNCHANGED vars
    PROVE  IInv'
  <1>1. c' = c /\ srv' = srv /\ toServer' = toServer /\ toClient' = toClient
    BY DEF vars
  <1>2. /\ HasReply' <=> HasReply
        /\ Quiet' <=> Quiet
        /\ Pending' <=> Pending
        /\ InAuth' <=> InAuth
        /\ \A n : Fits(n)' <=> Fits(n)
    BY <1>1 DEF HasReply, Quiet, Pending, InAuth, Listing, Fits
  <1>3. TypeOK' /\ Turns' /\ Reading' /\ Writing'
    BY <1>1, <1>2 DEF IInv, TypeOK, Turns, Reading, Writing
  <1>4. Exchanging'
    <2>1. Standing' /\ \A p : (KexAsked(p)' <=> KexAsked(p)) /\ (KexTold(p)' <=> KexTold(p))
      BY <1>1, <1>2, OnTheWay DEF Standing, KexAsked, KexTold
    <2> QED
      BY <1>1, <1>2, <2>1 DEF IInv, Exchanging
  <1>5. LoggingIn'
    <2>1. Progress' /\ \A p : (UserAsked(p)' <=> UserAsked(p)) /\ (UserTold(p)' <=> UserTold(p))
      <3>1. Progress'
        BY <1>1, <1>2, OnTheWay DEF Progress
      <3>2. \A p : (UserAsked(p)' <=> UserAsked(p)) /\ (UserTold(p)' <=> UserTold(p))
        BY <1>1, <1>2 DEF UserAsked, UserTold
      <3> QED
        BY <3>1, <3>2
    <2> QED
      BY <1>1, <2>1 DEF IInv, LoggingIn
  <1> QED
    BY <1>3, <1>4, <1>5 DEF IInv

LEMMA IInvNext == ASSUME IInv, [Next]_vars PROVE IInv'
  <1>1. CASE HandlePacket
    BY <1>1, HandlePacketStep
  <1>2. CASE ShowHostDialog
    BY <1>2, ShowHostDialogStep
  <1>3. CASE ShowAuthDialog
    BY <1>3, ShowAuthDialogStep
  <1>4. CASE HostContinue
    BY <1>4, HostContinueStep
  <1>5. CASE HostCancel \/ AuthCancel
    BY <1>5, CancelStep
  <1>6. CASE AskList
    BY <1>6, AskListStep
  <1>7. CASE AuthOK
    BY <1>7, AuthOKStep
  <1>8. CASE TISOK
    BY <1>8, TISOKStep
  <1>9. CASE CloseTCP
    BY <1>9, CloseTCPStep
  <1>10. CASE Serve
    BY <1>10, ServeStep
  <1>11. CASE Rekey
    BY <1>11, RekeyStep
  <1>12. CASE Noise
    BY <1>12, NoiseStep
  <1>13. CASE PeerCloses
    BY <1>13, PeerClosesStep
  <1>14. CASE UNCHANGED vars
    BY <1>14, StutterStep
  <1> QED
    BY <1>1, <1>2, <1>3, <1>4, <1>5, <1>6, <1>7, <1>8, <1>9, <1>10, <1>11, <1>12, <1>13, <1>14 DEF Next

\* Every reachable state has its types, and what is on its way fits the flags
\* of both sides (ssh.c, auth.c, hosts.c).
THEOREM InvariantHolds == Spec => []IInv
  <1>1. Init => IInv
    BY IInvInit
  <1>2. IInv /\ [Next]_vars => IInv'
    BY IInvNext
  <1> QED
    BY <1>1, <1>2, PTL DEF Spec

\* Both sides change their keys at the same packet, in each direction, however
\* long the user looks at the host's key (ssh2_send_newkeys, handle_SSH2_newkeys).
THEOREM KeysAlwaysAgree == Spec => []KeysAgree
  <1>1. IInv => KeysAgree
    <2> SUFFICES ASSUME IInv PROVE KeysAgree
      OBVIOUS
    <2>1. ASSUME NEW S, NEW q \in Seq(S), q # <<>>, NEW k, Keyed(q, k)
          PROVE  Head(q).keys = k
      <3>1. 1 \in DOMAIN q /\ Head(q) = q[1] /\ \A i \in DOMAIN q : i \in Nat \ {0}
        BY <2>1, Shorter
      <3>2. \A T : ~Before(q, 1, T)
        BY <3>1 DEF Before
      <3> QED
        BY <2>1, <3>1, <3>2 DEF Keyed
    <2>2. toClient \in Seq(Told) /\ toServer \in Seq(Said)
      BY DEF IInv, TypeOK
    <2>3. c.link = "up" => Keyed(toClient, c.inKeys)
      BY DEF IInv, Writing, Reading
    <2>4. ~srv.left => Keyed(toServer, srv.in)
      BY DEF IInv, Writing
    <2> QED
      BY <2>1, <2>2, <2>3, <2>4 DEF KeysAgree
  <1> QED
    BY <1>1, InvariantHolds, PTL

\* Nothing about the user goes out before the host's key was accepted and keys are
\* in use (HOSTS_check_host_key, handle_SSH2_newkeys, end_auth_dlg).
THEOREM NothingGoesBeforeHostOK == Spec => []NothingBeforeHostOK
  <1>1. IInv => NothingBeforeHostOK
    <2> SUFFICES ASSUME IInv, NEW i \in DOMAIN toServer, toServer[i].t \in UserAsks
                 PROVE  toServer[i].keys > 0 /\ c.hostOK /\ c.hostDlg = "none"
      BY DEF NothingBeforeHostOK, UserAsks
    <2>1. UserAsked(toServer[i]) /\ Standing /\ c \in ClientState
      BY OnTheWay DEF Packets
    <2>2. InAuth /\ toServer[i].keys > 0
      BY <2>1 DEF UserAsked
    <2>3. {"done"} \notin {{}, {"received"}}
      OBVIOUS
    <2> QED
      BY <2>1, <2>2, <2>3 DEF InAuth, Standing
  <1> QED
    BY <1>1, InvariantHolds, PTL

\* A set whose members are all equal counts one at most.
LEMMA AtMostOne ==
    ASSUME NEW S, \A x, y \in S : x = y
    PROVE  Cardinality(S) \in {0, 1} /\ (S = {} => Cardinality(S) = 0)
  <1>1. CASE S = {}
    BY <1>1, FS_EmptySet
  <1>2. CASE S # {}
    <2>1. PICK x \in S : TRUE
      BY <1>2
    <2>2. S = {x}
      BY <2>1
    <2> QED
      BY <2>2, FS_Singleton
  <1> QED
    BY <1>1, <1>2

\* The dialog's timers and buttons ask nothing while a request or its answer is on
\* its way, and the server gets as many responses as it asked for (auth.c, ssh.c).
THEOREM RequestsTakeTurns == Spec => []RequestsInTurn
  <1>1. IInv => RequestsInTurn
    <2> SUFFICES ASSUME IInv PROVE RequestsInTurn
      OBVIOUS
    <2>1. /\ \A i, j \in DOMAIN toServer : toServer[i].t \in Questions /\ toServer[j].t \in Questions => i = j
          /\ In(toServer, Questions) => Quiet
          /\ \A i, j \in DOMAIN toClient : i < j => MayFollow(toClient[i], toClient[j].t)
      BY DEF IInv, Turns
    <2>2. toClient \in Seq(Told) /\ toServer \in Seq(Said) /\ \A i \in DOMAIN toClient : i \in Nat
      BY OnTheWay, Shorter DEF IInv, TypeOK
    <2>3. \A i, j \in Requests : i = j
      BY <2>1 DEF Requests, Questions, UserAsks
    <2>4. \A i, j \in Answers : i = j
      <3> SUFFICES ASSUME NEW i \in Answers, NEW j \in Answers, i < j PROVE FALSE
        BY <2>2 DEF Answers
      <3>1. MayFollow(toClient[i], toClient[j].t)
        BY <2>1 DEF Answers
      <3> QED
        BY <3>1 DEF Answers, MayFollow, IsReply, Always
    <2>5. Requests = {} \/ Answers = {}
      <3> SUFFICES ASSUME NEW i \in Requests, NEW j \in Answers PROVE FALSE
        OBVIOUS
      <3>1. In(toServer, Questions)
        BY DEF Requests, In, Packets, Questions, UserAsks
      <3>2. toClient[j].t \in Always
        BY <2>1, <3>1 DEF Quiet, Packets, Answers
      <3> QED
        BY <3>2 DEF Answers, Always
    <2>6. Cardinality(Requests) \in {0, 1} /\ (Requests = {} => Cardinality(Requests) = 0)
      BY <2>3, AtMostOne
    <2>7. Cardinality(Answers) \in {0, 1} /\ (Answers = {} => Cardinality(Answers) = 0)
      BY <2>4, AtMostOne
    <2>8. Underway <= 1
      BY <2>5, <2>6, <2>7 DEF Underway
    <2>9. ASSUME ~srv.noisy, toServer # <<>>, ~srv.left, Head(toServer).t = "INFO_RESPONSE"
          PROVE  Head(toServer).n = srv.asked
      <3>1. UserAsked(Head(toServer))
        BY <2>2, <2>9, PacketsShorter, OnTheWay
      <3> QED
        BY <2>9, <3>1 DEF UserAsked, Fits
    <2> QED
      BY <2>8, <2>9 DEF RequestsInTurn
  <1> QED
    BY <1>1, InvariantHolds, PTL

\* A server that keeps to the protocol, and does not ask for a new password, is never
\* left because of a packet that was not expected (SSH2_handle_packet).
THEOREM NothingIsUnexpected ==
    ASSUME "changereq" \notin ServerMay
    PROVE  Spec => []NothingUnexpected
  <1>1. Init => Calm(c)
    <2> SUFFICES ASSUME Init PROVE Calm(c)
      OBVIOUS
    <2>1. PICK first \in CheckAuthListFirst : c = ClientInit(first)
      BY DEF Init
    <2>2. c.enabled = Always \cup {"KEXINIT"} /\ c.why = "none"
      BY <2>1 DEF ClientInit
    <2>3. c \in ClientState
      BY IInvInit, OnTheWay
    <2> QED
      BY <2>2, <2>3 DEF Calm, ClientState
  <1>2. IInv /\ Calm(c) /\ [Next]_vars => Calm(c)'
    BY CalmStep
  <1>3. Calm(c) => NothingUnexpected
    BY DEF Calm, NothingUnexpected
  <1> QED
    BY <1>1, <1>2, <1>3, InvariantHolds, PTL DEF Spec

=============================================================================
