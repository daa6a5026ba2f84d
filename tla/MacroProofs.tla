----------------------------- MODULE MacroProofs -----------------------------
(***************************************************************************)
(* Proofs about the two parts of the macro language that MCMacro checks.     *)
(*                                                                         *)
(* MacroLink, for every size of the buffers, every macro and any number of    *)
(* macros: no byte is lost between the host and a macro.  The bytes are in     *)
(* three places, the macro's ring, the messages and the terminal, and go from  *)
(* each to the next (Kept).  What may be lost on the way depends on whether    *)
(* the two sides agree that there is a conversation and how it is led          *)
(* (Talking), on the room in the ring that has been given away (Roomy), and    *)
(* on a closing connection being read to its end (Reading, Fetched).          *)
(*                                                                         *)
(* MacroControl, for every macro, nested or not, and every size of the control *)
(* stack: the stack holds nothing of a closed file, what it comes back to is a  *)
(* line of its file, and lines are skipped for one reason at a time.          *)
(***************************************************************************)
EXTENDS MacroLink, MacroControl, SequenceTheorems, WellFoundedInduction, TLAPS

-----------------------------------------------------------------------------
(* The least number of a set.                                               *)

LEMMA LeastOf ==
    ASSUME NEW S \in SUBSET Nat, S # {}
    PROVE  Min(S) \in S /\ \A x \in S : Min(S) <= x
<1> DEFINE less == {p \in Nat \X Nat : p[1] < p[2]}
<1>1. IsWellFoundedOn(less, Nat)
    BY NatLessThanWellFounded DEF OpToRel
<1>2. PICK x \in S : \A y \in S : ~ (<<y, x>> \in less)
    BY <1>1, WFMin
<1>3. ASSUME NEW y \in S PROVE x <= y
    <2>1. x \in Nat /\ y \in Nat /\ ~ (<<y, x>> \in less)
        BY <1>2
    <2>2. y < x => <<y, x>> \in less
        BY <2>1
    <2> QED BY <2>1, <2>2
<1> HIDE DEF less
<1> QED BY <1>3 DEF Min

(* The invariant: of the macro m, the terminal t, the messages q between them, *)
(* n bytes sent and those in g gone.                                         *)

Statuses == {"None", "Starting", "Run", "Wait", "WaitCmndEnd", "WaitCmndResult", "Sleep", "Pause", "End"}
Programs == [status : Statuses, ring : Seq(Nat), sync : BOOLEAN, sent : BOOLEAN, clean : BOOLEAN,
           linked : BOOLEAN, ready : Nat, timer : BOOLEAN, wake : SUBSET Wakeups, target : Nat,
           out : BOOLEAN, loop : {"peek", "get", "idle"}]
Terminals ==
    [port : {"opening", "open", "closing", "closed"}, wire : Seq(Nat), inb : Seq(Nat), rrq : BOOLEAN,
     log : Seq(Nat), ddeLog : BOOLEAN, conv : BOOLEAN, cli : BOOLEAN, adv : BOOLEAN, sync : BOOLEAN,
     recv : BOOLEAN, free : Nat, cmnd : BOOLEAN, closeTT : BOOLEAN, ddeEnd : BOOLEAN,
     proto : BOOLEAN, mem : BOOLEAN, talk : {"keyb", "mem", "quiet"}]
Kinds == {"data", "ready", "cmndend", "terminate", "ddeend"}
Messages == {x \in [kind : Kinds, v : Nat, bytes : Seq(Nat)] : x.kind # "data" => x.bytes = <<>>}

\* The bytes of the ring r, of the messages q and at the terminal s come in the order
\* in which the host sent them, and those of 1..n that are not there are in g.
Ordered(r, q, s) ==
    /\ Rising(r) /\ Rising(s) /\ Precedes(r, s)
    /\ \A i \in 1..Len(q) :
         /\ Rising(q[i].bytes) /\ Precedes(r, q[i].bytes) /\ Precedes(q[i].bytes, s)
         /\ \A j \in i + 1..Len(q) : Precedes(q[i].bytes, q[j].bytes)
Posts(q) == UNION {ToSet(q[i].bytes) : i \in 1..Len(q)}
Kept(r, q, s, n, g) ==
    /\ r \in Seq(Nat) /\ q \in Seq(Messages) /\ s \in Seq(Nat) /\ n \in Nat
    /\ Ordered(r, q, s)
    /\ ToSet(r) \cup Posts(q) \cup ToSet(s) \subseteq 1..n
    /\ 1..n \subseteq ToSet(r) \cup Posts(q) \cup ToSet(s) \cup g
Unfetched(t) == t.log \o t.inb \o t.wire

\* The terminal: what it has fits, and a connection that closes is read to its end.
Reading(t) ==
    /\ Len(t.inb) <= InMax /\ Len(t.log) <= LogSize
    /\ ~t.ddeLog => t.log = <<>>
    /\ t.port = "closing" /\ ~t.rrq => t.wire = <<>>

\* The conversation: both sides agree that there is one, and whether it is synchronous.
IsData(q) == {i \in 1..Len(q) : q[i].kind = "data"}
NoEnd(q) == \A i \in 1..Len(q) : q[i].kind \notin {"terminate", "ddeend"}
Talking(m, t, q) ==
    /\ m.status = "None" => m = NoMacro
    /\ m.status \in {"None", "Starting"} => m.ring = <<>> /\ IsData(q) = {} /\ ~m.linked /\ ~t.conv
    /\ m.status = "Starting" => m = [NoMacro EXCEPT !.status = "Starting"] /\ ~t.sync
    /\ t.ddeLog => m.status = "Starting" \/ t.conv \/ t.ddeEnd \/ t.closeTT
    /\ t.conv => m.linked /\ NoEnd(q) /\ (t.sync <=> m.sync)

\* The room in the macro's ring that the synchronous mode has given away.
Roomy(m, t, q) ==
    /\ Len(m.ring) <= RingSize
    /\ m.sync /\ m.clean /\ m.linked =>
         /\ \A i, j \in IsData(q) : i = j
         /\ \A i \in IsData(q) : Len(m.ring) + Len(q[i].bytes) <= RingSize
         /\ t.conv /\ t.recv => IsData(q) = {} /\ Len(m.ring) + FreeLeft(t) <= RingSize
         /\ ~m.sent => IsData(q) = {} /\ ~(t.conv /\ t.recv)

Underway(m, t, q, n, g) ==
    /\ m \in Programs /\ t \in Terminals
    /\ Kept(m.ring, q, Unfetched(t), n, g)
    /\ Reading(t) /\ Talking(m, t, q) /\ Roomy(m, t, q)

\* OnIdle leaves nothing with the host that the terminal would not come back for.
Fetched(t, g) == t.ddeLog /\ Stranded(t) => ToSet(t.wire) \subseteq g

Inv == Underway(mac, tt, mq, sent, gone) /\ Fetched(tt, gone)
-----------------------------------------------------------------------------
(* Sequences.                                                               *)

LEMMA RestIs ==
    ASSUME NEW s \in Seq(Nat), NEW k \in 0..Len(s)
    PROVE  /\ Rest(s, k) \in Seq(Nat) /\ Len(Rest(s, k)) = Len(s) - k
           /\ \A i \in 1..Len(s) - k : Rest(s, k)[i] = s[i + k]
<1>1. k + 1 \in Int /\ Len(s) \in Int /\ \A i \in k + 1..Len(s) : s[i] \in Nat
    BY LenProperties, ElementOfSeq
<1> QED BY <1>1, SubSeqProperties DEF Rest

LEMMA TakenIs ==
    ASSUME NEW s \in Seq(Nat), NEW k \in 0..Len(s)
    PROVE  /\ Taken(s, k) \in Seq(Nat) /\ Len(Taken(s, k)) = k
           /\ \A i \in 1..k : Taken(s, k)[i] = s[i]
<1>1. k \in Int /\ 1 \in Int /\ \A i \in 1..k : s[i] \in Nat
    BY LenProperties, ElementOfSeq
<1> QED BY <1>1, SubSeqProperties DEF Taken

LEMMA Chained ==
    ASSUME NEW s \in Seq(Nat), NEW t \in Seq(Nat)
    PROVE  /\ s \o t \in Seq(Nat) /\ Len(s \o t) = Len(s) + Len(t)
           /\ \A i \in 1..Len(s) + Len(t) : (s \o t)[i] = IF i <= Len(s) THEN s[i] ELSE t[i - Len(s)]
OBVIOUS

LEMMA Grouped ==
    ASSUME NEW s \in Seq(Nat), NEW t \in Seq(Nat), NEW u \in Seq(Nat)
    PROVE  (s \o t) \o u = s \o (t \o u)
BY ConcatAssociative, SMTT(60)

LEMMA TakenRest ==
    ASSUME NEW s \in Seq(Nat), NEW k \in 0..Len(s)
    PROVE  Taken(s, k) \o Rest(s, k) = s
<1> DEFINE u == Taken(s, k)
           v == Rest(s, k)
<1>1. u \in Seq(Nat) /\ Len(u) = k /\ \A i \in 1..k : u[i] = s[i]
    BY TakenIs
<1>2. v \in Seq(Nat) /\ Len(v) = Len(s) - k /\ \A i \in 1..Len(s) - k : v[i] = s[i + k]
    BY RestIs
<1> HIDE DEF u, v
<1>3. /\ u \o v \in Seq(Nat) /\ Len(u \o v) = Len(u) + Len(v)
      /\ \A i \in 1..Len(u) + Len(v) : (u \o v)[i] = IF i <= Len(u) THEN u[i] ELSE v[i - Len(u)]
    <2>1. u \in Seq(Nat) /\ v \in Seq(Nat)
        BY <1>1, <1>2
    <2> QED BY <2>1, Chained
<1>4. Len(s) \in Nat /\ Len(u \o v) = Len(s)
    BY <1>1, <1>2, <1>3, LenProperties
<1>6. ASSUME NEW i \in 1..Len(s) PROVE (u \o v)[i] = s[i]
    <2>1. CASE i <= k
        BY <1>1, <1>2, <1>3, <1>4, <2>1
    <2>2. CASE ~(i <= k)
        <3>1. i - k \in 1..Len(s) - k /\ (i - k) + k = i
            BY <1>4, <2>2
        <3> QED BY <1>1, <1>2, <1>3, <1>4, <2>2, <3>1
    <2> QED BY <2>1, <2>2
<1>5. u \o v = s
    BY <1>3, <1>4, <1>6, SeqEqual
<1> QED BY <1>5 DEF u, v

LEMMA SetIs ==
    ASSUME NEW s \in Seq(Nat)
    PROVE  /\ ToSet(s) \subseteq Nat /\ \A i \in 1..Len(s) : s[i] \in ToSet(s)
           /\ \A x \in ToSet(s) : \E i \in 1..Len(s) : x = s[i]
BY LenProperties, ElementOfSeq DEF ToSet

LEMMA Nothing ==
    /\ ToSet(<<>>) = {} /\ Rising(<<>>) /\ <<>> \in Seq(Nat)
    /\ \A s : Precedes(<<>>, s) /\ Precedes(s, <<>>)
<1>1. <<>> \in Seq(Nat) /\ Len(<<>>) = 0
    OBVIOUS
<1>2. ToSet(<<>>) = {}
    BY DEF ToSet
<1> QED BY <1>1, <1>2 DEF Rising, Precedes

LEMMA Single ==
    ASSUME NEW x \in Nat
    PROVE  <<x>> \in Seq(Nat) /\ Rising(<<x>>) /\ ToSet(<<x>>) = {x}
<1> DEFINE b == <<x>>
<1>1. b \in Seq(Nat) /\ Len(b) = 1 /\ b[1] = x
    OBVIOUS
<1> HIDE DEF b
<1>2. Rising(b)
    BY <1>1 DEF Rising
<1>3. ToSet(b) = {x}
    <2>1. \A i \in 1..Len(b) : b[i] = x /\ 1 \in 1..Len(b)
        BY <1>1
    <2>2. b[1] \in ToSet(b) /\ \A y \in ToSet(b) : \E i \in 1..Len(b) : y = b[i]
        BY <1>1, SetIs
    <2> QED BY <1>1, <2>1, <2>2
<1> QED BY <1>1, <1>2, <1>3 DEF b

\* A concatenation rises when its parts do and the first precedes the second.
LEMMA Joined ==
    ASSUME NEW s \in Seq(Nat), NEW t \in Seq(Nat)
    PROVE  /\ s \o t \in Seq(Nat) /\ Len(s \o t) = Len(s) + Len(t)
           /\ ToSet(s \o t) = ToSet(s) \cup ToSet(t)
           /\ Rising(s \o t) <=> Rising(s) /\ Rising(t) /\ Precedes(s, t)
<1> DEFINE w == s \o t
<1>1. /\ w \in Seq(Nat) /\ Len(w) = Len(s) + Len(t)
      /\ \A i \in 1..Len(s) + Len(t) : w[i] = IF i <= Len(s) THEN s[i] ELSE t[i - Len(s)]
    BY Chained
<1>2. Len(s) \in Nat /\ Len(t) \in Nat
    BY LenProperties
<1>3. /\ \A i \in 1..Len(s) : i \in 1..Len(w) /\ w[i] = s[i]
      /\ \A i \in 1..Len(t) : i + Len(s) \in 1..Len(w) /\ w[i + Len(s)] = t[i]
      /\ \A i \in 1..Len(w) : \/ i \in 1..Len(s)
                              \/ \E j \in 1..Len(t) : i = j + Len(s)
    <2>1. ASSUME NEW i \in 1..Len(w) PROVE i \in 1..Len(s) \/ (i - Len(s) \in 1..Len(t) /\ i = (i - Len(s)) + Len(s))
        BY <1>1, <1>2
    <2> QED BY <1>1, <1>2, <2>1
<1> HIDE DEF w
<1>4. ToSet(w) = ToSet(s) \cup ToSet(t)
    <2>1. ASSUME NEW x \in ToSet(w) PROVE x \in ToSet(s) \cup ToSet(t)
        <3>1. PICK i \in 1..Len(w) : x = w[i]
            BY <1>1, SetIs
        <3>2. CASE i \in 1..Len(s)
            BY <1>3, <3>1, <3>2, SetIs
        <3>3. CASE \E j \in 1..Len(t) : i = j + Len(s)
            BY <1>3, <3>1, <3>3, SetIs
        <3> QED BY <1>3, <3>2, <3>3
    <2>2. ASSUME NEW x \in ToSet(s) PROVE x \in ToSet(w)
        <3>1. PICK i \in 1..Len(s) : x = s[i]
            BY SetIs
        <3> QED BY <1>1, <1>3, <3>1, SetIs
    <2>3. ASSUME NEW x \in ToSet(t) PROVE x \in ToSet(w)
        <3>1. PICK i \in 1..Len(t) : x = t[i]
            BY SetIs
        <3> QED BY <1>1, <1>3, <3>1, SetIs
    <2> QED BY <2>1, <2>2, <2>3
<1>5. ASSUME Rising(w) PROVE Rising(s) /\ Rising(t) /\ Precedes(s, t)
    <2>1. ASSUME NEW i \in 1..Len(s), NEW j \in 1..Len(s), i < j PROVE s[i] < s[j]
        BY <1>3, <1>5, <2>1 DEF Rising
    <2>2. ASSUME NEW i \in 1..Len(t), NEW j \in 1..Len(t), i < j PROVE t[i] < t[j]
        <3>1. i + Len(s) < j + Len(s)
            BY <1>2, <2>2
        <3> QED BY <1>3, <1>5, <3>1 DEF Rising
    <2>3. ASSUME NEW x \in ToSet(s), NEW y \in ToSet(t) PROVE x < y
        <3>1. PICK i \in 1..Len(s) : x = s[i]
            BY SetIs
        <3>2. PICK j \in 1..Len(t) : y = t[j]
            BY SetIs
        <3>3. i < j + Len(s)
            BY <1>2
        <3> QED BY <1>3, <1>5, <3>1, <3>2, <3>3 DEF Rising
    <2> QED BY <2>1, <2>2, <2>3 DEF Rising, Precedes
<1>6. ASSUME Rising(s), Rising(t), Precedes(s, t) PROVE Rising(w)
    <2> SUFFICES ASSUME NEW i \in 1..Len(w), NEW j \in 1..Len(w), i < j PROVE w[i] < w[j]
        BY DEF Rising
    <2>1. CASE i \in 1..Len(s) /\ j \in 1..Len(s)
        BY <1>3, <1>6, <2>1 DEF Rising
    <2>2. CASE i \in 1..Len(s) /\ \E k \in 1..Len(t) : j = k + Len(s)
        <3>1. PICK k \in 1..Len(t) : j = k + Len(s)
            BY <2>2
        <3>2. w[i] \in ToSet(s) /\ w[j] \in ToSet(t)
            BY <1>3, <2>2, <3>1, SetIs
        <3> QED BY <1>6, <3>2 DEF Precedes
    <2>3. CASE \E k \in 1..Len(t) : i = k + Len(s)
        <3>1. PICK k \in 1..Len(t) : i = k + Len(s)
            BY <2>3
        <3>2. j \notin 1..Len(s)
            BY <1>2, <3>1
        <3>3. PICK l \in 1..Len(t) : j = l + Len(s)
            BY <1>3, <3>2
        <3>4. k < l
            BY <1>2, <3>1, <3>3
        <3> QED BY <1>3, <1>6, <3>1, <3>3, <3>4 DEF Rising
    <2> QED BY <1>3, <2>1, <2>2, <2>3
<1> QED BY <1>1, <1>4, <1>5, <1>6 DEF w

\* The two parts of a sequence.
LEMMA Parted ==
    ASSUME NEW s \in Seq(Nat), NEW k \in 0..Len(s)
    PROVE  /\ Taken(s, k) \in Seq(Nat) /\ Rest(s, k) \in Seq(Nat)
           /\ ToSet(s) = ToSet(Taken(s, k)) \cup ToSet(Rest(s, k))
           /\ Rising(s) => Rising(Taken(s, k)) /\ Rising(Rest(s, k))
<1>1. Taken(s, k) \in Seq(Nat) /\ Rest(s, k) \in Seq(Nat) /\ Taken(s, k) \o Rest(s, k) = s
    BY TakenIs, RestIs, TakenRest
<1>2. /\ ToSet(Taken(s, k) \o Rest(s, k)) = ToSet(Taken(s, k)) \cup ToSet(Rest(s, k))
      /\ Rising(Taken(s, k) \o Rest(s, k)) => Rising(Taken(s, k)) /\ Rising(Rest(s, k))
    BY <1>1, Joined
<1> QED BY <1>1, <1>2

LEMMA LesserOf ==
    ASSUME NEW a \in Nat, NEW b \in Nat
    PROVE  Min({a, b}) \in Nat /\ Min({a, b}) <= a /\ Min({a, b}) <= b /\ Min({a, b}) \in {a, b}
BY LeastOf

LEMMA NewestIs ==
    ASSUME NEW s \in Seq(Nat), NEW size \in Nat
    PROVE  /\ Newest(s, size) \in Seq(Nat) /\ Len(Newest(s, size)) <= size
           /\ ToSet(Newest(s, size)) \subseteq ToSet(s)
           /\ Rising(s) => Rising(Newest(s, size))
           /\ Len(s) <= size => Newest(s, size) = s
<1> DEFINE k == IF Len(s) > size THEN Len(s) - size ELSE 0
<1>1. k \in 0..Len(s) /\ Len(s) - k <= size /\ (Len(s) <= size => k = 0)
    BY LenProperties
<1>2. Newest(s, size) = Rest(s, k)
    BY DEF Newest
<1> HIDE DEF k
<1>3. Len(Rest(s, k)) = Len(s) - k
    BY <1>1, RestIs
<1>4. Rest(s, 0) = s
    BY SubSeqFull DEF Rest
<1> QED BY <1>1, <1>2, <1>3, <1>4, Parted

-----------------------------------------------------------------------------
(* Bytes on their way: what a step of either side may do to them.           *)

\* t is left of s: what is missing is in g.
LeftOf(s, t, g) ==
    t \in Seq(Nat) /\ Rising(t) /\ ToSet(t) \subseteq ToSet(s) /\ ToSet(s) \subseteq ToSet(t) \cup g

LEMMA MessageIs ==
    ASSUME NEW q \in Seq(Messages)
    PROVE  /\ Len(q) \in Nat
           /\ \A i \in 1..Len(q) : q[i] \in Messages /\ q[i].bytes \in Seq(Nat) /\ q[i].v \in Nat
BY LenProperties, ElementOfSeq DEF Messages

LEMMA PostsHas ==
    ASSUME NEW q
    PROVE  /\ \A i \in 1..Len(q) : ToSet(q[i].bytes) \subseteq Posts(q)
           /\ \A x \in Posts(q) : \E i \in 1..Len(q) : x \in ToSet(q[i].bytes)
BY DEF Posts

\* Bytes are read or given up at the macro's end and at the host's.
LEMMA Thins ==
    ASSUME NEW r, NEW q, NEW s, NEW n, NEW g, NEW r2, NEW s2, NEW g2,
           Kept(r, q, s, n, g), LeftOf(r, r2, g2), LeftOf(s, s2, g2), g \subseteq g2
    PROVE  Kept(r2, q, s2, n, g2)
<1>1. /\ r \in Seq(Nat) /\ q \in Seq(Messages) /\ s \in Seq(Nat) /\ n \in Nat /\ Ordered(r, q, s)
      /\ ToSet(r) \cup Posts(q) \cup ToSet(s) \subseteq 1..n
      /\ 1..n \subseteq ToSet(r) \cup Posts(q) \cup ToSet(s) \cup g
    BY DEF Kept
<1>2. /\ r2 \in Seq(Nat) /\ Rising(r2) /\ ToSet(r2) \subseteq ToSet(r) /\ ToSet(r) \subseteq ToSet(r2) \cup g2
      /\ s2 \in Seq(Nat) /\ Rising(s2) /\ ToSet(s2) \subseteq ToSet(s) /\ ToSet(s) \subseteq ToSet(s2) \cup g2
    BY DEF LeftOf
<1>3. Ordered(r2, q, s2)
    BY <1>1, <1>2 DEF Ordered, Precedes
<1>4. /\ ToSet(r2) \cup Posts(q) \cup ToSet(s2) \subseteq 1..n
      /\ 1..n \subseteq ToSet(r2) \cup Posts(q) \cup ToSet(s2) \cup g2
    BY <1>1, <1>2
<1> QED BY <1>1, <1>2, <1>3, <1>4 DEF Kept

LEMMA KeptWhole ==
    ASSUME NEW r, NEW q, NEW s, NEW n, NEW g, NEW g2, Kept(r, q, s, n, g)
    PROVE  LeftOf(r, r, g2) /\ LeftOf(s, s, g2)
BY DEF Kept, Ordered, LeftOf

LEMMA GoneGrows ==
    ASSUME NEW r, NEW q, NEW s, NEW n, NEW g, NEW g2, Kept(r, q, s, n, g), g \subseteq g2
    PROVE  Kept(r, q, s, n, g2)
BY Thins, KeptWhole

\* The host sends the next byte.
LEMMA HostAdds ==
    ASSUME NEW r, NEW q, NEW s, NEW n, NEW g, Kept(r, q, s, n, g)
    PROVE  Kept(r, q, s \o <<n + 1>>, n + 1, g)
<1> DEFINE b == <<n + 1>>
           s2 == s \o b
<1>1. /\ r \in Seq(Nat) /\ q \in Seq(Messages) /\ s \in Seq(Nat) /\ n \in Nat /\ Ordered(r, q, s)
      /\ ToSet(r) \subseteq 1..n /\ Posts(q) \subseteq 1..n /\ ToSet(s) \subseteq 1..n
      /\ 1..n \subseteq ToSet(r) \cup Posts(q) \cup ToSet(s) \cup g
    BY DEF Kept
<1>2. b \in Seq(Nat) /\ Rising(b) /\ ToSet(b) = {n + 1}
    BY <1>1, Single
<1> HIDE DEF b
<1>3. Precedes(r, b) /\ Precedes(s, b)
    BY <1>1, <1>2 DEF Precedes
<1>4. ASSUME NEW i \in 1..Len(q) PROVE Precedes(q[i].bytes, b)
    <2>1. ToSet(q[i].bytes) \subseteq 1..n
        BY <1>1, PostsHas
    <2> QED BY <1>1, <1>2, <2>1 DEF Precedes
<1>5. s2 \in Seq(Nat) /\ Rising(s2) /\ ToSet(s2) = ToSet(s) \cup {n + 1}
    BY <1>1, <1>2, <1>3, Joined DEF Ordered
<1> HIDE DEF s2
<1>6. Ordered(r, q, s2)
    BY <1>1, <1>2, <1>3, <1>4, <1>5 DEF Ordered, Precedes
<1>7. n + 1 \in Nat /\ 1..n + 1 = 1..n \cup {n + 1}
    BY <1>1
<1>8. Kept(r, q, s2, n + 1, g)
    BY <1>1, <1>5, <1>6, <1>7 DEF Kept
<1> QED BY <1>8 DEF s2, b

\* The terminal posts a message, with its bytes if it is one of data.
LEMMA Added ==
    ASSUME NEW q \in Seq(Messages), NEW x \in Messages
    PROVE  /\ q \o <<x>> \in Seq(Messages) /\ Len(q \o <<x>>) = Len(q) + 1
           /\ \A i \in 1..Len(q) : (q \o <<x>>)[i] = q[i]
           /\ (q \o <<x>>)[Len(q) + 1] = x
<1>1. <<x>> \in Seq(Messages) /\ Len(<<x>>) = 1 /\ <<x>>[1] = x /\ Len(q) \in Nat
    BY LenProperties
<1>2. /\ q \o <<x>> \in Seq(Messages) /\ Len(q \o <<x>>) = Len(q) + 1
      /\ \A i \in 1..Len(q) + 1 : (q \o <<x>>)[i] = IF i <= Len(q) THEN q[i] ELSE <<x>>[i - Len(q)]
    BY <1>1, ConcatProperties
<1> QED BY <1>1, <1>2

LEMMA Hands ==
    ASSUME NEW r, NEW q, NEW x \in Messages, NEW s \in Seq(Nat), NEW n, NEW g,
           Kept(r, q, x.bytes \o s, n, g)
    PROVE  Kept(r, q \o <<x>>, s, n, g)
<1> DEFINE u == x.bytes
           q2 == q \o <<x>>
<1>0. u \in Seq(Nat)
    BY DEF Messages
<1>1. /\ r \in Seq(Nat) /\ q \in Seq(Messages) /\ n \in Nat /\ Ordered(r, q, u \o s)
      /\ ToSet(r) \cup Posts(q) \cup ToSet(u \o s) \subseteq 1..n
      /\ 1..n \subseteq ToSet(r) \cup Posts(q) \cup ToSet(u \o s) \cup g
    BY DEF Kept
<1>2. /\ Len(q) \in Nat /\ q2 \in Seq(Messages) /\ Len(q2) = Len(q) + 1
      /\ \A i \in 1..Len(q) : q2[i] = q[i]
      /\ q2[Len(q) + 1].bytes = u
    BY <1>1, Added, LenProperties
<1>3. /\ ToSet(u \o s) = ToSet(u) \cup ToSet(s)
      /\ Rising(u \o s) => Rising(u) /\ Rising(s) /\ Precedes(u, s)
    BY <1>0, Joined
<1> HIDE DEF q2, u
<1>4. /\ Rising(r) /\ Rising(u) /\ Rising(s) /\ Precedes(u, s) /\ Precedes(r, u) /\ Precedes(r, s)
      /\ \A i \in 1..Len(q) :
           /\ Rising(q[i].bytes) /\ Precedes(r, q[i].bytes)
           /\ Precedes(q[i].bytes, u) /\ Precedes(q[i].bytes, s)
           /\ \A j \in i + 1..Len(q) : Precedes(q[i].bytes, q[j].bytes)
    BY <1>1, <1>3 DEF Ordered, Precedes
<1>5. Ordered(r, q2, s)
    <2>1. ASSUME NEW i \in 1..Len(q2)
          PROVE  /\ Rising(q2[i].bytes) /\ Precedes(r, q2[i].bytes) /\ Precedes(q2[i].bytes, s)
                 /\ \A j \in i + 1..Len(q2) : Precedes(q2[i].bytes, q2[j].bytes)
        <3>1. CASE i \in 1..Len(q)
            <4>1. ASSUME NEW j \in i + 1..Len(q2) PROVE (j \in i + 1..Len(q) /\ j \in 1..Len(q)) \/ j = Len(q) + 1
                BY <1>2, <3>1
            <4> QED BY <1>2, <1>4, <3>1, <4>1
        <3>2. CASE i = Len(q) + 1
            BY <1>2, <1>4, <3>2
        <3> QED BY <1>2, <3>1, <3>2
    <2> QED BY <1>4, <2>1 DEF Ordered
<1>6. Posts(q2) = Posts(q) \cup ToSet(u)
    <2>1. ASSUME NEW y \in Posts(q2) PROVE y \in Posts(q) \cup ToSet(u)
        <3>1. PICK i \in 1..Len(q2) : y \in ToSet(q2[i].bytes)
            BY PostsHas
        <3>2. i \in 1..Len(q) \/ i = Len(q) + 1
            BY <1>2
        <3> QED BY <1>2, <3>1, <3>2, PostsHas
    <2>2. ASSUME NEW y \in Posts(q) PROVE y \in Posts(q2)
        <3>1. PICK i \in 1..Len(q) : y \in ToSet(q[i].bytes)
            BY PostsHas
        <3>2. i \in 1..Len(q2) /\ q2[i] = q[i]
            BY <1>2
        <3> QED BY <3>1, <3>2, PostsHas
    <2>3. Len(q) + 1 \in 1..Len(q2)
        BY <1>2
    <2>4. ToSet(u) \subseteq Posts(q2)
        BY <1>2, <2>3, PostsHas
    <2> QED BY <2>1, <2>2, <2>4
<1>7. Kept(r, q2, s, n, g)
    BY <1>1, <1>2, <1>3, <1>5, <1>6 DEF Kept
<1> QED BY <1>7 DEF q2

LEMMA PostedIs ==
    ASSUME NEW kind \in Kinds \ {"data"}, NEW v \in Nat
    PROVE  \E x \in Messages : Posted(kind, v) = <<x>> /\ x.kind = kind /\ x.bytes = <<>>
<1>1. Message(kind, v, <<>>) \in Messages /\ Message(kind, v, <<>>).kind = kind
      /\ Message(kind, v, <<>>).bytes = <<>>
    BY Nothing DEF Message, Messages
<1> QED BY <1>1 DEF Posted

\* The macro takes the next message: its bytes follow those in the ring.
LEMMA Takes ==
    ASSUME NEW r, NEW q, NEW s, NEW n, NEW g, Kept(r, q, s, n, g), q # <<>>
    PROVE  Kept(r \o Head(q).bytes, Tail(q), s, n, g)
<1> DEFINE u == Head(q).bytes
           q2 == Tail(q)
<1>1. /\ r \in Seq(Nat) /\ q \in Seq(Messages) /\ s \in Seq(Nat) /\ n \in Nat /\ Ordered(r, q, s)
      /\ ToSet(r) \cup Posts(q) \cup ToSet(s) \subseteq 1..n
      /\ 1..n \subseteq ToSet(r) \cup Posts(q) \cup ToSet(s) \cup g
    BY DEF Kept
<1>2. /\ Head(q) = q[1] /\ q2 \in Seq(Messages) /\ Len(q2) = Len(q) - 1
      /\ \A i \in 1..Len(q2) : q2[i] = q[i + 1]
      /\ Len(q) \in Nat /\ Len(q) >= 1 /\ u \in Seq(Nat)
    <2>1. Len(q) \in Nat /\ Len(q) # 0 /\ Head(q) = q[1]
        BY <1>1, EmptySeq, LenProperties, HeadTailProperties
    <2> QED BY <1>1, <2>1, HeadTailProperties, MessageIs
<1>3. u = q[1].bytes
    BY <1>2
<1> HIDE DEF q2, u
<1>4. /\ Rising(r) /\ Rising(u) /\ Rising(s) /\ Precedes(r, u) /\ Precedes(r, s) /\ Precedes(u, s)
      /\ \A i \in 1..Len(q2) :
           /\ i + 1 \in 1..Len(q) /\ Rising(q2[i].bytes) /\ Precedes(r, q2[i].bytes)
           /\ Precedes(u, q2[i].bytes) /\ Precedes(q2[i].bytes, s)
    <2>1. 1 \in 1..Len(q) /\ \A i \in 1..Len(q2) : i + 1 \in 1..Len(q) /\ i + 1 \in 1 + 1..Len(q)
        BY <1>2
    <2> QED BY <1>1, <1>2, <1>3, <2>1 DEF Ordered
<1>5. /\ r \o u \in Seq(Nat) /\ Rising(r \o u) /\ ToSet(r \o u) = ToSet(r) \cup ToSet(u)
    BY <1>1, <1>2, <1>4, Joined
<1>6. ASSUME NEW i \in 1..Len(q2), NEW j \in i + 1..Len(q2) PROVE Precedes(q2[i].bytes, q2[j].bytes)
    <2>1. /\ i + 1 \in 1..Len(q) /\ j + 1 \in (i + 1) + 1..Len(q) /\ j \in 1..Len(q2)
        BY <1>2
    <2> QED BY <1>1, <1>2, <2>1 DEF Ordered
<1>7. Ordered(r \o u, q2, s)
    BY <1>4, <1>5, <1>6 DEF Ordered, Precedes
<1>8. Posts(q) = ToSet(u) \cup Posts(q2)
    <2>1. ASSUME NEW y \in Posts(q) PROVE y \in ToSet(u) \cup Posts(q2)
        <3>1. PICK i \in 1..Len(q) : y \in ToSet(q[i].bytes)
            BY PostsHas
        <3>2. CASE i = 1
            BY <1>3, <3>1, <3>2
        <3>3. CASE i # 1
            <4>1. i - 1 \in 1..Len(q2) /\ (i - 1) + 1 = i
                BY <1>2, <3>3
            <4>2. q2[i - 1] = q[i]
                BY <1>2, <4>1
            <4> QED BY <3>1, <4>1, <4>2, PostsHas
        <3> QED BY <3>2, <3>3
    <2>2. ASSUME NEW y \in Posts(q2) PROVE y \in Posts(q)
        <3>1. PICK i \in 1..Len(q2) : y \in ToSet(q2[i].bytes)
            BY PostsHas
        <3>2. i + 1 \in 1..Len(q) /\ q2[i] = q[i + 1]
            BY <1>2, <1>4
        <3> QED BY <3>1, <3>2, PostsHas
    <2>3. 1 \in 1..Len(q)
        BY <1>2
    <2>4. ToSet(u) \subseteq Posts(q)
        BY <1>3, <2>3, PostsHas
    <2> QED BY <2>1, <2>2, <2>4
<1>9. Kept(r \o u, q2, s, n, g)
    BY <1>1, <1>2, <1>5, <1>7, <1>8 DEF Kept
<1> QED BY <1>9 DEF q2, u

\* The macro starts anew.
LEMMA Wipes ==
    ASSUME NEW r, NEW q, NEW s, NEW n, NEW g, NEW g2, Kept(r, q, s, n, g),
           g \subseteq g2, ToSet(r) \subseteq g2, Posts(q) \subseteq g2
    PROVE  Kept(<<>>, <<>>, s, n, g2)
<1>1. Posts(<<>>) = {} /\ <<>> \in Seq(Messages) /\ Len(<<>>) = 0
    BY DEF Posts
<1>2. Ordered(<<>>, <<>>, s)
    BY <1>1, Nothing DEF Ordered, Kept
<1> QED BY <1>1, <1>2, Nothing DEF Kept

LEMMA NoPosts ==
    ASSUME NEW q \in Seq(Messages), IsData(q) = {}
    PROVE  Posts(q) = {}
<1>1. ASSUME NEW i \in 1..Len(q) PROVE ToSet(q[i].bytes) = {}
    BY Nothing, MessageIs DEF IsData, Messages
<1> QED BY <1>1 DEF Posts

-----------------------------------------------------------------------------
(* What the parts of the invariant look at.                                 *)

LinkOf(t) == <<t.ddeLog, t.conv, t.ddeEnd, t.closeTT, t.sync, t.recv, t.free>>
Alike(t, u) ==
    /\ u \in Terminals /\ LinkOf(u) = LinkOf(t)
    /\ u.log = t.log /\ u.inb = t.inb /\ u.wire = t.wire /\ u.rrq = t.rrq /\ u.port = t.port

LEMMA SameLink ==
    ASSUME NEW m, NEW t, NEW u, NEW q, LinkOf(u) = LinkOf(t)
    PROVE  /\ Talking(m, t, q) => Talking(m, u, q)
           /\ Roomy(m, t, q) => Roomy(m, u, q)
           /\ u.ddeLog = t.ddeLog /\ u.conv = t.conv /\ u.ddeEnd = t.ddeEnd /\ u.closeTT = t.closeTT
           /\ u.sync = t.sync /\ u.recv = t.recv /\ u.free = t.free
<1>1. /\ u.ddeLog = t.ddeLog /\ u.conv = t.conv /\ u.ddeEnd = t.ddeEnd /\ u.closeTT = t.closeTT
      /\ u.sync = t.sync /\ u.recv = t.recv /\ u.free = t.free
    BY DEF LinkOf
<1>2. FreeLeft(u) = FreeLeft(t)
    BY <1>1 DEF FreeLeft
<1>3. Talking(m, t, q) => Talking(m, u, q)
    BY <1>1 DEF Talking
<1>4. Roomy(m, t, q) => Roomy(m, u, q)
    BY <1>1, <1>2 DEF Roomy
<1> QED BY <1>1, <1>3, <1>4

LEMMA AlikeStays ==
    ASSUME NEW m, NEW t, NEW u, NEW q, NEW n, NEW g, Alike(t, u)
    PROVE  /\ Underway(m, t, q, n, g) => Underway(m, u, q, n, g)
           /\ Fetched(t, g) => Fetched(u, g)
<1>1. /\ u \in Terminals /\ LinkOf(u) = LinkOf(t)
      /\ u.log = t.log /\ u.inb = t.inb /\ u.wire = t.wire /\ u.rrq = t.rrq /\ u.port = t.port
    BY DEF Alike
<1>2. u.ddeLog = t.ddeLog
    BY <1>1, SameLink
<1>3. Unfetched(u) = Unfetched(t) /\ (Reading(t) => Reading(u)) /\ (Fetched(t, g) => Fetched(u, g))
    BY <1>1, <1>2 DEF Unfetched, Reading, Fetched, Stranded
<1>4. /\ Talking(m, t, q) => Talking(m, u, q)
      /\ Roomy(m, t, q) => Roomy(m, u, q)
    BY <1>1, SameLink
<1> QED BY <1>1, <1>3, <1>4 DEF Underway

\* The terminal posts a message without data, that the conversation is over if it is.
LEMMA Posting ==
    ASSUME NEW m, NEW t, NEW q, NEW n, NEW g, Underway(m, t, q, n, g),
           NEW kind \in Kinds \ {"data"}, t.conv => kind \notin {"terminate", "ddeend"}, NEW v \in Nat
    PROVE  Underway(m, t, q \o Posted(kind, v), n, g)
<1>1. PICK x \in Messages : Posted(kind, v) = <<x>> /\ x.kind = kind /\ x.bytes = <<>>
    BY PostedIs
<1> DEFINE q2 == q \o <<x>>
<1>2. /\ m \in Programs /\ t \in Terminals /\ Kept(m.ring, q, Unfetched(t), n, g)
      /\ Reading(t) /\ Talking(m, t, q) /\ Roomy(m, t, q)
    BY DEF Underway
<1>3. q \in Seq(Messages) /\ Unfetched(t) \in Seq(Nat)
    BY <1>2 DEF Kept
<1>4. x.bytes \o Unfetched(t) = Unfetched(t)
    BY <1>1, <1>3, ConcatEmptySeq
<1>5. Kept(m.ring, q2, Unfetched(t), n, g)
    BY <1>2, <1>3, <1>4, Hands
<1>6. /\ Len(q) \in Nat /\ Len(q2) = Len(q) + 1
      /\ \A i \in 1..Len(q) : q2[i] = q[i]
      /\ q2[Len(q) + 1] = x
    BY <1>3, Added, LenProperties
<1> HIDE DEF q2
<1>7. /\ \A i \in 1..Len(q2) : i \in 1..Len(q) \/ i = Len(q) + 1
      /\ \A i \in 1..Len(q) : i \in 1..Len(q2)
    BY <1>6
<1>8. x.kind # "data" /\ (t.conv => x.kind \notin {"terminate", "ddeend"})
    BY <1>1
<1>9. IsData(q2) = IsData(q) /\ (t.conv /\ NoEnd(q) => NoEnd(q2))
    BY <1>6, <1>7, <1>8 DEF IsData, NoEnd
<1>10. \A i \in IsData(q) : q2[i] = q[i]
    BY <1>6 DEF IsData
<1>11. Talking(m, t, q2)
    BY <1>2, <1>9 DEF Talking
<1>12. Roomy(m, t, q2)
    BY <1>2, <1>9, <1>10 DEF Roomy
<1>13. Underway(m, t, q2, n, g)
    BY <1>2, <1>5, <1>11, <1>12 DEF Underway
<1> QED BY <1>1, <1>13 DEF q2

LEMMA PostingNothing ==
    ASSUME NEW m, NEW t, NEW q, NEW n, NEW g, Underway(m, t, q, n, g)
    PROVE  q \o <<>> = q
<1>1. q \in Seq(Messages)
    BY DEF Underway, Kept
<1> QED BY <1>1, ConcatEmptySeq

\* The messages of SetDdeComReady and EndDdeCmnd, if there is one.
LEMMA Notifying ==
    ASSUME NEW m, NEW t, NEW q, NEW n, NEW g, Underway(m, t, q, n, g), NEW u, NEW v \in Nat
    PROVE  /\ Underway(m, t, q \o SetDdeComReady(u, v), n, g)
           /\ Underway(m, t, q \o EndDdeCmnd(u, v), n, g)
<1>1. ASSUME NEW kind \in {"ready", "cmndend"} PROVE Underway(m, t, q \o Posted(kind, v), n, g)
    <2>1. kind \in Kinds \ {"data"} /\ kind \notin {"terminate", "ddeend"}
        BY DEF Kinds
    <2> QED BY <2>1, Posting
<1>2. q \o <<>> = q
    BY PostingNothing
<1> QED BY <1>1, <1>2 DEF SetDdeComReady, EndDdeCmnd

LEMMA GoneMore ==
    ASSUME NEW m, NEW t, NEW q, NEW n, NEW g, NEW g2, g \subseteq g2
    PROVE  /\ Underway(m, t, q, n, g) => Underway(m, t, q, n, g2)
           /\ Fetched(t, g) => Fetched(t, g2)
BY GoneGrows DEF Underway, Fetched

-----------------------------------------------------------------------------
(* The terminal reads.                                                      *)

LEMMA TerminalHas ==
    ASSUME NEW t \in Terminals
    PROVE  /\ t.log \in Seq(Nat) /\ t.inb \in Seq(Nat) /\ t.wire \in Seq(Nat)
           /\ t.ddeLog \in BOOLEAN /\ t.conv \in BOOLEAN /\ t.rrq \in BOOLEAN /\ t.free \in Nat
           /\ Len(t.log) \in Nat /\ Len(t.inb) \in Nat /\ Len(t.wire) \in Nat
BY LenProperties DEF Terminals

LEMMA UnreadIs ==
    ASSUME NEW t \in Terminals
    PROVE  /\ Unfetched(t) \in Seq(Nat) /\ Unfetched(t) = t.log \o (t.inb \o t.wire)
           /\ ToSet(Unfetched(t)) = ToSet(t.log) \cup ToSet(t.inb) \cup ToSet(t.wire)
           /\ Rising(Unfetched(t)) <=>
                /\ Rising(t.log) /\ Rising(t.inb) /\ Rising(t.wire)
                /\ Precedes(t.log, t.inb) /\ Precedes(t.log, t.wire) /\ Precedes(t.inb, t.wire)
<1> DEFINE a == t.log
           b == t.inb
           c == t.wire
<1>1. a \in Seq(Nat) /\ b \in Seq(Nat) /\ c \in Seq(Nat)
    BY TerminalHas
<1>2. Unfetched(t) = (a \o b) \o c
    BY DEF Unfetched
<1> HIDE DEF a, b, c
<1>3. /\ b \o c \in Seq(Nat) /\ ToSet(b \o c) = ToSet(b) \cup ToSet(c)
      /\ Rising(b \o c) <=> Rising(b) /\ Rising(c) /\ Precedes(b, c)
    BY <1>1, Joined
<1>4. /\ a \o (b \o c) \in Seq(Nat) /\ ToSet(a \o (b \o c)) = ToSet(a) \cup ToSet(b \o c)
      /\ Rising(a \o (b \o c)) <=> Rising(a) /\ Rising(b \o c) /\ Precedes(a, b \o c)
    BY <1>1, <1>3, Joined
<1>5. Precedes(a, b \o c) <=> Precedes(a, b) /\ Precedes(a, c)
    BY <1>3 DEF Precedes
<1>6. (a \o b) \o c = a \o (b \o c)
    BY <1>1, Grouped
<1>7. Unfetched(t) = a \o (b \o c)
    BY <1>2, <1>6
<1>8. /\ Unfetched(t) \in Seq(Nat)
      /\ ToSet(Unfetched(t)) = ToSet(a) \cup ToSet(b) \cup ToSet(c)
      /\ Rising(Unfetched(t)) <=>
           /\ Rising(a) /\ Rising(b) /\ Rising(c)
           /\ Precedes(a, b) /\ Precedes(a, c) /\ Precedes(b, c)
    BY <1>3, <1>4, <1>5, <1>7
<1> QED BY <1>7, <1>8 DEF a, b, c

LEMMA Receives ==
    ASSUME NEW t \in Terminals, Len(t.inb) <= InMax
    PROVE  LET u == CommReceive(t)
           IN  /\ u \in Terminals /\ LinkOf(u) = LinkOf(t) /\ u.port = t.port
               /\ u.log = t.log /\ u.inb \o u.wire = t.inb \o t.wire /\ Len(u.inb) <= InMax
               /\ u.rrq => u.inb # <<>>
               /\ (~t.rrq => t.wire = <<>>) => (~u.rrq => u.wire = <<>>)
<1> DEFINE u == CommReceive(t)
           k == IF t.rrq THEN Min({Len(t.wire), InMax - Len(t.inb)}) ELSE 0
           x == Taken(t.wire, k)
           y == Rest(t.wire, k)
<1>1. /\ t.inb \in Seq(Nat) /\ t.wire \in Seq(Nat) /\ Len(t.inb) \in Nat /\ Len(t.wire) \in Nat
      /\ t.rrq \in BOOLEAN /\ InMax \in Nat /\ InMax - Len(t.inb) \in Nat /\ InMax >= 1
    BY TerminalHas, LinkAssumption
<1>2. /\ k \in 0..Len(t.wire) /\ (t.rrq => k <= InMax - Len(t.inb))
      /\ t.rrq => k = Len(t.wire) \/ k = InMax - Len(t.inb)
      /\ ~t.rrq => k = 0
    <2>1. CASE t.rrq
        <3>1. k = Min({Len(t.wire), InMax - Len(t.inb)})
            BY <2>1
        <3>2. /\ k \in Nat /\ k <= Len(t.wire) /\ k <= InMax - Len(t.inb)
              /\ k = Len(t.wire) \/ k = InMax - Len(t.inb)
            BY <1>1, <3>1, LesserOf
        <3> QED BY <1>1, <2>1, <3>2
    <2>2. CASE ~t.rrq
        BY <1>1, <2>2
    <2> QED BY <1>1, <2>1, <2>2
<1>3. u = [t EXCEPT !.inb = t.inb \o x, !.wire = y, !.rrq = t.rrq /\ t.inb \o x # <<>>]
    BY DEF CommReceive
<1> HIDE DEF k, u
<1>4. /\ x \in Seq(Nat) /\ Len(x) = k /\ y \in Seq(Nat) /\ Len(y) = Len(t.wire) - k
      /\ x \o y = t.wire
    BY <1>1, <1>2, TakenIs, RestIs, TakenRest
<1> HIDE DEF x, y
<1> DEFINE z == t.inb \o x
<1>5. z \in Seq(Nat) /\ Len(z) = Len(t.inb) + k /\ z \o y = t.inb \o t.wire
    <2>1. z \in Seq(Nat) /\ Len(z) = Len(t.inb) + k
        BY <1>1, <1>4, ConcatProperties
    <2>2. z \o y = t.inb \o (x \o y)
        <3> DEFINE b == t.inb
        <3>1. b \in Seq(Nat) /\ x \in Seq(Nat) /\ y \in Seq(Nat)
            BY <1>1, <1>4
        <3> HIDE DEF b
        <3>2. (b \o x) \o y = b \o (x \o y)
            BY <3>1, Grouped
        <3> QED BY <3>2 DEF b
    <2> HIDE DEF z
    <2> QED BY <1>4, <2>1, <2>2
<1>6. /\ u \in Terminals /\ u.inb = z /\ u.wire = y /\ (u.rrq <=> t.rrq /\ z # <<>>) /\ u.log = t.log
      /\ u.port = t.port /\ LinkOf(u) = LinkOf(t)
    <2> DEFINE w == t.rrq /\ z # <<>>
    <2>1. u = [t EXCEPT !.inb = z, !.wire = y, !.rrq = w]
        BY <1>3
    <2>2. w \in BOOLEAN
        OBVIOUS
    <2> HIDE DEF z, w
    <2>3. u \in Terminals /\ u.inb = z /\ u.wire = y /\ u.rrq = w /\ u.log = t.log /\ u.port = t.port
        BY <1>4, <1>5, <2>1, <2>2 DEF Terminals
    <2>4. LinkOf(u) = LinkOf(t)
        BY <2>1 DEF Terminals, LinkOf
    <2> QED BY <2>3, <2>4 DEF w
<1> HIDE DEF z
<1>7. Len(z) <= InMax
    BY <1>1, <1>2, <1>5
<1>8. z = <<>> => Len(z) = 0
    OBVIOUS
<1>9. ASSUME ~t.rrq => t.wire = <<>>, ~u.rrq PROVE y = <<>>
    <2>1. CASE t.rrq
        <3>0. z = <<>>
            BY <1>6, <1>9, <2>1
        <3>1. Len(t.inb) = 0 /\ k = 0
            BY <1>1, <1>2, <1>5, <1>8, <3>0
        <3>2. k = Len(t.wire) /\ Len(y) = 0
            BY <1>1, <1>2, <1>4, <2>1, <3>1
        <3> QED BY <1>4, <3>2, EmptySeq
    <2>2. CASE ~t.rrq
        <3>1. Len(t.wire) = 0 /\ Len(y) = 0
            BY <1>1, <1>2, <1>4, <1>9, <2>2
        <3> QED BY <1>4, <3>1, EmptySeq
    <2> QED BY <2>1, <2>2, <1>1
<1> QED BY <1>5, <1>6, <1>7, <1>9 DEF u

-----------------------------------------------------------------------------
LEMMA Received ==
    ASSUME NEW m, NEW t, NEW q, NEW n, NEW g, Underway(m, t, q, n, g)
    PROVE  Underway(m, CommReceive(t), q, n, g) /\ Fetched(CommReceive(t), g)
<1> DEFINE u == CommReceive(t)
<1>1. /\ m \in Programs /\ t \in Terminals /\ Kept(m.ring, q, Unfetched(t), n, g)
      /\ Reading(t) /\ Talking(m, t, q) /\ Roomy(m, t, q)
    BY DEF Underway
<1>2. /\ u \in Terminals /\ LinkOf(u) = LinkOf(t) /\ u.port = t.port
      /\ u.log = t.log /\ u.inb \o u.wire = t.inb \o t.wire /\ Len(u.inb) <= InMax
      /\ u.rrq => u.inb # <<>>
      /\ (~t.rrq => t.wire = <<>>) => (~u.rrq => u.wire = <<>>)
    BY <1>1, Receives DEF Reading
<1> HIDE DEF u
<1>3. /\ u.ddeLog = t.ddeLog
      /\ Talking(m, u, q) /\ Roomy(m, u, q)
    BY <1>1, <1>2, SameLink
<1>4. Unfetched(u) = Unfetched(t)
    BY <1>1, <1>2, UnreadIs
<1>5. Reading(u)
    BY <1>1, <1>2, <1>3 DEF Reading
<1>6. Fetched(u, g)
    BY <1>2 DEF Fetched, Stranded
<1>7. Underway(m, u, q, n, g)
    BY <1>1, <1>2, <1>3, <1>4, <1>5 DEF Underway
<1> QED BY <1>6, <1>7 DEF u

\* The terminal has less: the rest is gone.
LEMMA Fewer ==
    ASSUME NEW m, NEW t, NEW q, NEW n, NEW g, NEW u \in Terminals, NEW g2,
           Underway(m, t, q, n, g), g \subseteq g2, Reading(u), LinkOf(u) = LinkOf(t),
           LeftOf(Unfetched(t), Unfetched(u), g2)
    PROVE  Underway(m, u, q, n, g2)
<1>1. /\ m \in Programs /\ Kept(m.ring, q, Unfetched(t), n, g) /\ Talking(m, t, q) /\ Roomy(m, t, q)
    BY DEF Underway
<1>2. Kept(m.ring, q, Unfetched(u), n, g2)
    BY <1>1, Thins, KeptWhole
<1>3. Talking(m, u, q) /\ Roomy(m, u, q)
    BY <1>1, SameLink
<1> QED BY <1>1, <1>2, <1>3 DEF Underway

LEMMA TransferReads ==
    ASSUME NEW m, NEW t, NEW q, NEW n, NEW g, Underway(m, t, q, n, g)
    PROVE  Underway(m, ProtoDlgParse(t), q, n, g \cup ToSet(CommReceive(t).inb))
<1> DEFINE c == CommReceive(t)
           u == [c EXCEPT !.inb = <<>>]
           g2 == g \cup ToSet(c.inb)
<1>1. Underway(m, c, q, n, g)
    BY Received
<1>2. ProtoDlgParse(t) = u
    BY DEF ProtoDlgParse
<1> HIDE DEF c
<1>3. /\ c \in Terminals /\ Kept(m.ring, q, Unfetched(c), n, g) /\ Reading(c)
    BY <1>1 DEF Underway
<1>4. /\ u \in Terminals /\ u.inb = <<>> /\ u.log = c.log /\ u.wire = c.wire /\ u.port = c.port
      /\ u.rrq = c.rrq /\ u.ddeLog = c.ddeLog /\ LinkOf(u) = LinkOf(c)
    BY <1>3, Nothing DEF Terminals, LinkOf
<1> HIDE DEF u, g2
<1>5. Reading(u)
    <2>1. Len(<<>>) = 0 /\ 0 <= InMax
        BY LinkAssumption
    <2> QED BY <1>3, <1>4, <2>1 DEF Reading
<1>6. Rising(Unfetched(c))
    BY <1>3 DEF Kept, Ordered
<1>7. LeftOf(Unfetched(c), Unfetched(u), g2)
    <2>1. /\ ToSet(Unfetched(c)) = ToSet(c.log) \cup ToSet(c.inb) \cup ToSet(c.wire)
          /\ Rising(c.log) /\ Rising(c.wire) /\ Precedes(c.log, c.wire)
        BY <1>3, <1>6, UnreadIs
    <2>2. /\ Unfetched(u) \in Seq(Nat) /\ ToSet(Unfetched(u)) = ToSet(c.log) \cup ToSet(c.wire)
        BY <1>4, Nothing, UnreadIs
    <2>3. Rising(Unfetched(u))
        BY <1>4, <2>1, Nothing, UnreadIs
    <2> QED BY <2>1, <2>2, <2>3 DEF LeftOf, g2
<1>8. Underway(m, u, q, n, g2)
    BY <1>1, <1>4, <1>5, <1>7, Fewer DEF g2
<1> QED BY <1>2, <1>8 DEF g2, c

\* The parser passes on what it reads to the log as far as that has room.
LEMMA LogKeeps ==
    ASSUME NEW t \in Terminals, Reading(t), NEW u, u = VTParse(t), t.ddeLog
    PROVE  u \in Terminals /\ LinkOf(u) = LinkOf(t) /\ Unfetched(u) = Unfetched(t) /\ Reading(u)
<1> DEFINE k == Min({Len(t.inb), LogRoom(t)})
           x == Taken(t.inb, k)
           y == Rest(t.inb, k)
           l == t.log \o x
<1>1. /\ t.log \in Seq(Nat) /\ t.inb \in Seq(Nat) /\ Len(t.log) \in Nat /\ Len(t.inb) \in Nat
      /\ t.wire \in Seq(Nat) /\ Len(t.inb) <= InMax /\ Len(t.log) <= LogSize
      /\ LogSize \in Nat /\ Margin \in Nat /\ InMax \in Nat
    BY TerminalHas, LinkAssumption DEF Reading
<1>2. /\ LogRoom(t) \in Nat
      /\ LogRoom(t) = 0 \/ Len(t.log) + LogRoom(t) <= LogSize
    <2>1. CASE Len(t.log) >= LogSize - Margin
        BY <2>1 DEF LogRoom
    <2>2. CASE ~(Len(t.log) >= LogSize - Margin)
        <3>1. LogRoom(t) = LogSize - Margin - Len(t.log)
            BY <2>2 DEF LogRoom
        <3> QED BY <1>1, <2>2, <3>1
    <2> QED BY <2>1, <2>2
<1>3. k \in 0..Len(t.inb) /\ k <= LogRoom(t)
    <2>1. /\ k \in Nat /\ k <= Len(t.inb) /\ k <= LogRoom(t)
        BY <1>1, <1>2, LesserOf
    <2> QED BY <1>1, <2>1
<1>4. u = [t EXCEPT !.inb = y, !.log = Newest(l, LogSize)]
    BY DEF VTParse
<1> HIDE DEF k
<1>5. /\ x \in Seq(Nat) /\ Len(x) = k /\ y \in Seq(Nat) /\ Len(y) = Len(t.inb) - k
      /\ x \o y = t.inb
    BY <1>1, <1>3, TakenIs, RestIs, TakenRest
<1> HIDE DEF x, y
<1>6. l \in Seq(Nat) /\ Len(l) = Len(t.log) + k
    BY <1>1, <1>5, ConcatProperties
<1>7. Len(l) <= LogSize
    BY <1>1, <1>2, <1>3, <1>6
<1> HIDE DEF l
<1>8. u = [t EXCEPT !.inb = y, !.log = l]
    BY <1>1, <1>4, <1>6, <1>7, NewestIs
<1>9. /\ u \in Terminals /\ u.inb = y /\ u.log = l /\ u.wire = t.wire /\ u.port = t.port
      /\ u.rrq = t.rrq /\ u.ddeLog = t.ddeLog /\ LinkOf(u) = LinkOf(t)
    BY <1>5, <1>6, <1>8 DEF Terminals, LinkOf
<1>10. Unfetched(u) = Unfetched(t)
    <2> DEFINE a == t.log
               w == t.wire
    <2>1. a \in Seq(Nat) /\ w \in Seq(Nat) /\ x \in Seq(Nat) /\ y \in Seq(Nat)
        BY <1>1, <1>5
    <2>2. Unfetched(u) = ((a \o x) \o y) \o w /\ Unfetched(t) = (a \o (x \o y)) \o w
        BY <1>5, <1>9 DEF Unfetched, l
    <2> HIDE DEF a, w
    <2>3. (a \o x) \o y = a \o (x \o y)
        BY <2>1, Grouped
    <2> QED BY <2>2, <2>3
<1>11. Reading(u)
    <2>1. Len(y) <= InMax
        BY <1>1, <1>3, <1>5
    <2> QED BY <1>7, <1>9, <2>1 DEF Reading
<1> QED BY <1>9, <1>10, <1>11

LEMMA LogPasses ==
    ASSUME NEW t \in Terminals, Reading(t), NEW u, u = VTParse(t), ~t.ddeLog, Rising(Unfetched(t)), NEW g
    PROVE  /\ u \in Terminals /\ LinkOf(u) = LinkOf(t) /\ Reading(u)
           /\ LeftOf(Unfetched(t), Unfetched(u), g \cup ToSet(t.inb))
<1>1. /\ t.log \in Seq(Nat) /\ t.inb \in Seq(Nat) /\ t.wire \in Seq(Nat) /\ Len(t.inb) \in Nat
      /\ Len(t.log) <= LogSize /\ t.log = <<>> /\ InMax \in Nat
    BY TerminalHas, LinkAssumption DEF Reading
<1>2. Rest(t.inb, Len(t.inb)) = <<>>
    BY <1>1, SubSeqEmpty DEF Rest
<1>3. u = [t EXCEPT !.inb = <<>>, !.log = t.log]
    BY <1>2 DEF VTParse
<1>4. /\ u \in Terminals /\ u.inb = <<>> /\ u.log = t.log /\ u.wire = t.wire /\ u.port = t.port
      /\ u.rrq = t.rrq /\ u.ddeLog = t.ddeLog /\ LinkOf(u) = LinkOf(t)
    BY <1>1, <1>3, Nothing DEF Terminals, LinkOf
<1>5. Reading(u)
    <2>1. Len(<<>>) = 0 /\ 0 <= InMax
        BY <1>1
    <2> QED BY <1>1, <1>4, <2>1 DEF Reading
<1>6. LeftOf(Unfetched(t), Unfetched(u), g \cup ToSet(t.inb))
    <2>1. /\ ToSet(Unfetched(t)) = ToSet(t.log) \cup ToSet(t.inb) \cup ToSet(t.wire)
          /\ Rising(t.log) /\ Rising(t.wire) /\ Precedes(t.log, t.wire)
        BY UnreadIs
    <2>2. /\ Unfetched(u) \in Seq(Nat) /\ ToSet(Unfetched(u)) = ToSet(t.log) \cup ToSet(t.wire)
        BY <1>4, Nothing, UnreadIs
    <2>3. Rising(Unfetched(u))
        BY <1>4, <2>1, Nothing, UnreadIs
    <2> QED BY <2>1, <2>2, <2>3 DEF LeftOf
<1> QED BY <1>4, <1>5, <1>6

LEMMA ParserReads ==
    ASSUME NEW m, NEW t, NEW q, NEW n, NEW g, Underway(m, t, q, n, g)
    PROVE  Underway(m, VTParse(t), q, n, g \cup IF t.ddeLog THEN {} ELSE ToSet(t.inb))
<1> DEFINE u == VTParse(t)
           g2 == g \cup IF t.ddeLog THEN {} ELSE ToSet(t.inb)
<1>1. t \in Terminals /\ Kept(m.ring, q, Unfetched(t), n, g) /\ Reading(t)
    BY DEF Underway
<1>2. Rising(Unfetched(t)) /\ LeftOf(Unfetched(t), Unfetched(t), g2)
    BY <1>1, KeptWhole DEF Kept, Ordered
<1>3. g \subseteq g2
    OBVIOUS
<1>4. PICK v : v = u
    OBVIOUS
<1>5. v \in Terminals /\ LinkOf(v) = LinkOf(t) /\ Reading(v) /\ LeftOf(Unfetched(t), Unfetched(v), g2)
    <2>1. CASE t.ddeLog
        BY <1>1, <1>2, <1>4, <2>1, LogKeeps
    <2>2. CASE ~t.ddeLog
        <3>1. g2 = g \cup ToSet(t.inb)
            BY <2>2
        <3> HIDE DEF g2
        <3> QED BY <1>1, <1>2, <1>4, <2>2, <3>1, LogPasses
    <2> QED BY <2>1, <2>2
<1> HIDE DEF g2
<1>6. Underway(m, v, q, n, g2)
    BY <1>3, <1>5, Fewer
<1> QED BY <1>4, <1>6 DEF g2

\* DDEAdv: a part of the log becomes a message, no more than the macro has given room for.
LEMMA Advising ==
    ASSUME NEW m, NEW t, NEW q, NEW n, NEW g, Underway(m, t, q, n, g)
    PROVE  Underway(m, DDEAdv(t), q \o Advised(t), n, g)
<1>1. /\ m \in Programs /\ t \in Terminals /\ Kept(m.ring, q, Unfetched(t), n, g)
      /\ Reading(t) /\ Talking(m, t, q) /\ Roomy(m, t, q)
    BY DEF Underway
<1>2. CASE ~Advises(t)
    <2>1. q \o <<>> = q
        BY PostingNothing
    <2> QED BY <1>2, <2>1 DEF DDEAdv, Advised
<1>3. CASE Advises(t)
    <2> DEFINE k == Share(t)
               x == Message("data", 0, Taken(t.log, k))
               a == Taken(t.log, k)
               b == Rest(t.log, k)
               u == [t EXCEPT !.free = FreeLeft(t), !.recv = FALSE, !.log = b]
               q2 == q \o <<x>>
    <2>1. /\ t.log \in Seq(Nat) /\ t.inb \in Seq(Nat) /\ t.wire \in Seq(Nat) /\ Len(t.log) \in Nat
          /\ t.free \in Nat /\ q \in Seq(Messages) /\ Len(q) \in Nat /\ Reserve \in Nat
        BY <1>1, TerminalHas, LinkAssumption, LenProperties DEF Kept
    <2>2. FreeLeft(t) \in Nat
        BY <2>1 DEF FreeLeft
    <2>3. k \in 0..Len(t.log) /\ (t.sync => k <= FreeLeft(t))
        <3>1. CASE t.sync
            <4>1. k = Min({Len(t.log), FreeLeft(t)})
                BY <3>1 DEF Share
            <4>2. k \in Nat /\ k <= Len(t.log) /\ k <= FreeLeft(t)
                BY <2>1, <2>2, <4>1, LesserOf
            <4> QED BY <2>1, <4>2
        <3>2. CASE ~t.sync
            BY <2>1, <3>2 DEF Share
        <3> QED BY <3>1, <3>2
    <2>4. DDEAdv(t) = u /\ Advised(t) = <<x>>
        BY <1>3 DEF DDEAdv, Advised
    <2> HIDE DEF k
    <2>5. /\ a \in Seq(Nat) /\ Len(a) = k /\ b \in Seq(Nat) /\ Len(b) = Len(t.log) - k
          /\ a \o b = t.log
        BY <2>1, <2>3, TakenIs, RestIs, TakenRest
    <2>6. x = Message("data", 0, a)
        OBVIOUS
    <2> HIDE DEF a, b, x
    <2>7. x \in Messages /\ x.kind = "data" /\ x.bytes = a
        BY <2>5, <2>6 DEF Message, Messages, Kinds
    <2>8. /\ u \in Terminals /\ u.log = b /\ u.inb = t.inb /\ u.wire = t.wire /\ u.port = t.port
          /\ u.rrq = t.rrq /\ u.ddeLog = t.ddeLog /\ u.conv = t.conv /\ u.ddeEnd = t.ddeEnd
          /\ u.closeTT = t.closeTT /\ u.sync = t.sync /\ u.recv = FALSE
        BY <1>1, <2>2, <2>5 DEF Terminals
    <2> HIDE DEF u
    <2>9. a \o Unfetched(u) = Unfetched(t) /\ Unfetched(u) \in Seq(Nat)
        <3> DEFINE r == t.inb \o t.wire
        <3>1. r \in Seq(Nat)
            BY <2>1, Chained
        <3>2. Unfetched(u) = u.log \o (u.inb \o u.wire) /\ Unfetched(t) = t.log \o (t.inb \o t.wire)
            BY <1>1, <2>8, UnreadIs
        <3>5. Unfetched(u) = b \o r /\ Unfetched(t) = (a \o b) \o r
            BY <2>5, <2>8, <3>2
        <3> HIDE DEF r
        <3>6. a \in Seq(Nat) /\ b \in Seq(Nat)
            BY <2>5
        <3>3. (a \o b) \o r = a \o (b \o r)
            BY <3>1, <3>6, Grouped
        <3>4. Unfetched(u) \in Seq(Nat)
            BY <2>8, UnreadIs
        <3> QED BY <3>3, <3>4, <3>5
    <2>10. Kept(m.ring, q2, Unfetched(u), n, g)
        BY <1>1, <2>7, <2>9, Hands
    <2>11. /\ Len(q2) = Len(q) + 1 /\ q2[Len(q) + 1] = x
           /\ \A i \in 1..Len(q) : q2[i] = q[i]
        BY <2>1, <2>7, Added
    <2> HIDE DEF q2
    <2>12. \A i \in 1..Len(q2) : i \in 1..Len(q) \/ i = Len(q) + 1
        BY <2>1, <2>11
    <2>13. t.ddeLog /\ t.conv /\ (t.sync => t.recv)
        BY <1>3 DEF Advises
    <2>14. Talking(m, u, q2)
        <3>1. NoEnd(q) => NoEnd(q2)
            BY <2>7, <2>11, <2>12 DEF NoEnd
        <3> QED BY <1>1, <2>8, <2>13, <3>1 DEF Talking
    <2>15. Reading(u)
        <3>1. Len(b) <= LogSize
            BY <1>1, <2>1, <2>3, <2>5, LinkAssumption DEF Reading
        <3> QED BY <1>1, <2>8, <2>13, <3>1 DEF Reading
    <2>16. Roomy(m, u, q2)
        <3>1. Len(m.ring) <= RingSize /\ Len(m.ring) \in Nat
            BY <1>1, LenProperties DEF Roomy, Kept
        <3>2. ASSUME m.sync /\ m.clean /\ m.linked
              PROVE  IsData(q) = {} /\ Len(m.ring) + FreeLeft(t) <= RingSize /\ m.sent /\ k <= FreeLeft(t)
            <4>1. t.sync /\ t.recv
                BY <1>1, <2>13, <3>2 DEF Talking
            <4> QED BY <1>1, <2>3, <2>13, <3>2, <4>1 DEF Roomy
        <3>3. ASSUME IsData(q) = {} PROVE IsData(q2) \subseteq {Len(q) + 1}
            BY <2>11, <2>12, <3>3 DEF IsData
        <3>4. ASSUME m.sync /\ m.clean /\ m.linked
              PROVE  /\ \A i, j \in IsData(q2) : i = j
                     /\ \A i \in IsData(q2) : Len(m.ring) + Len(q2[i].bytes) <= RingSize
            <4>1. IsData(q2) \subseteq {Len(q) + 1} /\ Len(m.ring) + k <= RingSize
                BY <2>2, <2>3, <3>1, <3>2, <3>3, <3>4, LinkAssumption
            <4> QED BY <2>5, <2>7, <2>11, <4>1
        <3> QED BY <2>8, <3>1, <3>2, <3>4 DEF Roomy
    <2>17. Underway(m, u, q2, n, g)
        BY <1>1, <2>8, <2>10, <2>14, <2>15, <2>16 DEF Underway
    <2> QED BY <2>4, <2>17 DEF q2
<1> QED BY <1>2, <1>3

-----------------------------------------------------------------------------
(* The terminal's steps.                                                    *)

LEMMA AlikeAre ==
    ASSUME NEW t \in Terminals
    PROVE  Alike(t, t) /\ Alike(t, EndPaste(t)) /\ Alike(t, ProtoEnd(t)) /\ Alike(t, StartsProto(t))
<1>1. Alike(t, t) /\ Alike(t, EndPaste(t))
    BY DEF Alike, LinkOf, EndPaste, Terminals
<1>2. Alike(t, StartsProto(t))
    BY DEF Alike, LinkOf, StartsProto, Terminals
<1>3. Alike(t, ProtoEnd(t))
    <2> DEFINE x == t.cmnd /\ ~Ends(t)
    <2>1. ProtoEnd(t) = [t EXCEPT !.proto = FALSE, !.talk = "keyb", !.cmnd = x] /\ x \in BOOLEAN
        BY DEF ProtoEnd
    <2> HIDE DEF x
    <2> QED BY <2>1 DEF Alike, LinkOf, Terminals
<1> QED BY <1>1, <1>2, <1>3

\* Nothing is read and the conversation is not touched.
LEMMA Unmoved ==
    ASSUME NEW m, NEW t, NEW q, NEW n, NEW g, NEW u \in Terminals, NEW g2,
           Underway(m, t, q, n, g), g \subseteq g2, Reading(u), LinkOf(u) = LinkOf(t),
           Unfetched(u) = Unfetched(t)
    PROVE  Underway(m, u, q, n, g2)
<1>1. LeftOf(Unfetched(t), Unfetched(u), g2)
    BY KeptWhole DEF Underway
<1> QED BY <1>1, Fewer

\* The conversation ends for the terminal.
LEMMA Disconnects ==
    ASSUME NEW m, NEW t, NEW q, NEW n, NEW g, NEW u \in Terminals, NEW g2,
           Underway(m, t, q, n, g), g \subseteq g2, Reading(u), ~u.conv, ~u.ddeLog, ~u.sync,
           LeftOf(Unfetched(t), Unfetched(u), g2)
    PROVE  Underway(m, u, q, n, g2)
<1>1. /\ m \in Programs /\ Kept(m.ring, q, Unfetched(t), n, g) /\ Talking(m, t, q) /\ Roomy(m, t, q)
    BY DEF Underway
<1>2. Kept(m.ring, q, Unfetched(u), n, g2)
    BY <1>1, Thins, KeptWhole
<1>3. Talking(m, u, q)
    BY <1>1 DEF Talking
<1>4. Roomy(m, u, q)
    BY <1>1 DEF Roomy
<1> QED BY <1>1, <1>2, <1>3, <1>4 DEF Underway

LEMMA InvHas ==
    ASSUME Inv
    PROVE  /\ Underway(mac, tt, mq, sent, gone) /\ Fetched(tt, gone)
           /\ mac \in Programs /\ tt \in Terminals /\ Reading(tt) /\ Talking(mac, tt, mq)
           /\ Kept(mac.ring, mq, Unfetched(tt), sent, gone) /\ Rising(Unfetched(tt))
           /\ sent \in Nat /\ mq \in Seq(Messages)
BY DEF Inv, Underway, Kept, Ordered

LEMMA InvHolds ==
    ASSUME Underway(mac', tt', mq', sent', gone'), Fetched(tt', gone')
    PROVE  Inv'
BY DEF Inv

LEMMA DoHostSend ==
    ASSUME Inv, HostSend
    PROVE  Inv'
<1>1. /\ Underway(mac, tt, mq, sent, gone) /\ Fetched(tt, gone) /\ tt \in Terminals
      /\ Reading(tt) /\ sent \in Nat /\ mac \in Programs /\ Talking(mac, tt, mq) /\ Roomy(mac, tt, mq)
      /\ Kept(mac.ring, mq, Unfetched(tt), sent, gone)
    BY InvHas DEF Underway
<1> DEFINE x == sent + 1
           w == Append(tt.wire, x)
           u == [tt EXCEPT !.wire = w]
           g2 == gone \cup IF Stranded(tt) THEN {x} ELSE {}
<1>2. tt.port = "open" /\ tt' = u /\ sent' = x /\ gone' = g2 /\ mac' = mac /\ mq' = mq
    BY DEF HostSend
<1>3. tt.wire \in Seq(Nat) /\ x \in Nat
    BY <1>1, TerminalHas
<1>4. w = tt.wire \o <<x>> /\ w \in Seq(Nat)
    BY <1>3, AppendIsConcat, AppendProperties
<1> HIDE DEF w
<1>5. /\ u \in Terminals /\ u.wire = w /\ u.log = tt.log /\ u.inb = tt.inb /\ u.rrq = tt.rrq
      /\ u.port = tt.port /\ u.ddeLog = tt.ddeLog /\ LinkOf(u) = LinkOf(tt)
    BY <1>1, <1>4 DEF Terminals, LinkOf
<1> HIDE DEF u
<1>6. Unfetched(u) = Unfetched(tt) \o <<x>>
    <2> DEFINE a == tt.log \o tt.inb
               b == tt.wire
               c == <<x>>
    <2>1. a \in Seq(Nat) /\ b \in Seq(Nat) /\ c \in Seq(Nat)
        BY <1>1, <1>3, TerminalHas, Chained
    <2>2. Unfetched(u) = a \o (b \o c) /\ Unfetched(tt) = a \o b
        BY <1>4, <1>5 DEF Unfetched
    <2>3. Unfetched(tt) \o <<x>> = (a \o b) \o c
        BY <2>2
    <2> HIDE DEF a, b, c
    <2>4. (a \o b) \o c = a \o (b \o c)
        BY <2>1, Grouped
    <2> QED BY <2>2, <2>3, <2>4
<1>7. Kept(mac.ring, mq, Unfetched(u), x, gone)
    BY <1>1, <1>6, HostAdds
<1>8. gone \subseteq g2 /\ (Stranded(tt) => x \in g2)
    OBVIOUS
<1> HIDE DEF g2, x
<1>9. Kept(mac.ring, mq, Unfetched(u), x, g2)
    BY <1>7, <1>8, GoneGrows
<1>10. Reading(u)
    BY <1>1, <1>2, <1>5 DEF Reading
<1>11. Talking(mac, u, mq) /\ Roomy(mac, u, mq)
    BY <1>1, <1>5, SameLink
<1>12. Underway(mac, u, mq, x, g2)
    BY <1>1, <1>5, <1>9, <1>10, <1>11 DEF Underway
<1>13. Fetched(u, g2)
    <2>1. SUFFICES ASSUME u.ddeLog, Stranded(u) PROVE ToSet(w) \subseteq g2
        BY <1>5 DEF Fetched
    <2>2. Stranded(tt) /\ tt.ddeLog
        BY <1>5, <2>1 DEF Stranded
    <2>3. ToSet(tt.wire) \subseteq gone
        BY <1>1, <2>2 DEF Fetched
    <2>4. ToSet(w) = ToSet(tt.wire) \cup {x}
        <3> DEFINE b == tt.wire
                   c == <<x>>
        <3>1. b \in Seq(Nat) /\ c \in Seq(Nat) /\ ToSet(c) = {x} /\ w = b \o c
            BY <1>3, <1>4, Single
        <3> HIDE DEF b, c
        <3>2. ToSet(b \o c) = ToSet(b) \cup ToSet(c)
            BY <3>1, Joined
        <3>3. ToSet(w) = ToSet(b) \cup {x}
            BY <3>1, <3>2
        <3> QED BY <3>3 DEF b
    <2> QED BY <1>8, <2>2, <2>3, <2>4
<1> QED BY <1>2, <1>12, <1>13, InvHolds

LEMMA DoFdRead ==
    ASSUME Inv, FdRead
    PROVE  Inv'
<1> DEFINE u == [tt EXCEPT !.rrq = TRUE]
<1>1. /\ Underway(mac, tt, mq, sent, gone) /\ tt \in Terminals /\ Reading(tt)
    BY InvHas
<1>2. tt.port = "open" /\ tt' = CommReceive(u) /\ UNCHANGED <<mac, mq, sent, gone>>
    BY DEF FdRead
<1>3. /\ u \in Terminals /\ u.log = tt.log /\ u.inb = tt.inb /\ u.wire = tt.wire
      /\ u.port = tt.port /\ u.ddeLog = tt.ddeLog /\ LinkOf(u) = LinkOf(tt)
    BY <1>1 DEF Terminals, LinkOf
<1> HIDE DEF u
<1>4. Reading(u) /\ Unfetched(u) = Unfetched(tt)
    BY <1>1, <1>2, <1>3 DEF Reading, Unfetched
<1>5. Underway(mac, u, mq, sent, gone)
    BY <1>1, <1>3, <1>4, Unmoved
<1>6. Underway(mac, CommReceive(u), mq, sent, gone) /\ Fetched(CommReceive(u), gone)
    BY <1>5, Received
<1> QED BY <1>2, <1>6, InvHolds

LEMMA DoFdClose ==
    ASSUME Inv, FdClose
    PROVE  Inv'
<1> DEFINE u == [tt EXCEPT !.port = "closing"]
<1>1. /\ Underway(mac, tt, mq, sent, gone) /\ tt \in Terminals /\ Reading(tt) /\ Fetched(tt, gone)
    BY InvHas
<1>2. (tt.wire = <<>> \/ tt.rrq) /\ tt' = u /\ UNCHANGED <<mac, mq, sent, gone>>
    BY DEF FdClose
<1>3. /\ u \in Terminals /\ u.log = tt.log /\ u.inb = tt.inb /\ u.wire = tt.wire
      /\ u.rrq = tt.rrq /\ u.ddeLog = tt.ddeLog /\ LinkOf(u) = LinkOf(tt)
    BY <1>1 DEF Terminals, LinkOf
<1> HIDE DEF u
<1>4. Reading(u) /\ Unfetched(u) = Unfetched(tt) /\ Fetched(u, gone)
    BY <1>1, <1>2, <1>3 DEF Reading, Unfetched, Fetched, Stranded
<1>5. Underway(mac, u, mq, sent, gone)
    BY <1>1, <1>3, <1>4, Unmoved
<1> QED BY <1>2, <1>4, <1>5, InvHolds

LEMMA DoComEnd ==
    ASSUME Inv, ComEnd
    PROVE  Inv'
<1> DEFINE u == [tt EXCEPT !.port = "closed", !.rrq = FALSE, !.inb = <<>>, !.wire = <<>>]
           g2 == gone \cup IF tt.ddeLog THEN {} ELSE ToSet(tt.wire)
<1>1. /\ Underway(mac, tt, mq, sent, gone) /\ tt \in Terminals /\ Reading(tt) /\ Fetched(tt, gone)
      /\ Rising(Unfetched(tt))
    BY InvHas
<1>2. /\ tt.port = "closing" /\ CommCanClose(tt) /\ tt' = u /\ gone' = g2
      /\ mq' = mq \o SetDdeComReady(tt, 0) /\ UNCHANGED <<mac, sent>>
    BY DEF ComEnd
<1>3. /\ u \in Terminals /\ u.log = tt.log /\ u.inb = <<>> /\ u.wire = <<>>
      /\ u.port = "closed" /\ u.ddeLog = tt.ddeLog /\ LinkOf(u) = LinkOf(tt)
    BY <1>1, Nothing DEF Terminals, LinkOf
<1>4. tt.inb = <<>> /\ (tt.ddeLog => tt.log = <<>>)
    BY <1>2 DEF CommCanClose
<1>5. ToSet(tt.wire) \subseteq g2
    <2>1. CASE ~tt.rrq
        BY <1>1, <1>2, <2>1, Nothing DEF Reading
    <2>2. CASE tt.rrq /\ tt.ddeLog
        BY <1>1, <1>4, <2>2 DEF Fetched, Stranded
    <2>3. CASE ~tt.ddeLog
        BY <2>3
    <2> QED BY <2>1, <2>2, <2>3
<1>6. gone \subseteq g2
    OBVIOUS
<1> HIDE DEF u, g2
<1>7. LeftOf(Unfetched(tt), Unfetched(u), g2)
    <2>1. /\ ToSet(Unfetched(tt)) = ToSet(tt.log) \cup ToSet(tt.inb) \cup ToSet(tt.wire)
          /\ Rising(tt.log) /\ ToSet(tt.inb) = {}
        BY <1>1, <1>4, Nothing, UnreadIs
    <2>2. /\ Unfetched(u) \in Seq(Nat) /\ ToSet(Unfetched(u)) = ToSet(tt.log)
        BY <1>3, Nothing, UnreadIs
    <2>3. Rising(Unfetched(u))
        BY <1>3, <2>1, Nothing, UnreadIs
    <2> QED BY <1>5, <2>1, <2>2, <2>3 DEF LeftOf
<1>8. Reading(u)
    <2>1. Len(<<>>) = 0 /\ 0 <= InMax
        BY LinkAssumption
    <2> QED BY <1>1, <1>3, <2>1 DEF Reading
<1>9. Underway(mac, u, mq, sent, g2)
    BY <1>1, <1>3, <1>6, <1>7, <1>8, Fewer
<1>10. Underway(mac, u, mq \o SetDdeComReady(tt, 0), sent, g2)
    BY <1>9, Notifying
<1>11. Fetched(u, g2)
    BY <1>3, Nothing DEF Fetched
<1> QED BY <1>2, <1>10, <1>11, InvHolds

LEMMA DoOnCommOpen ==
    ASSUME Inv, OnCommOpen
    PROVE  Inv'
<1>1. /\ Underway(mac, tt, mq, sent, gone) /\ tt \in Terminals /\ Reading(tt) /\ Fetched(tt, gone)
    BY InvHas
<1>2. PICK ok \in BOOLEAN :
        /\ tt' = [tt EXCEPT !.port = IF ok THEN "open" ELSE "closed"]
        /\ mq' = mq \o SetDdeComReady(tt, IF ok THEN 1 ELSE 0)
    BY DEF OnCommOpen
<1>3. UNCHANGED <<mac, sent, gone>>
    BY DEF OnCommOpen
<1> DEFINE p == IF ok THEN "open" ELSE "closed"
           u == [tt EXCEPT !.port = p]
           v == IF ok THEN 1 ELSE 0
<1>4. p \in {"open", "closed"} /\ v \in Nat /\ tt' = u /\ mq' = mq \o SetDdeComReady(tt, v)
    BY <1>2
<1> HIDE DEF p, v
<1>5. /\ u \in Terminals /\ u.log = tt.log /\ u.inb = tt.inb /\ u.wire = tt.wire
      /\ u.rrq = tt.rrq /\ u.port = p /\ u.ddeLog = tt.ddeLog /\ LinkOf(u) = LinkOf(tt)
    BY <1>1, <1>4 DEF Terminals, LinkOf
<1> HIDE DEF u
<1>6. Reading(u) /\ Unfetched(u) = Unfetched(tt) /\ Fetched(u, gone)
    BY <1>1, <1>4, <1>5 DEF Reading, Unfetched, Fetched, Stranded
<1>7. Underway(mac, u, mq, sent, gone)
    BY <1>1, <1>5, <1>6, Unmoved
<1>8. Underway(mac, u, mq \o SetDdeComReady(tt, v), sent, gone)
    BY <1>4, <1>7, Notifying
<1> QED BY <1>3, <1>4, <1>6, <1>8, InvHolds

-----------------------------------------------------------------------------
\* OnIdle with the results of a transfer that is over, if there are any.
LEMMA IdleReads ==
    ASSUME Inv
    PROVE  LET read == IF tt.proto THEN ProtoDlgParse(tt) ELSE VTParse(tt)
           IN  Underway(mac, read, mq, sent, gone \cup Eaten(tt))
<1>1. Underway(mac, tt, mq, sent, gone)
    BY InvHas
<1>2. CASE tt.proto
    <2>1. Underway(mac, ProtoDlgParse(tt), mq, sent, gone \cup ToSet(CommReceive(tt).inb))
        BY <1>1, TransferReads
    <2> QED BY <1>2, <2>1 DEF Eaten
<1>3. CASE ~tt.proto
    <2>1. Underway(mac, VTParse(tt), mq, sent, gone \cup IF tt.ddeLog THEN {} ELSE ToSet(tt.inb))
        BY <1>1, ParserReads
    <2> QED BY <1>3, <2>1 DEF Eaten
<1> QED BY <1>2, <1>3

\* The rest of OnIdle, whatever was posted in it.
LEMMA IdleEnds ==
    ASSUME NEW m, NEW parsed, NEW q, NEW n, NEW g, Underway(m, parsed, q, n, g),
           NEW talked \in {DDEAdv(parsed), EndPaste(DDEAdv(parsed))}
    PROVE  LET u == IF talked.ddeLog /\ talked.log # <<>> THEN talked ELSE CommReceive(talked)
           IN  Underway(m, u, q \o Advised(parsed), n, g) /\ Fetched(u, g)
<1> DEFINE q2 == q \o Advised(parsed)
<1>1. Underway(m, DDEAdv(parsed), q2, n, g)
    BY Advising
<1> HIDE DEF q2
<1>2. Alike(DDEAdv(parsed), talked)
    BY <1>1, AlikeAre DEF Underway
<1>3. Underway(m, talked, q2, n, g)
    BY <1>1, <1>2, AlikeStays
<1>4. Underway(m, CommReceive(talked), q2, n, g) /\ Fetched(CommReceive(talked), g)
    BY <1>3, Received
<1>5. ASSUME talked.log # <<>> PROVE Fetched(talked, g)
    BY <1>5 DEF Fetched, Stranded
<1>6. CASE talked.ddeLog /\ talked.log # <<>>
    BY <1>3, <1>5, <1>6 DEF q2
<1>7. CASE ~(talked.ddeLog /\ talked.log # <<>>)
    <2>1. (IF talked.ddeLog /\ talked.log # <<>> THEN talked ELSE CommReceive(talked)) = CommReceive(talked)
        BY <1>7
    <2> QED BY <1>4, <2>1 DEF q2
<1> QED BY <1>6, <1>7

LEMMA DoOnIdle ==
    ASSUME Inv, NEW over, over \subseteq Nat, NEW empty \in BOOLEAN, OnIdle(over, empty)
    PROVE  Inv'
<1> DEFINE read == IF tt.proto THEN ProtoDlgParse(tt) ELSE VTParse(tt)
           parsed == IF over = {} THEN read ELSE ProtoEnd(read)
           talked == IF empty THEN EndPaste(DDEAdv(parsed)) ELSE DDEAdv(parsed)
           u == IF talked.ddeLog /\ talked.log # <<>> THEN talked ELSE CommReceive(talked)
           g2 == gone \cup Eaten(tt)
<1>1. /\ tt' = u /\ gone' = g2 /\ UNCHANGED <<mac, sent>>
      /\ \/ mq' = mq \o Advised(parsed)
         \/ \E ok \in over : mq' = mq \o EndDdeCmnd(read, ok) \o Advised(parsed)
    BY DEF OnIdle
<1>2. Underway(mac, read, mq, sent, g2)
    BY IdleReads
<1> HIDE DEF read, g2
<1>3. Alike(read, parsed)
    BY <1>2, AlikeAre DEF Underway
<1>4. Underway(mac, parsed, mq, sent, g2)
    BY <1>2, <1>3, AlikeStays
<1> HIDE DEF parsed
<1>5. talked \in {DDEAdv(parsed), EndPaste(DDEAdv(parsed))}
    OBVIOUS
<1>6. ASSUME NEW q, Underway(mac, parsed, q, sent, g2)
      PROVE  Underway(mac, u, q \o Advised(parsed), sent, g2) /\ Fetched(u, g2)
    <2> HIDE DEF talked
    <2> QED BY <1>5, <1>6, IdleEnds
<1> HIDE DEF talked, u
<1>7. CASE mq' = mq \o Advised(parsed)
    <2>1. Underway(mac, u, mq', sent, g2) /\ Fetched(u, g2)
        BY <1>4, <1>6, <1>7
    <2> QED BY <1>1, <2>1, InvHolds
<1>8. CASE \E ok \in over : mq' = mq \o EndDdeCmnd(read, ok) \o Advised(parsed)
    <2>1. PICK ok \in over : mq' = mq \o EndDdeCmnd(read, ok) \o Advised(parsed)
        BY <1>8
    <2>2. ok \in Nat
        OBVIOUS
    <2>3. Underway(mac, parsed, mq \o EndDdeCmnd(read, ok), sent, g2)
        BY <1>4, <2>2, Notifying
    <2>4. Underway(mac, u, mq', sent, g2) /\ Fetched(u, g2)
        BY <1>6, <2>1, <2>3
    <2> QED BY <1>1, <2>4, InvHolds
<1> QED BY <1>1, <1>7, <1>8

LEMMA DoUserTransfers ==
    ASSUME Inv, UserTransfers
    PROVE  Inv'
<1>1. tt' = StartsProto(tt) /\ UNCHANGED <<mac, mq, sent, gone>>
    BY DEF UserTransfers
<1>2. Alike(tt, StartsProto(tt))
    BY InvHas, AlikeAre
<1>3. Underway(mac, StartsProto(tt), mq, sent, gone) /\ Fetched(StartsProto(tt), gone)
    BY <1>2, InvHas, AlikeStays
<1> QED BY <1>1, <1>3, InvHolds

LEMMA DoProtoDlgCancel ==
    ASSUME Inv, ProtoDlgCancel
    PROVE  Inv'
<1>1. tt' = ProtoEnd(tt) /\ mq' = mq \o EndDdeCmnd(tt, 0) /\ UNCHANGED <<mac, sent, gone>>
    BY DEF ProtoDlgCancel
<1>2. Alike(tt, ProtoEnd(tt))
    BY InvHas, AlikeAre
<1>3. Underway(mac, ProtoEnd(tt), mq, sent, gone) /\ Fetched(ProtoEnd(tt), gone)
    BY <1>2, InvHas, AlikeStays
<1>4. Underway(mac, ProtoEnd(tt), mq \o EndDdeCmnd(tt, 0), sent, gone)
    BY <1>3, Notifying
<1> QED BY <1>1, <1>3, <1>4, InvHolds

\* A terminal whose log is gone, and with "all" everything that it had.
LEMMA Emptied ==
    ASSUME NEW m, NEW t, NEW q, NEW n, NEW g, NEW u \in Terminals, NEW g2, NEW all \in BOOLEAN,
           Underway(m, t, q, n, g), g \cup ToSet(t.log) \subseteq g2,
           ~u.conv, ~u.ddeLog, ~u.sync, u.log = <<>>,
           all => /\ u.inb = <<>> /\ u.wire = <<>> /\ u.port = "closed"
                  /\ ToSet(t.inb) \cup ToSet(t.wire) \subseteq g2,
           ~all => u.inb = t.inb /\ u.wire = t.wire /\ u.port = t.port /\ u.rrq = t.rrq
    PROVE  Underway(m, u, q, n, g2) /\ Fetched(u, g2)
<1>1. t \in Terminals /\ Reading(t) /\ Rising(Unfetched(t))
    BY DEF Underway, Kept, Ordered
<1>2. /\ ToSet(Unfetched(t)) = ToSet(t.log) \cup ToSet(t.inb) \cup ToSet(t.wire)
      /\ Rising(t.inb) /\ Rising(t.wire) /\ Precedes(t.inb, t.wire)
    BY <1>1, UnreadIs
<1>3. /\ Unfetched(u) \in Seq(Nat) /\ ToSet(Unfetched(u)) = ToSet(u.inb) \cup ToSet(u.wire)
      /\ Rising(u.inb) /\ Rising(u.wire) /\ Precedes(u.inb, u.wire) => Rising(Unfetched(u))
    BY Nothing, UnreadIs
<1>4. LeftOf(Unfetched(t), Unfetched(u), g2)
    <2>1. CASE all
        BY <1>2, <1>3, <2>1, Nothing DEF LeftOf
    <2>2. CASE ~all
        BY <1>2, <1>3, <2>2, Nothing DEF LeftOf
    <2> QED BY <2>1, <2>2
<1>5. Reading(u)
    <2>1. Len(<<>>) = 0 /\ 0 <= InMax /\ 0 <= LogSize
        BY LinkAssumption
    <2>2. CASE all
        BY <2>1, <2>2 DEF Reading
    <2>3. CASE ~all
        BY <1>1, <2>1, <2>3 DEF Reading
    <2> QED BY <2>2, <2>3
<1>6. Underway(m, u, q, n, g2)
    BY <1>4, <1>5, Disconnects
<1> QED BY <1>6 DEF Fetched

LEMMA EndDDEIs ==
    ASSUME NEW t \in Terminals, NEW e, e = EndDDE(t)
    PROVE  /\ e \in Terminals /\ ~e.conv /\ ~e.ddeLog /\ ~e.sync /\ e.log = <<>>
           /\ e.inb = t.inb /\ e.wire = t.wire /\ e.port = t.port /\ e.rrq = t.rrq /\ e.proto = t.proto
BY Nothing DEF EndDDE, Terminals

LEMMA DoOnDdeEnd ==
    ASSUME Inv, OnDdeEnd
    PROVE  Inv'
<1>1. /\ Underway(mac, tt, mq, sent, gone) /\ tt \in Terminals
    BY InvHas
<1> DEFINE u == [EndDDE(tt) EXCEPT !.port = IF tt.closeTT THEN "closed" ELSE @,
                                   !.wire = IF tt.closeTT THEN <<>> ELSE @,
                                   !.inb = IF tt.closeTT THEN <<>> ELSE @,
                                   !.proto = @ /\ ~tt.closeTT]
           g2 == gone \cup ToSet(tt.log) \cup (IF tt.closeTT THEN ToSet(tt.inb \o tt.wire) ELSE {})
           p == IF tt.cli THEN Posted("cmndend", 0) ELSE <<>>
<1>2. tt' = u /\ gone' = g2 /\ mq' = mq \o p /\ UNCHANGED <<mac, sent>>
    BY DEF OnDdeEnd
<1>3. /\ tt.closeTT \in BOOLEAN /\ tt.inb \in Seq(Nat) /\ tt.wire \in Seq(Nat)
    BY <1>1, TerminalHas DEF Terminals
<1>4. /\ u \in Terminals /\ ~u.conv /\ ~u.ddeLog /\ ~u.sync /\ u.log = <<>>
      /\ tt.closeTT => u.inb = <<>> /\ u.wire = <<>> /\ u.port = "closed"
      /\ ~tt.closeTT => u.inb = tt.inb /\ u.wire = tt.wire /\ u.port = tt.port /\ u.rrq = tt.rrq
    <2> DEFINE e == EndDDE(tt)
               a == IF tt.closeTT THEN "closed" ELSE e.port
               b == IF tt.closeTT THEN <<>> ELSE e.wire
               c == IF tt.closeTT THEN <<>> ELSE e.inb
               d == e.proto /\ ~tt.closeTT
    <2>1. /\ e \in Terminals /\ ~e.conv /\ ~e.ddeLog /\ ~e.sync /\ e.log = <<>>
          /\ e.inb = tt.inb /\ e.wire = tt.wire /\ e.port = tt.port /\ e.rrq = tt.rrq
        BY <1>1, EndDDEIs
    <2>2. u = [e EXCEPT !.port = a, !.wire = b, !.inb = c, !.proto = d]
        OBVIOUS
    <2> HIDE DEF e
    <2>3. /\ tt.closeTT => a = "closed" /\ b = <<>> /\ c = <<>>
          /\ ~tt.closeTT => a = tt.port /\ b = tt.wire /\ c = tt.inb
        BY <2>1
    <2>4. a \in {"opening", "open", "closing", "closed"} /\ d \in BOOLEAN
        BY <1>3, <2>1 DEF Terminals
    <2>5. b \in Seq(Nat) /\ c \in Seq(Nat)
        BY <1>3, <2>3, Nothing
    <2> HIDE DEF a, b, c, d, u
    <2>6. /\ u \in Terminals /\ ~u.conv /\ ~u.ddeLog /\ ~u.sync /\ u.log = <<>>
          /\ u.inb = c /\ u.wire = b /\ u.port = a /\ u.rrq = e.rrq
        BY <2>1, <2>2, <2>4, <2>5 DEF Terminals
    <2> QED BY <2>1, <2>3, <2>6
<1>5. /\ gone \cup ToSet(tt.log) \subseteq g2
      /\ tt.closeTT => ToSet(tt.inb) \cup ToSet(tt.wire) \subseteq g2
    <2>1. ToSet(tt.inb \o tt.wire) = ToSet(tt.inb) \cup ToSet(tt.wire)
        BY <1>3, Joined
    <2> QED BY <2>1
<1> HIDE DEF u, g2
<1>6. Underway(mac, u, mq, sent, g2) /\ Fetched(u, g2)
    BY <1>1, <1>3, <1>4, <1>5, Emptied
<1>7. Underway(mac, u, mq \o p, sent, g2)
    <2>1. "cmndend" \in Kinds \ {"data"} /\ "cmndend" \notin {"terminate", "ddeend"} /\ 0 \in Nat
        BY DEF Kinds
    <2>2. Underway(mac, u, mq \o Posted("cmndend", 0), sent, g2)
        BY <1>6, <2>1, Posting
    <2>3. mq \o <<>> = mq
        BY <1>6, PostingNothing
    <2> QED BY <1>6, <2>2, <2>3
<1> QED BY <1>2, <1>6, <1>7, InvHolds

LEMMA DoUserCloses ==
    ASSUME Inv, UserCloses
    PROVE  Inv'
<1>1. /\ Underway(mac, tt, mq, sent, gone) /\ tt \in Terminals
    BY InvHas
<1> DEFINE u == [EndDDE(tt) EXCEPT !.port = "closed", !.wire = <<>>, !.inb = <<>>,
                                   !.closeTT = TRUE, !.proto = FALSE, !.mem = FALSE, !.talk = "keyb"]
           g2 == gone \cup ToSet(tt.log \o tt.inb \o tt.wire)
           p1 == IF tt.conv THEN Posted("terminate", 0) ELSE <<>>
           p2 == IF tt.cli THEN Posted("cmndend", 0) ELSE <<>>
<1>2. tt' = u /\ gone' = g2 /\ mq' = (mq \o p1) \o p2 /\ UNCHANGED <<mac, sent>>
    BY DEF UserCloses
<1>3. ToSet(tt.log \o tt.inb \o tt.wire) = ToSet(tt.log) \cup ToSet(tt.inb) \cup ToSet(tt.wire)
    BY <1>1, UnreadIs DEF Unfetched
<1>4. /\ u \in Terminals /\ ~u.conv /\ ~u.ddeLog /\ ~u.sync /\ u.log = <<>>
      /\ u.inb = <<>> /\ u.wire = <<>> /\ u.port = "closed"
    <2> DEFINE e == EndDDE(tt)
    <2>1. e \in Terminals /\ ~e.conv /\ ~e.ddeLog /\ ~e.sync /\ e.log = <<>>
        BY <1>1, EndDDEIs
    <2> HIDE DEF e
    <2> QED BY <2>1, Nothing DEF Terminals, e
<1>5. /\ gone \cup ToSet(tt.log) \subseteq g2
      /\ ToSet(tt.inb) \cup ToSet(tt.wire) \subseteq g2
    BY <1>3
<1> HIDE DEF u, g2
<1>6. Underway(mac, u, mq, sent, g2) /\ Fetched(u, g2)
    <2>1. PICK all \in BOOLEAN : all = TRUE
        OBVIOUS
    <2> QED BY <1>1, <1>4, <1>5, <2>1, Emptied
<1>7. "terminate" \in Kinds \ {"data"} /\ "cmndend" \in Kinds \ {"data"} /\ 0 \in Nat
    BY DEF Kinds
<1>8. Underway(mac, u, mq \o p1, sent, g2)
    <2>1. Underway(mac, u, mq \o Posted("terminate", 0), sent, g2)
        BY <1>4, <1>6, <1>7, Posting
    <2>2. mq \o <<>> = mq
        BY <1>6, PostingNothing
    <2> QED BY <1>6, <2>1, <2>2
<1> HIDE DEF p1
<1>9. Underway(mac, u, (mq \o p1) \o p2, sent, g2)
    <2>1. Underway(mac, u, (mq \o p1) \o Posted("cmndend", 0), sent, g2)
        BY <1>4, <1>7, <1>8, Posting
    <2>2. (mq \o p1) \o <<>> = mq \o p1
        BY <1>8, PostingNothing
    <2> QED BY <1>8, <2>1, <2>2
<1> QED BY <1>2, <1>6, <1>9, InvHolds

-----------------------------------------------------------------------------
(* The macro starts.                                                        *)

LEMMA NoMacroIs ==
    /\ NoMacro \in Programs /\ NoMacro.ring = <<>> /\ ~NoMacro.linked /\ ~NoMacro.sync
    /\ [NoMacro EXCEPT !.status = "Starting"] \in Programs
BY Nothing DEF NoMacro, Programs, Statuses

LEMMA DoRunMacro ==
    ASSUME Inv, RunMacro
    PROVE  Inv'
<1>1. /\ Underway(mac, tt, mq, sent, gone) /\ tt \in Terminals /\ Reading(tt) /\ Talking(mac, tt, mq)
      /\ Kept(mac.ring, mq, Unfetched(tt), sent, gone) /\ mq \in Seq(Messages)
    BY InvHas
<1> DEFINE u == [tt EXCEPT !.ddeLog = TRUE, !.log = <<>>, !.sync = FALSE]
           m == [NoMacro EXCEPT !.status = "Starting"]
           g2 == gone \cup IF Stranded(tt) THEN ToSet(tt.wire) ELSE {}
<1>2. /\ mac.status = "None" /\ ~tt.conv /\ ~tt.ddeEnd /\ ~tt.closeTT
      /\ mac' = m /\ tt' = u /\ mq' = <<>> /\ gone' = g2 /\ sent' = sent
    BY DEF RunMacro
<1>3. ~tt.ddeLog /\ tt.log = <<>> /\ mac.ring = <<>> /\ IsData(mq) = {}
    BY <1>1, <1>2 DEF Talking, Reading
<1>4. /\ u \in Terminals /\ u.log = <<>> /\ u.inb = tt.inb /\ u.wire = tt.wire /\ u.rrq = tt.rrq
      /\ u.port = tt.port /\ u.ddeLog /\ ~u.conv /\ ~u.sync
    BY <1>1, <1>2, Nothing DEF Terminals
<1>5. /\ m \in Programs /\ m.ring = <<>> /\ ~m.linked /\ ~m.sync /\ m.status = "Starting"
      /\ m = [NoMacro EXCEPT !.status = "Starting"]
    BY NoMacroIs DEF NoMacro
<1>6. gone \subseteq g2 /\ (Stranded(tt) => ToSet(tt.wire) \subseteq g2)
    OBVIOUS
<1> HIDE DEF u, m, g2
<1>7. Unfetched(u) = Unfetched(tt) /\ Reading(u) /\ Fetched(u, g2)
    BY <1>1, <1>3, <1>4, <1>6 DEF Unfetched, Reading, Fetched, Stranded
<1>8. Kept(<<>>, <<>>, Unfetched(u), sent, g2)
    <2>1. ToSet(mac.ring) \subseteq g2 /\ Posts(mq) \subseteq g2
        BY <1>1, <1>3, Nothing, NoPosts
    <2> QED BY <1>1, <1>6, <1>7, <2>1, Wipes
<1>9. IsData(<<>>) = {} /\ Len(<<>>) = 0
    BY DEF IsData
<1>10. Talking(m, u, <<>>)
    BY <1>4, <1>5, <1>9 DEF Talking
<1>11. Roomy(m, u, <<>>)
    BY <1>5, <1>9, LinkAssumption DEF Roomy
<1>12. Underway(m, u, <<>>, sent, g2)
    BY <1>4, <1>5, <1>7, <1>8, <1>10, <1>11 DEF Underway
<1> QED BY <1>2, <1>7, <1>12, InvHolds

LEMMA DoInitDDE ==
    ASSUME Inv, InitDDE
    PROVE  Inv'
<1>1. /\ Underway(mac, tt, mq, sent, gone) /\ tt \in Terminals /\ mac \in Programs /\ Reading(tt)
      /\ Talking(mac, tt, mq) /\ Fetched(tt, gone)
      /\ Kept(mac.ring, mq, Unfetched(tt), sent, gone) /\ mq \in Seq(Messages)
    BY InvHas
<1> DEFINE u == [tt EXCEPT !.conv = TRUE, !.cli = TRUE, !.adv = TRUE]
           m == [mac EXCEPT !.status = "Run", !.linked = TRUE]
<1>2. /\ mac.status = "Starting" /\ mac' = m /\ tt' = u
      /\ mq' = (IF Ready(tt) THEN Posted("ready", 1) ELSE <<>>) /\ UNCHANGED <<sent, gone>>
    BY DEF InitDDE
<1>3. mac.ring = <<>> /\ IsData(mq) = {} /\ ~mac.sync /\ ~tt.sync
    <2>1. [NoMacro EXCEPT !.status = "Starting"].sync = FALSE
        BY DEF NoMacro
    <2> QED BY <1>1, <1>2, <2>1 DEF Talking
<1>4. /\ u \in Terminals /\ u.log = tt.log /\ u.inb = tt.inb /\ u.wire = tt.wire /\ u.rrq = tt.rrq
      /\ u.port = tt.port /\ u.ddeLog = tt.ddeLog /\ u.conv /\ ~u.sync
    BY <1>1, <1>3 DEF Terminals
<1>5. /\ m \in Programs /\ m.ring = <<>> /\ m.linked /\ ~m.sync /\ m.status = "Run"
    BY <1>1, <1>3 DEF Programs, Statuses
<1> HIDE DEF u, m
<1>6. Unfetched(u) = Unfetched(tt) /\ Reading(u) /\ Fetched(u, gone)
    BY <1>1, <1>4 DEF Unfetched, Reading, Fetched, Stranded
<1>7. Kept(<<>>, <<>>, Unfetched(u), sent, gone)
    <2>1. ToSet(mac.ring) \subseteq gone /\ Posts(mq) \subseteq gone
        BY <1>1, <1>3, Nothing, NoPosts
    <2> QED BY <1>1, <1>6, <2>1, Wipes
<1>8. IsData(<<>>) = {} /\ Len(<<>>) = 0 /\ NoEnd(<<>>)
    BY DEF IsData, NoEnd
<1>9. Talking(m, u, <<>>)
    BY <1>4, <1>5, <1>8 DEF Talking
<1>10. Roomy(m, u, <<>>)
    BY <1>5, <1>8, LinkAssumption DEF Roomy
<1>11. Underway(m, u, <<>>, sent, gone)
    BY <1>4, <1>5, <1>6, <1>7, <1>9, <1>10 DEF Underway
<1>12. Underway(m, u, <<>> \o Posted("ready", 1), sent, gone)
    <2>1. "ready" \in Kinds \ {"data"} /\ "ready" \notin {"terminate", "ddeend"} /\ 1 \in Nat
        BY DEF Kinds
    <2> QED BY <1>11, <2>1, Posting
<1>13. <<>> \o Posted("ready", 1) = Posted("ready", 1)
    <2>1. PICK x \in Messages : Posted("ready", 1) = <<x>>
        BY PostedIs DEF Kinds
    <2> QED BY <2>1, ConcatEmptySeq
<1>14. Underway(m, u, mq', sent, gone)
    BY <1>2, <1>11, <1>12, <1>13
<1> QED BY <1>2, <1>6, <1>14, InvHolds

LEMMA DoNoServer ==
    ASSUME Inv, InitDDE_NoServer
    PROVE  Inv'
<1>1. /\ Underway(mac, tt, mq, sent, gone) /\ tt \in Terminals /\ mac \in Programs /\ Reading(tt)
      /\ Talking(mac, tt, mq) /\ Roomy(mac, tt, mq) /\ Fetched(tt, gone)
      /\ Kept(mac.ring, mq, Unfetched(tt), sent, gone)
    BY InvHas DEF Underway
<1> DEFINE m == [mac EXCEPT !.status = "Run"]
<1>2. mac.status = "Starting" /\ ~tt.ddeLog /\ mac' = m /\ UNCHANGED <<tt, mq, sent, gone>>
    BY DEF InitDDE_NoServer
<1>3. /\ m \in Programs /\ m.ring = mac.ring /\ m.linked = mac.linked /\ m.sync = mac.sync
      /\ m.clean = mac.clean /\ m.sent = mac.sent /\ m.status = "Run"
    BY <1>1 DEF Programs, Statuses
<1> HIDE DEF m
<1>4. Talking(m, tt, mq)
    BY <1>1, <1>2, <1>3 DEF Talking
<1>5. Roomy(m, tt, mq)
    BY <1>1, <1>3 DEF Roomy
<1>6. Underway(m, tt, mq, sent, gone)
    BY <1>1, <1>3, <1>4, <1>5 DEF Underway
<1> QED BY <1>1, <1>2, <1>6, InvHolds

-----------------------------------------------------------------------------
(* The macro: its messages and its timer.                                   *)

\* What of the macro the invariant looks at, its status but for the beginning.
ViewOf(m) == <<m.ring, m.linked, m.sync, m.clean, m.sent>>
Begun(m) == m.status \notin {"None", "Starting"}
SameMacro(m, m2) ==
    /\ m2 \in Programs /\ ViewOf(m2) = ViewOf(m)
    /\ Begun(m) /\ Begun(m2)

LEMMA SameView ==
    ASSUME NEW m, NEW m2, ViewOf(m2) = ViewOf(m)
    PROVE  /\ m2.ring = m.ring /\ m2.linked = m.linked /\ m2.sync = m.sync
           /\ m2.clean = m.clean /\ m2.sent = m.sent
BY DEF ViewOf

LEMMA MacroMoves ==
    ASSUME NEW m, NEW t, NEW q, NEW n, NEW g, NEW m2, Underway(m, t, q, n, g), SameMacro(m, m2)
    PROVE  Underway(m2, t, q, n, g)
<1>1. /\ t \in Terminals /\ Kept(m.ring, q, Unfetched(t), n, g)
      /\ Reading(t) /\ Talking(m, t, q) /\ Roomy(m, t, q)
    BY DEF Underway
<1>2. /\ m2.ring = m.ring /\ m2.linked = m.linked /\ m2.sync = m.sync
      /\ m2.clean = m.clean /\ m2.sent = m.sent
    BY SameView DEF SameMacro
<1>3. m2 \in Programs /\ Talking(m2, t, q)
    BY <1>1, <1>2 DEF Talking, Begun, SameMacro
<1>4. Roomy(m2, t, q)
    BY <1>1, <1>2 DEF Roomy
<1> QED BY <1>1, <1>2, <1>3, <1>4 DEF Underway

\* The conversation is over, and the macro learns it.
LEMMA MacroUnlinks ==
    ASSUME NEW m, NEW t, NEW q, NEW n, NEW g, NEW m2 \in Programs, Underway(m, t, q, n, g),
           ~t.conv, Begun(m), Begun(m2), m2.ring = m.ring, ~m2.linked
    PROVE  Underway(m2, t, q, n, g)
<1>1. /\ t \in Terminals /\ Kept(m.ring, q, Unfetched(t), n, g)
      /\ Reading(t) /\ Talking(m, t, q) /\ Roomy(m, t, q)
    BY DEF Underway
<1>2. Talking(m2, t, q)
    BY <1>1 DEF Talking, Begun
<1>3. Roomy(m2, t, q)
    BY <1>1 DEF Roomy
<1> QED BY <1>1, <1>2, <1>3 DEF Underway

\* The queue without its first message.
LEMMA QueueRest ==
    ASSUME NEW q \in Seq(Messages), q # <<>>
    PROVE  /\ Head(q) \in Messages /\ Head(q) = q[1] /\ 1 \in 1..Len(q) /\ Tail(q) \in Seq(Messages)
           /\ Head(q).bytes \in Seq(Nat) /\ Head(q).v \in Nat /\ Head(q).kind \in Kinds
           /\ Head(q).kind # "data" => Head(q).bytes = <<>>
           /\ \A i \in IsData(Tail(q)) : i + 1 \in IsData(q) /\ i + 1 # 1 /\ Tail(q)[i] = q[i + 1]
           /\ Head(q).kind = "data" => 1 \in IsData(q)
           /\ NoEnd(q) => NoEnd(Tail(q)) /\ Head(q).kind \notin {"terminate", "ddeend"}
<1> DEFINE h == Head(q)
           r == Tail(q)
<1>1. Len(q) \in Nat /\ Len(q) # 0 /\ h = q[1] /\ h \in Messages
    BY EmptySeq, LenProperties, HeadTailProperties
<1>2. r \in Seq(Messages) /\ Len(r) = Len(q) - 1 /\ \A i \in 1..Len(r) : r[i] = q[i + 1]
    BY HeadTailProperties
<1> HIDE DEF h, r
<1>3. 1 \in 1..Len(q) /\ \A i \in 1..Len(r) : i + 1 \in 1..Len(q) /\ i + 1 # 1
    BY <1>1, <1>2
<1>4. /\ h.bytes \in Seq(Nat) /\ h.v \in Nat /\ h.kind \in Kinds /\ (h.kind # "data" => h.bytes = <<>>)
    BY <1>1 DEF Messages
<1>5. \A i \in IsData(r) : i + 1 \in IsData(q) /\ i + 1 # 1 /\ r[i] = q[i + 1]
    BY <1>2, <1>3 DEF IsData
<1>6. h.kind = "data" => 1 \in IsData(q)
    BY <1>1, <1>3 DEF IsData
<1>7. NoEnd(q) => NoEnd(r) /\ h.kind \notin {"terminate", "ddeend"}
    BY <1>1, <1>2, <1>3 DEF NoEnd
<1> QED BY <1>1, <1>2, <1>3, <1>4, <1>5, <1>6, <1>7 DEF h, r

\* A message whose bytes are gone or are none.
LEMMA Drops ==
    ASSUME NEW m, NEW t, NEW q, NEW n, NEW g, NEW g2, Underway(m, t, q, n, g), q # <<>>,
           g \subseteq g2, ToSet(Head(q).bytes) \subseteq g2, Begun(m)
    PROVE  Underway(m, t, Tail(q), n, g2)
<1> DEFINE u == Head(q).bytes
           r == Tail(q)
<1>1. /\ m \in Programs /\ t \in Terminals /\ Kept(m.ring, q, Unfetched(t), n, g)
      /\ Reading(t) /\ Talking(m, t, q) /\ Roomy(m, t, q) /\ q \in Seq(Messages) /\ m.ring \in Seq(Nat)
    BY DEF Underway, Kept
<1>2. Kept(m.ring \o u, r, Unfetched(t), n, g)
    BY <1>1, Takes
<1>3. /\ u \in Seq(Nat)
      /\ \A i \in IsData(r) : i + 1 \in IsData(q) /\ r[i] = q[i + 1]
      /\ NoEnd(q) => NoEnd(r)
    BY <1>1, QueueRest
<1>4. LeftOf(m.ring \o u, m.ring, g2)
    <2>1. ToSet(m.ring \o u) = ToSet(m.ring) \cup ToSet(u)
        BY <1>1, <1>3, Joined
    <2>2. Rising(m.ring)
        BY <1>1 DEF Kept, Ordered
    <2> QED BY <1>1, <2>1, <2>2 DEF LeftOf
<1> HIDE DEF u, r
<1>5. Kept(m.ring, r, Unfetched(t), n, g2)
    BY <1>2, <1>4, Thins, KeptWhole
<1>6. Talking(m, t, r)
    BY <1>1, <1>3 DEF Talking, Begun
<1>7. Roomy(m, t, r)
    <2>1. IsData(q) = {} => IsData(r) = {}
        BY <1>3
    <2>2. ASSUME \A i, j \in IsData(q) : i = j PROVE \A i, j \in IsData(r) : i = j
        <3>1. ASSUME NEW i \in IsData(r), NEW j \in IsData(r) PROVE i = j
            <4>1. i + 1 \in IsData(q) /\ j + 1 \in IsData(q)
                BY <1>3
            <4>2. i + 1 = j + 1
                BY <2>2, <4>1
            <4>3. i \in 1..Len(r) /\ j \in 1..Len(r)
                BY DEF IsData
            <4> QED BY <4>2, <4>3
        <3> QED BY <3>1
    <2> QED BY <1>1, <1>3, <2>1, <2>2 DEF Roomy
<1>8. Underway(m, t, r, n, g2)
    BY <1>1, <1>5, <1>6, <1>7 DEF Underway
<1> QED BY <1>8 DEF r

\* The bytes of a message go into the ring.
LEMMA Accepts ==
    ASSUME NEW m, NEW t, NEW q, NEW n, NEW g, NEW g2, Underway(m, t, q, n, g), q # <<>>,
           Head(q).kind = "data", Begun(m), m.linked, g \subseteq g2,
           ~(m.sync /\ m.clean) => Overwritten(m, Head(q).bytes) \subseteq g2
    PROVE  Underway(AcceptData(m, Head(q).bytes), t, Tail(q), n, g2)
<1> DEFINE u == Head(q).bytes
           r == Tail(q)
           w == m.ring \o u
           z == Newest(w, RingSize)
           m2 == [m EXCEPT !.ring = z, !.sent = FALSE]
<1>1. /\ m \in Programs /\ t \in Terminals /\ Kept(m.ring, q, Unfetched(t), n, g)
      /\ Reading(t) /\ Talking(m, t, q) /\ Roomy(m, t, q) /\ q \in Seq(Messages) /\ m.ring \in Seq(Nat)
    BY DEF Underway, Kept
<1>2. Kept(w, r, Unfetched(t), n, g)
    BY <1>1, Takes
<1>3. /\ u \in Seq(Nat) /\ u = q[1].bytes /\ 1 \in IsData(q)
      /\ \A i \in IsData(r) : i + 1 \in IsData(q) /\ i + 1 # 1
      /\ NoEnd(q) => NoEnd(r)
    BY <1>1, QueueRest
<1>4. AcceptData(m, u) = m2 /\ Overwritten(m, u) = ToSet(w) \ ToSet(z)
    BY DEF AcceptData, Overwritten
<1>5. w \in Seq(Nat) /\ Len(w) = Len(m.ring) + Len(u) /\ Rising(w)
    BY <1>1, <1>2, <1>3, Joined DEF Kept, Ordered
<1>6. /\ z \in Seq(Nat) /\ Len(z) <= RingSize /\ ToSet(z) \subseteq ToSet(w) /\ Rising(z)
      /\ Len(w) <= RingSize => z = w
    <2> HIDE DEF w
    <2> QED BY <1>5, NewestIs, LinkAssumption
<1> HIDE DEF u, r, w, z
<1>7. /\ m2 \in Programs /\ m2.ring = z /\ m2.status = m.status /\ m2.linked = m.linked
      /\ m2.sync = m.sync /\ m2.clean = m.clean /\ m2.sent = FALSE
    BY <1>1, <1>6 DEF Programs
<1> HIDE DEF m2
<1>8. ASSUME m.sync /\ m.clean PROVE z = w /\ IsData(r) = {} /\ ~(t.conv /\ t.recv)
    <2>1. /\ \A i, j \in IsData(q) : i = j
          /\ Len(m.ring) + Len(q[1].bytes) <= RingSize
          /\ ~(t.conv /\ t.recv)
        BY <1>1, <1>3, <1>8 DEF Roomy
    <2>2. IsData(r) = {}
        BY <1>3, <2>1
    <2> QED BY <1>3, <1>5, <1>6, <2>1, <2>2
<1>9. ToSet(w) \subseteq ToSet(z) \cup g2
    <2>1. CASE m.sync /\ m.clean
        BY <1>8, <2>1
    <2>2. CASE ~(m.sync /\ m.clean)
        BY <1>4, <2>2 DEF u
    <2> QED BY <2>1, <2>2
<1>10. LeftOf(w, z, g2)
    BY <1>6, <1>9 DEF LeftOf
<1>11. Kept(z, r, Unfetched(t), n, g2)
    BY <1>2, <1>10, Thins, KeptWhole
<1>12. Talking(m2, t, r)
    BY <1>1, <1>3, <1>7 DEF Talking, Begun
<1>13. Roomy(m2, t, r)
    BY <1>6, <1>7, <1>8 DEF Roomy
<1>14. Underway(m2, t, r, n, g2)
    BY <1>1, <1>7, <1>11, <1>12, <1>13 DEF Underway
<1> QED BY <1>4, <1>14 DEF u, r

\* The messages without data.
LEMMA HandledIs ==
    ASSUME NEW m \in Programs, NEW h \in Messages, h.kind # "data", Begun(m),
           NEW m2, m2 = [Handled(m, h) EXCEPT !.loop = "peek"]
    PROVE  /\ m2 \in Programs /\ Begun(m2) /\ m2.ring = m.ring
           /\ h.kind \in {"terminate", "ddeend"} => ~m2.linked
           /\ h.kind \notin {"terminate", "ddeend"} => ViewOf(m2) = ViewOf(m)
<1>1. h.kind \in Kinds /\ h.v \in Nat /\ m.timer \in BOOLEAN /\ m.status \in Statuses
    BY DEF Messages, Programs
<1>2. CASE h.kind = "ready"
    <2> DEFINE s == IF Wakes(m, h.v) THEN "Run" ELSE m.status
               x == m.timer \/ (Waits(m) /\ h.v = 0)
    <2>1. m2 = [[m EXCEPT !.ready = h.v, !.timer = x, !.status = s] EXCEPT !.loop = "peek"]
        BY <1>2 DEF Handled, OnDdeComReady
    <2>2. s \in Statuses \ {"None", "Starting"} /\ x \in BOOLEAN
        BY <1>1 DEF Statuses, Begun
    <2> HIDE DEF s, x
    <2>3. m2 \in Programs /\ m2.status = s /\ m2.ring = m.ring /\ ViewOf(m2) = ViewOf(m)
        BY <1>1, <2>1, <2>2 DEF Programs, ViewOf
    <2> QED BY <1>2, <2>2, <2>3 DEF Begun
<1>3. CASE h.kind = "cmndend"
    <2> DEFINE s == IF InCommand(m) THEN "Run" ELSE m.status
    <2>1. m2 = [[m EXCEPT !.status = s] EXCEPT !.loop = "peek"]
        BY <1>3 DEF Handled, OnDdeCmndEnd
    <2>2. s \in Statuses \ {"None", "Starting"}
        BY <1>1 DEF Statuses, Begun
    <2> HIDE DEF s
    <2>3. m2 \in Programs /\ m2.status = s /\ m2.ring = m.ring /\ ViewOf(m2) = ViewOf(m)
        BY <1>1, <2>1, <2>2 DEF Programs, ViewOf
    <2> QED BY <1>3, <2>2, <2>3 DEF Begun
<1>4. CASE h.kind = "ddeend"
    <2> DEFINE e == MacroEndDDE(m)
               s == IF InCommand(e) \/ (e.status = "Sleep" /\ e.wake \cap {"init", "unlink"} # {})
                    THEN "Run" ELSE e.status
               x == e.timer \/ Waits(e)
               s2 == IF InCommand(m) \/ (m.status = "Sleep" /\ m.wake \cap {"init", "unlink"} # {})
                     THEN "Run" ELSE m.status
               x2 == m.timer \/ Waits(m)
    <2>1. m2 = [[e EXCEPT !.timer = x2, !.status = s2] EXCEPT !.loop = "peek"]
        BY <1>4 DEF Handled, MacroOnDdeEnd, MacroEndDDE, Programs
    <2>2. s2 \in Statuses \ {"None", "Starting"} /\ x2 \in BOOLEAN
        BY <1>1 DEF Statuses, Begun
    <2>3. e \in Programs /\ e.ring = m.ring /\ ~e.linked
        BY DEF MacroEndDDE, Programs
    <2> HIDE DEF e, s2, x2
    <2>4. m2 \in Programs /\ m2.status = s2 /\ m2.ring = m.ring /\ ~m2.linked
        BY <2>1, <2>2, <2>3 DEF Programs
    <2> QED BY <1>4, <2>2, <2>4 DEF Begun
<1>5. CASE h.kind = "terminate"
    <2>1. m2 = [[m EXCEPT !.linked = FALSE] EXCEPT !.loop = "peek"]
        BY <1>5 DEF Handled
    <2>2. m2 \in Programs /\ m2.status = m.status /\ m2.ring = m.ring /\ ~m2.linked
        BY <2>1 DEF Programs
    <2> QED BY <1>5, <2>2 DEF Begun
<1> QED BY <1>1, <1>2, <1>3, <1>4, <1>5 DEF Kinds

LEMMA DoDispatch ==
    ASSUME Inv, Dispatch
    PROVE  Inv'
<1> DEFINE h == Head(mq)
           m2 == [Handled(mac, h) EXCEPT !.loop = "peek"]
           p == IF h.kind = "terminate" THEN Posted("ddeend", 0) ELSE <<>>
           g2 == gone \cup IF h.kind # "data" THEN {}
                           ELSE IF ~mac.linked THEN ToSet(h.bytes)
                           ELSE IF mac.sync /\ mac.clean THEN {} ELSE Overwritten(mac, h.bytes)
<1>1. /\ Underway(mac, tt, mq, sent, gone) /\ mac \in Programs /\ tt \in Terminals
      /\ Talking(mac, tt, mq) /\ Fetched(tt, gone) /\ mq \in Seq(Messages)
    BY InvHas
<1>2. /\ Begun(mac) /\ mq # <<>> /\ mac' = m2 /\ mq' = Tail(mq) \o p /\ gone' = g2
      /\ UNCHANGED <<tt, sent>>
    BY DEF Dispatch, Begun
<1>3. /\ h \in Messages /\ (h.kind # "data" => h.bytes = <<>>)
      /\ NoEnd(mq) => h.kind \notin {"terminate", "ddeend"}
    BY <1>1, <1>2, QueueRest
<1>4. gone \subseteq g2
    OBVIOUS
<1>5. Fetched(tt, g2)
    BY <1>1, <1>4, GoneMore
<1>6. CASE h.kind # "data"
    <2>1. Underway(mac, tt, Tail(mq), sent, g2)
        <3>1. ToSet(Head(mq).bytes) \subseteq g2
            BY <1>3, <1>6, Nothing
        <3> HIDE DEF g2
        <3> QED BY <1>1, <1>2, <1>4, <3>1, Drops
    <2>2. /\ m2 \in Programs /\ Begun(m2) /\ m2.ring = mac.ring
          /\ h.kind \in {"terminate", "ddeend"} => ~m2.linked
          /\ h.kind \notin {"terminate", "ddeend"} => ViewOf(m2) = ViewOf(mac)
        BY <1>1, <1>2, <1>3, <1>6, HandledIs
    <2> HIDE DEF h, m2, g2
    <2>3. h.kind \in {"terminate", "ddeend"} => ~tt.conv
        BY <1>1, <1>3 DEF Talking
    <2>4. Underway(m2, tt, Tail(mq), sent, g2)
        <3>1. CASE h.kind \in {"terminate", "ddeend"}
            BY <1>2, <2>1, <2>2, <2>3, <3>1, MacroUnlinks
        <3>2. CASE h.kind \notin {"terminate", "ddeend"}
            <4>1. SameMacro(mac, m2)
                BY <1>2, <2>2, <3>2 DEF SameMacro
            <4> QED BY <2>1, <4>1, MacroMoves
        <3> QED BY <3>1, <3>2
    <2>5. Underway(m2, tt, Tail(mq) \o p, sent, g2)
        <3>1. CASE h.kind = "terminate"
            <4>1. "ddeend" \in Kinds \ {"data"} /\ 0 \in Nat /\ ~tt.conv
                BY <2>3, <3>1 DEF Kinds
            <4>2. Underway(m2, tt, Tail(mq) \o Posted("ddeend", 0), sent, g2)
                BY <2>4, <4>1, Posting
            <4> QED BY <3>1, <4>2
        <3>2. CASE h.kind # "terminate"
            <4>1. Tail(mq) \o <<>> = Tail(mq)
                BY <2>4, PostingNothing
            <4> QED BY <2>4, <3>2, <4>1
        <3> QED BY <3>1, <3>2
    <2> QED BY <1>2, <1>5, <2>5, InvHolds
<1>7. CASE h.kind = "data"
    <2>1. p = <<>>
        BY <1>7
    <2> DEFINE a == Handled(mac, h)
    <2>2. Underway(a, tt, Tail(mq), sent, g2) /\ Begun(a) /\ a \in Programs
        <3>1. CASE ~mac.linked
            <4>1. a = mac /\ ToSet(Head(mq).bytes) \subseteq g2
                BY <1>7, <3>1 DEF Handled
            <4> HIDE DEF a, g2
            <4> QED BY <1>1, <1>2, <1>4, <4>1, Drops
        <3>2. CASE mac.linked
            <4>1. a = AcceptData(mac, Head(mq).bytes)
                BY <1>7, <3>2 DEF Handled
            <4>2. ~(mac.sync /\ mac.clean) => Overwritten(mac, Head(mq).bytes) \subseteq g2
                BY <1>7, <3>2
            <4> HIDE DEF a, g2
            <4>3. Underway(a, tt, Tail(mq), sent, g2)
                BY <1>1, <1>2, <1>4, <1>7, <3>2, <4>1, <4>2, Accepts
            <4>4. Begun(a)
                BY <1>1, <1>2, <4>1 DEF AcceptData, Begun, Programs
            <4> QED BY <4>3, <4>4 DEF Underway
        <3> QED BY <3>1, <3>2
    <2> HIDE DEF a, g2
    <2>3. m2 = [a EXCEPT !.loop = "peek"]
        BY DEF a
    <2>4. m2 \in Programs /\ Begun(m2) /\ ViewOf(m2) = ViewOf(a)
        BY <2>2, <2>3 DEF Programs, Begun, ViewOf
    <2> HIDE DEF m2
    <2>5. Underway(m2, tt, Tail(mq), sent, g2)
        <3>1. SameMacro(a, m2)
            BY <2>2, <2>4 DEF SameMacro
        <3> QED BY <2>2, <3>1, MacroMoves
    <2>6. Tail(mq) \o <<>> = Tail(mq)
        BY <2>5, PostingNothing
    <2>7. Underway(m2, tt, Tail(mq) \o p, sent, g2)
        BY <2>1, <2>5, <2>6
    <2> QED BY <1>2, <1>5, <2>7, InvHolds
<1> QED BY <1>6, <1>7

LEMMA DoOnTimer ==
    ASSUME Inv, OnTimer
    PROVE  Inv'
<1>1. /\ Underway(mac, tt, mq, sent, gone) /\ mac \in Programs /\ Talking(mac, tt, mq) /\ Fetched(tt, gone)
    BY InvHas
<1>2. mac.timer /\ UNCHANGED <<tt, mq, sent, gone>>
    BY DEF OnTimer
<1>3. PICK over \in BOOLEAN, x \in BOOLEAN :
        mac' = [mac EXCEPT !.status = IF over THEN "Run" ELSE @, !.loop = "peek", !.timer = x]
    <2>1. PICK timeOut \in BOOLEAN :
            LET over == \/ mac.status = "Wait" /\ (Expired(mac) \/ timeOut)
                        \/ mac.status = "Pause" /\ timeOut
                        \/ mac.status = "Sleep" /\ timeOut /\ "timeout" \in mac.wake
                        \/ InCommand(mac) \/ mac.status = "End"
            IN  mac' = [mac EXCEPT
                          !.status = IF over THEN "Run" ELSE @, !.loop = "peek",
                          !.timer = ~(timeOut \/ over \/ mac.status = "Run")]
        BY DEF OnTimer
    <2> DEFINE over == \/ mac.status = "Wait" /\ (Expired(mac) \/ timeOut)
                       \/ mac.status = "Pause" /\ timeOut
                       \/ mac.status = "Sleep" /\ timeOut /\ "timeout" \in mac.wake
                       \/ InCommand(mac) \/ mac.status = "End"
               x == ~(timeOut \/ over \/ mac.status = "Run")
    <2>2. mac' = [mac EXCEPT !.status = IF over THEN "Run" ELSE @, !.loop = "peek", !.timer = x]
        BY <2>1
    <2>3. over \in BOOLEAN /\ x \in BOOLEAN
        OBVIOUS
    <2> HIDE DEF over, x
    <2> QED BY <2>2, <2>3
<1>4. Begun(mac)
    BY <1>1, <1>2 DEF Talking, NoMacro, Begun
<1> DEFINE s == IF over THEN "Run" ELSE mac.status
           m2 == [mac EXCEPT !.status = s, !.loop = "peek", !.timer = x]
<1>5. mac' = m2 /\ s \in Statuses /\ s \notin {"None", "Starting"}
    BY <1>1, <1>3, <1>4 DEF Programs, Statuses, Begun
<1> HIDE DEF s
<1>6. m2 \in Programs /\ m2.status = s /\ ViewOf(m2) = ViewOf(mac)
    BY <1>1, <1>5 DEF Programs, ViewOf
<1> HIDE DEF m2
<1>7. Underway(m2, tt, mq, sent, gone)
    <2>1. SameMacro(mac, m2)
        BY <1>1, <1>4, <1>5, <1>6 DEF SameMacro, Begun
    <2> QED BY <1>1, <2>1, MacroMoves
<1> QED BY <1>1, <1>2, <1>5, <1>7, InvHolds

LEMMA DoPeek ==
    ASSUME Inv, Peek
    PROVE  Inv'
<1>1. /\ Underway(mac, tt, mq, sent, gone) /\ mac \in Programs /\ Fetched(tt, gone)
    BY InvHas
<1> DEFINE m2 == [mac EXCEPT !.loop = "idle"]
<1>2. Begun(mac) /\ mac' = m2 /\ UNCHANGED <<tt, mq, sent, gone>>
    BY DEF Peek, Begun
<1>3. m2 \in Programs /\ Begun(m2) /\ ViewOf(m2) = ViewOf(mac)
    BY <1>1, <1>2 DEF Programs, Begun, ViewOf
<1> HIDE DEF m2
<1>4. Underway(m2, tt, mq, sent, gone)
    <2>1. SameMacro(mac, m2)
        BY <1>2, <1>3 DEF SameMacro
    <2> QED BY <1>1, <2>1, MacroMoves
<1> QED BY <1>1, <1>2, <1>4, InvHolds

-----------------------------------------------------------------------------
(* The macro at work: OnIdle, and the commands.                              *)

\* Both sides of a step, as Step takes them.
Pair(m, t, q, g) == [m |-> m, t |-> t, q |-> q, g |-> g]
Good(m, t, q, g) == Underway(m, t, q, sent, g) /\ Fetched(t, g) /\ Begun(m)
Fine(b) == b = Pair(b.m, b.t, b.q, b.g) /\ Good(b.m, b.t, b.q, b.g)

LEMMA PairIs ==
    ASSUME NEW m, NEW t, NEW q, NEW g, NEW b, b = Pair(m, t, q, g), NEW x
    PROVE  /\ b.m = m /\ b.t = t /\ b.q = q /\ b.g = g
           /\ [b EXCEPT !.m = x] = Pair(x, t, q, g)
           /\ [b EXCEPT !.t = x] = Pair(m, x, q, g)
           /\ [b EXCEPT !.q = x] = Pair(m, t, x, g)
           /\ [b EXCEPT !.g = x] = Pair(m, t, q, x)
BY DEF Pair

LEMMA PairFine ==
    ASSUME NEW m, NEW t, NEW q, NEW g, NEW b, b = Pair(m, t, q, g), Good(m, t, q, g)
    PROVE  Fine(b)
<1>1. b.m = m /\ b.t = t /\ b.q = q /\ b.g = g
    BY DEF Pair
<1> QED BY <1>1 DEF Fine

LEMMA FineHas ==
    ASSUME NEW b, Fine(b)
    PROVE  /\ b = Pair(b.m, b.t, b.q, b.g) /\ Underway(b.m, b.t, b.q, sent, b.g)
           /\ Fetched(b.t, b.g) /\ Begun(b.m) /\ b.m \in Programs /\ b.t \in Terminals
           /\ Kept(b.m.ring, b.q, Unfetched(b.t), sent, b.g) /\ b.m.ring \in Seq(Nat) /\ Len(b.m.ring) \in Nat
           /\ Reading(b.t) /\ Talking(b.m, b.t, b.q) /\ Roomy(b.m, b.t, b.q)
<1>1. Underway(b.m, b.t, b.q, sent, b.g) /\ Fetched(b.t, b.g) /\ Begun(b.m)
    BY DEF Fine, Good
<1>2. Kept(b.m.ring, b.q, Unfetched(b.t), sent, b.g)
    BY <1>1 DEF Underway
<1>3. b.m.ring \in Seq(Nat) /\ Len(b.m.ring) \in Nat
    BY <1>2, LenProperties DEF Kept
<1> QED BY <1>1, <1>2, <1>3 DEF Fine, Underway

LEMMA Changed ==
    ASSUME NEW b, Fine(b), NEW x, NEW y
    PROVE  /\ [b EXCEPT !.m = x] = Pair(x, b.t, b.q, b.g)
           /\ [b EXCEPT !.m = x, !.t = y] = Pair(x, y, b.q, b.g)
           /\ [b EXCEPT !.m = x, !.g = y] = Pair(x, b.t, b.q, y)
<1> DEFINE m == b.m
           t == b.t
           q == b.q
           g == b.g
<1>1. b = Pair(m, t, q, g)
    BY DEF Fine
<1> HIDE DEF m, t, q, g
<1>2. /\ [b EXCEPT !.m = x] = Pair(x, t, q, g)
      /\ [b EXCEPT !.m = x, !.t = y] = Pair(x, y, q, g)
      /\ [b EXCEPT !.m = x, !.g = y] = Pair(x, t, q, y)
    <2> DEFINE c == [b EXCEPT !.m = x]
    <2>2. /\ [b EXCEPT !.m = x, !.t = y] = [c EXCEPT !.t = y]
          /\ [b EXCEPT !.m = x, !.g = y] = [c EXCEPT !.g = y]
        OBVIOUS
    <2>3. c = [b EXCEPT !.m = x]
        OBVIOUS
    <2> HIDE DEF c
    <2>1. c = Pair(x, t, q, g)
        BY <1>1, <2>3 DEF Pair
    <2>4. [c EXCEPT !.t = y] = Pair(x, y, q, g) /\ [c EXCEPT !.g = y] = Pair(x, t, q, y)
        BY <2>1, PairIs
    <2> QED BY <2>1, <2>2, <2>3, <2>4
<1> QED BY <1>2 DEF m, t, q, g

LEMMA ChangedDeeper ==
    ASSUME NEW b, Fine(b), NEW x
    PROVE  /\ [b EXCEPT !.m.sent = x] = Pair([b.m EXCEPT !.sent = x], b.t, b.q, b.g)
           /\ [b EXCEPT !.m.sync = x] = Pair([b.m EXCEPT !.sync = x], b.t, b.q, b.g)
<1> DEFINE m1 == [b.m EXCEPT !.sent = x]
           m2 == [b.m EXCEPT !.sync = x]
           t == b.t
           q == b.q
           g == b.g
<1>1. b = Pair(b.m, t, q, g)
    BY DEF Fine
<1>2. [b EXCEPT !.m.sent = x] = [b EXCEPT !.m = m1] /\ [b EXCEPT !.m.sync = x] = [b EXCEPT !.m = m2]
    OBVIOUS
<1> HIDE DEF m1, m2, t, q, g
<1>3. [b EXCEPT !.m = m1] = Pair(m1, t, q, g)
    BY <1>1, PairIs
<1>4. [b EXCEPT !.m = m2] = Pair(m2, t, q, g)
    BY <1>1, PairIs
<1> QED BY <1>2, <1>3, <1>4 DEF m1, m2, t, q, g

LEMMA BothFine ==
    ASSUME Inv, Begun(mac)
    PROVE  Fine(Both)
<1>1. Both = Pair(mac, tt, mq, gone)
    BY DEF Both, Pair
<1>2. Good(mac, tt, mq, gone)
    BY InvHas DEF Good
<1> QED BY <1>1, <1>2, PairFine

LEMMA StepFine ==
    ASSUME NEW b, Fine(b), Step(b)
    PROVE  Inv'
<1>1. Underway(b.m, b.t, b.q, sent, b.g) /\ Fetched(b.t, b.g)
    BY FineHas
<1> QED BY <1>1, InvHolds DEF Step

\* The conversation, with what the terminal has and the place in the ring left as they are.
SameText(t, t2) ==
    /\ t2 \in Terminals /\ t2.log = t.log /\ t2.inb = t.inb /\ t2.wire = t.wire
    /\ t2.rrq = t.rrq /\ t2.port = t.port /\ t2.ddeLog = t.ddeLog
Agrees(m, m2, t2, q) ==
    /\ m2 \in Programs /\ m2.ring = m.ring /\ Begun(m2)
    /\ Talking(m2, t2, q) /\ Roomy(m2, t2, q)

LEMMA Agreeing ==
    ASSUME NEW b, Fine(b), NEW m2, NEW t2, SameText(b.t, t2), Agrees(b.m, m2, t2, b.q)
    PROVE  Good(m2, t2, b.q, b.g)
<1>1. /\ Fetched(b.t, b.g) /\ Reading(b.t) /\ Kept(b.m.ring, b.q, Unfetched(b.t), sent, b.g)
    BY FineHas
<1>2. Unfetched(t2) = Unfetched(b.t) /\ Reading(t2) /\ Fetched(t2, b.g)
    BY <1>1 DEF SameText, Unfetched, Reading, Fetched, Stranded
<1>3. Underway(m2, t2, b.q, sent, b.g)
    BY <1>1, <1>2 DEF Underway, Agrees, SameText
<1> QED BY <1>2, <1>3 DEF Good, Agrees

\* Only what the conversation does not depend on.
LEMMA Alone ==
    ASSUME NEW b, Fine(b), NEW m2, NEW t2, SameMacro(b.m, m2), Alike(b.t, t2)
    PROVE  Good(m2, t2, b.q, b.g)
<1>1. Underway(b.m, b.t, b.q, sent, b.g) /\ Fetched(b.t, b.g) /\ Begun(b.m)
    BY FineHas
<1>2. Underway(m2, b.t, b.q, sent, b.g)
    BY <1>1, MacroMoves
<1>3. Underway(m2, t2, b.q, sent, b.g) /\ Fetched(t2, b.g)
    BY <1>1, <1>2, AlikeStays
<1>4. Begun(m2)
    BY <1>1 DEF SameMacro, Begun
<1> QED BY <1>3, <1>4 DEF Good

\* Bytes of the ring are read or given up.
LEMMA Shorter ==
    ASSUME NEW b, Fine(b), NEW r, NEW g2, NEW m2, m2 = [b.m EXCEPT !.ring = r],
           LeftOf(b.m.ring, r, g2), b.g \subseteq g2, Len(r) \in Nat, Len(r) <= Len(b.m.ring)
    PROVE  Good(m2, b.t, b.q, g2)
<1>1. /\ Fetched(b.t, b.g) /\ Reading(b.t) /\ Kept(b.m.ring, b.q, Unfetched(b.t), sent, b.g)
      /\ b.m \in Programs /\ b.t \in Terminals /\ Begun(b.m) /\ Len(b.m.ring) \in Nat
      /\ Talking(b.m, b.t, b.q) /\ Roomy(b.m, b.t, b.q)
    BY FineHas
<1>2. r \in Seq(Nat)
    BY DEF LeftOf
<1>3. /\ m2 \in Programs /\ m2.ring = r /\ m2.status = b.m.status /\ m2.linked = b.m.linked
      /\ m2.sync = b.m.sync /\ m2.clean = b.m.clean /\ m2.sent = b.m.sent
    BY <1>1, <1>2 DEF Programs
<1>4. Kept(r, b.q, Unfetched(b.t), sent, g2)
    BY <1>1, Thins, KeptWhole
<1>5. Talking(m2, b.t, b.q)
    BY <1>1, <1>3 DEF Talking, Begun
<1>6. Roomy(m2, b.t, b.q)
    <2>1. \A i \in IsData(b.q) : Len(b.q[i].bytes) \in Nat
        BY <1>1, MessageIs, LenProperties DEF Kept, IsData
    <2>2. FreeLeft(b.t) \in Nat /\ RingSize \in Nat
        BY <1>1, TerminalHas, LinkAssumption DEF FreeLeft
    <2>3. \A k \in Nat : Len(b.m.ring) + k <= RingSize => Len(r) + k <= RingSize
        BY <1>1, <2>2
    <2>4. Len(m2.ring) <= RingSize
        BY <1>1, <1>3, <2>2 DEF Roomy
    <2>5. ASSUME m2.sync, m2.clean, m2.linked
          PROVE  /\ \A i, j \in IsData(b.q) : i = j
                 /\ \A i \in IsData(b.q) : Len(b.m.ring) + Len(b.q[i].bytes) <= RingSize
                 /\ b.t.conv /\ b.t.recv => IsData(b.q) = {} /\ Len(b.m.ring) + FreeLeft(b.t) <= RingSize
                 /\ ~b.m.sent => IsData(b.q) = {} /\ ~(b.t.conv /\ b.t.recv)
        BY <1>1, <1>3, <2>5 DEF Roomy
    <2>6. ASSUME m2.sync, m2.clean, m2.linked
          PROVE  /\ \A i \in IsData(b.q) : Len(m2.ring) + Len(b.q[i].bytes) <= RingSize
                 /\ b.t.conv /\ b.t.recv => Len(m2.ring) + FreeLeft(b.t) <= RingSize
        BY <1>3, <2>1, <2>2, <2>3, <2>5, <2>6
    <2> QED BY <1>3, <2>4, <2>5, <2>6 DEF Roomy
<1>7. Fetched(b.t, g2)
    BY <1>1, GoneMore
<1>8. Underway(m2, b.t, b.q, sent, g2)
    BY <1>1, <1>3, <1>4, <1>5, <1>6 DEF Underway
<1> QED BY <1>1, <1>3, <1>7, <1>8 DEF Good, Begun

\* SendSync: the room in the ring is told the terminal.
LEMMA GreaterOf ==
    ASSUME NEW b \in Int
    PROVE  Max({1, b}) \in Nat /\ Max({1, b}) >= 1 /\ (b >= 1 => Max({1, b}) = b) /\ (b < 1 => Max({1, b}) = 1)
<1> DEFINE x == IF b >= 1 THEN b ELSE 1
<1>1. x \in {1, b} /\ \A y \in {1, b} : x >= y
    OBVIOUS
<1>2. \A z \in {1, b} : (\A y \in {1, b} : z >= y) => z = x
    OBVIOUS
<1>3. Max({1, b}) = x
    BY <1>1, <1>2 DEF Max
<1> QED BY <1>3

LEMMA RoomIs ==
    ASSUME NEW b, Fine(b)
    PROVE  /\ Room(b.m) \in Nat /\ Room(b.m) > 0
           /\ Len(b.m.ring) + (IF Room(b.m) < Reserve THEN 0 ELSE Room(b.m) - Reserve) <= RingSize
<1>1. Len(b.m.ring) \in Nat /\ Len(b.m.ring) <= RingSize
    BY FineHas DEF Roomy
<1>2. RingSize \in Nat /\ Reserve \in Nat \ {0} /\ RingSize - Len(b.m.ring) \in Int
    BY <1>1, LinkAssumption
<1> DEFINE x == Room(b.m)
<1>3. /\ x \in Nat /\ x >= 1 /\ (RingSize - Len(b.m.ring) >= 1 => x = RingSize - Len(b.m.ring))
      /\ RingSize - Len(b.m.ring) < 1 => x = 1
    BY <1>2, GreaterOf DEF Room
<1> HIDE DEF x
<1>4. /\ x \in Nat /\ x > 0
      /\ Len(b.m.ring) + (IF x < Reserve THEN 0 ELSE x - Reserve) <= RingSize
    <2>1. CASE RingSize - Len(b.m.ring) >= 1
        <3>1. x = RingSize - Len(b.m.ring)
            BY <1>3, <2>1
        <3>2. x < Reserve \/ Len(b.m.ring) + (x - Reserve) <= RingSize
            BY <1>1, <1>2, <3>1
        <3>3. CASE x < Reserve
            BY <1>1, <1>3, <3>3
        <3>4. CASE ~(x < Reserve)
            BY <1>3, <3>2, <3>4
        <3> QED BY <3>3, <3>4
    <2>2. CASE RingSize - Len(b.m.ring) < 1
        <3>1. x = 1 /\ (x < Reserve \/ x - Reserve = 0)
            BY <1>2, <1>3, <2>2
        <3>2. (IF x < Reserve THEN 0 ELSE x - Reserve) = 0
            BY <3>1
        <3> QED BY <1>1, <1>3, <3>2
    <2> QED BY <1>1, <1>2, <2>1, <2>2
<1> QED BY <1>4 DEF x

\* The terminal after CmdSetSync.
LEMMA TerminalTold ==
    ASSUME NEW t \in Terminals, NEW free \in Nat, NEW t2, t2 = CmdSetSync(t, free)
    PROVE  /\ SameText(t, t2) /\ t2.conv = t.conv /\ t2.ddeEnd = t.ddeEnd /\ t2.closeTT = t.closeTT
           /\ (t2.sync <=> free > 0) /\ t2.recv /\ t2.free = free
<1> DEFINE x == free > 0
<1>1. t2 = [t EXCEPT !.free = free, !.sync = x, !.recv = TRUE] /\ x \in BOOLEAN
    BY DEF CmdSetSync
<1> HIDE DEF x
<1>2. t2 \in Terminals
    BY <1>1 DEF Terminals
<1>3. /\ t2.log = t.log /\ t2.inb = t.inb /\ t2.wire = t.wire
      /\ t2.rrq = t.rrq /\ t2.port = t.port /\ t2.ddeLog = t.ddeLog
    BY <1>1 DEF Terminals
<1>4. /\ t2.conv = t.conv /\ t2.ddeEnd = t.ddeEnd /\ t2.closeTT = t.closeTT
      /\ t2.sync = x /\ t2.recv = TRUE /\ t2.free = free
    BY <1>1 DEF Terminals
<1> QED BY <1>2, <1>3, <1>4 DEF SameText, x

\* The macro with another mode, and the terminal that was told so if it could be.
LEMMA Telling ==
    ASSUME NEW b, Fine(b), NEW m2 \in Programs, NEW free \in Nat, NEW c,
           c = Told(Pair(m2, b.t, b.q, b.g), free),
           m2.ring = b.m.ring, m2.linked = b.m.linked, m2.status = b.m.status,
           m2.sync => m2.sent /\ (m2.clean => IsData(b.q) = {}),
           m2.sync <=> free > 0,
           free > 0 => Len(b.m.ring) + (IF free < Reserve THEN 0 ELSE free - Reserve) <= RingSize
    PROVE  Fine(c)
<1>1. /\ b.t \in Terminals /\ Begun(b.m) /\ Talking(b.m, b.t, b.q) /\ Roomy(b.m, b.t, b.q)
      /\ Len(b.m.ring) <= RingSize
    BY FineHas DEF Roomy
<1>2. Begun(m2)
    BY <1>1 DEF Begun
<1> DEFINE t2 == IF b.t.conv THEN CmdSetSync(b.t, free) ELSE b.t
<1>3. c = Pair(m2, t2, b.q, b.g)
    BY PairIs DEF Told
<1>4. /\ SameText(b.t, t2) /\ t2.conv = b.t.conv /\ t2.ddeEnd = b.t.ddeEnd /\ t2.closeTT = b.t.closeTT
      /\ b.t.conv => (t2.sync <=> free > 0) /\ t2.recv /\ t2.free = free
    <2>1. CASE b.t.conv
        <3>1. t2 = CmdSetSync(b.t, free)
            BY <2>1
        <3> HIDE DEF t2
        <3> QED BY <1>1, <3>1, TerminalTold
    <2>2. CASE ~b.t.conv
        <3>1. t2 = b.t
            BY <2>2
        <3> HIDE DEF t2
        <3> QED BY <1>1, <2>2, <3>1 DEF SameText
    <2> QED BY <2>1, <2>2
<1>5. t2.ddeLog = b.t.ddeLog
    BY <1>4 DEF SameText
<1> HIDE DEF t2
<1>6. Talking(m2, t2, b.q)
    BY <1>1, <1>2, <1>4, <1>5 DEF Talking, Begun
<1>7. Roomy(m2, t2, b.q)
    <2>1. CASE ~m2.sync
        BY <1>1, <2>1 DEF Roomy
    <2>2. CASE m2.sync
        <3>1. free > 0 /\ m2.sent /\ (m2.clean => IsData(b.q) = {})
            BY <2>2
        <3>2. t2.conv => Len(m2.ring) + FreeLeft(t2) <= RingSize
            BY <1>4, <3>1 DEF FreeLeft
        <3> QED BY <1>1, <3>1, <3>2 DEF Roomy
    <2> QED BY <2>1, <2>2
<1>8. Agrees(b.m, m2, t2, b.q)
    BY <1>2, <1>6, <1>7 DEF Agrees
<1>9. Good(m2, t2, b.q, b.g)
    BY <1>4, <1>8, Agreeing
<1> QED BY <1>3, <1>9, PairFine

LEMMA SendSyncFine ==
    ASSUME NEW b, Fine(b), NEW c, c = SendSync(b)
    PROVE  /\ Fine(c) /\ c.m.status = b.m.status /\ c.m.linked = b.m.linked
<1>1. /\ b = Pair(b.m, b.t, b.q, b.g) /\ b.m \in Programs /\ Roomy(b.m, b.t, b.q)
    BY FineHas
<1>2. CASE ~SyncDue(b)
    BY <1>2 DEF SendSync
<1>3. CASE SyncDue(b)
    <2> DEFINE m2 == [b.m EXCEPT !.sent = TRUE]
    <2>1. /\ m2 \in Programs /\ m2.ring = b.m.ring /\ m2.linked = b.m.linked /\ m2.status = b.m.status
          /\ m2.sync = b.m.sync /\ m2.clean = b.m.clean /\ m2.sent = TRUE
        BY <1>1 DEF Programs
    <2>2. [b EXCEPT !.m.sent = TRUE] = Pair(m2, b.t, b.q, b.g)
        BY ChangedDeeper
    <2> HIDE DEF m2
    <2>3. c = Told(Pair(m2, b.t, b.q, b.g), Room(b.m))
        BY <1>3, <2>2 DEF SendSync
    <2>4. b.m.sync /\ (b.m.clean => IsData(b.q) = {})
        BY <1>1, <1>3 DEF SyncDue, Roomy
    <2>5. /\ Room(b.m) \in Nat /\ Room(b.m) > 0
          /\ Len(b.m.ring) + (IF Room(b.m) < Reserve THEN 0 ELSE Room(b.m) - Reserve) <= RingSize
        BY RoomIs
    <2> DEFINE free == Room(b.m)
    <2> HIDE DEF free
    <2>6. Fine(c)
        <3>1. c = Told(Pair(m2, b.t, b.q, b.g), free) /\ free \in Nat
            BY <2>3, <2>5 DEF free
        <3>2. m2.sync => m2.sent /\ (m2.clean => IsData(b.q) = {})
            BY <2>1, <2>4
        <3>3. m2.sync <=> free > 0
            BY <2>1, <2>4, <2>5 DEF free
        <3>4. free > 0 => Len(b.m.ring) + (IF free < Reserve THEN 0 ELSE free - Reserve) <= RingSize
            BY <2>5 DEF free
        <3> QED BY <2>1, <3>1, <3>2, <3>3, <3>4, Telling
    <2>7. c.m = m2
        BY <2>3, PairIs DEF Told
    <2> QED BY <2>1, <2>6, <2>7
<1> QED BY <1>2, <1>3

LEMMA SetSyncFine ==
    ASSUME NEW b, Fine(b), NEW on \in BOOLEAN, NEW c, c = SetSync(b, on)
    PROVE  Fine(c)
<1>1. /\ b = Pair(b.m, b.t, b.q, b.g) /\ b.m \in Programs
    BY FineHas
<1>2. CASE on
    <2> DEFINE x == \A i \in 1..Len(b.q) : b.q[i].kind # "data"
               m2 == [b.m EXCEPT !.sync = TRUE, !.sent = TRUE, !.clean = x]
    <2>1. x \in BOOLEAN /\ (x => IsData(b.q) = {})
        BY DEF IsData
    <2> HIDE DEF x
    <2>3. /\ m2 \in Programs /\ m2.ring = b.m.ring /\ m2.linked = b.m.linked /\ m2.status = b.m.status
          /\ m2.sync = TRUE /\ m2.sent = TRUE /\ m2.clean = x
        BY <1>1, <2>1 DEF Programs
    <2> HIDE DEF m2
    <2> DEFINE free == Room(b.m)
    <2>4. c = Told(Pair(m2, b.t, b.q, b.g), free)
        <3>1. [b EXCEPT !.m = m2] = Pair(m2, b.t, b.q, b.g)
            BY Changed
        <3>2. c = Told([b EXCEPT !.m = m2], free)
            BY <1>2 DEF SetSync, x, m2
        <3> QED BY <3>1, <3>2
    <2>5. /\ free \in Nat /\ free > 0
          /\ Len(b.m.ring) + (IF free < Reserve THEN 0 ELSE free - Reserve) <= RingSize
        BY RoomIs
    <2> HIDE DEF free
    <2>6. m2.sync => m2.sent /\ (m2.clean => IsData(b.q) = {})
        BY <2>1, <2>3
    <2>7. m2.sync <=> free > 0
        BY <2>3, <2>5
    <2>8. free > 0 => Len(b.m.ring) + (IF free < Reserve THEN 0 ELSE free - Reserve) <= RingSize
        BY <2>5
    <2> QED BY <2>3, <2>4, <2>5, <2>6, <2>7, <2>8, Telling
<1>3. CASE ~on
    <2> DEFINE m2 == [b.m EXCEPT !.sync = FALSE]
    <2>1. [b EXCEPT !.m.sync = FALSE] = Pair(m2, b.t, b.q, b.g)
        BY ChangedDeeper
    <2>2. /\ m2 \in Programs /\ m2.ring = b.m.ring /\ m2.linked = b.m.linked /\ m2.status = b.m.status
          /\ m2.sync = FALSE
        BY <1>1 DEF Programs
    <2> HIDE DEF m2
    <2> DEFINE free == 0
    <2>3. c = Told(Pair(m2, b.t, b.q, b.g), free)
        BY <1>3, <2>1 DEF SetSync
    <2>4. free \in Nat /\ ~(free > 0)
        OBVIOUS
    <2> HIDE DEF free
    <2>5. m2.sync => m2.sent /\ (m2.clean => IsData(b.q) = {})
        BY <2>2
    <2>6. m2.sync <=> free > 0
        BY <2>2, <2>4
    <2>7. free > 0 => Len(b.m.ring) + (IF free < Reserve THEN 0 ELSE free - Reserve) <= RingSize
        BY <2>4
    <2> QED BY <2>2, <2>3, <2>4, <2>5, <2>6, <2>7, Telling
<1> QED BY <1>2, <1>3

\* What the conversation does not depend on.
LEMMA Moved ==
    ASSUME NEW b, Fine(b), NEW m2, SameMacro(b.m, m2), NEW c, c = [b EXCEPT !.m = m2]
    PROVE  Fine(c)
<1>1. Alike(b.t, b.t) /\ b.t \in Terminals
    BY FineHas, AlikeAre
<1>2. Good(m2, b.t, b.q, b.g)
    BY <1>1, Alone
<1>3. c = Pair(m2, b.t, b.q, b.g)
    BY Changed
<1> QED BY <1>2, <1>3, PairFine

LEMMA MovedBoth ==
    ASSUME NEW b, Fine(b), NEW m2, SameMacro(b.m, m2), NEW t2, Alike(b.t, t2),
           NEW c, c = [b EXCEPT !.m = m2, !.t = t2]
    PROVE  Fine(c)
<1>1. Good(m2, t2, b.q, b.g)
    BY Alone
<1>2. c = Pair(m2, t2, b.q, b.g)
    BY Changed
<1> QED BY <1>1, <1>2, PairFine

LEMMA LoopFine ==
    ASSUME NEW b, Fine(b), NEW next \in {"peek", "get", "idle"}, NEW c, c = Loop(b, next)
    PROVE  Fine(c)
<1> DEFINE m2 == [b.m EXCEPT !.loop = next]
<1>1. SameMacro(b.m, m2)
    BY FineHas DEF SameMacro, Programs, Begun, ViewOf
<1>2. c = [b EXCEPT !.m = m2]
    BY DEF Loop
<1> HIDE DEF m2
<1> QED BY <1>1, <1>2, Moved

LEMMA TimedFine ==
    ASSUME NEW b, Fine(b), NEW on \in BOOLEAN, NEW c, c = Timed(b, on)
    PROVE  Fine(c)
<1> DEFINE x == b.m.timer \/ on
           m2 == [b.m EXCEPT !.timer = x]
<1>1. b.m \in Programs /\ Begun(b.m) /\ x \in BOOLEAN
    BY FineHas
<1>2. c = [b EXCEPT !.m = m2]
    BY DEF Timed
<1> HIDE DEF x
<1>3. SameMacro(b.m, m2)
    BY <1>1 DEF SameMacro, Programs, Begun, ViewOf
<1> HIDE DEF m2
<1> QED BY <1>2, <1>3, Moved

\* DDESend: the terminal sends the text, or is busy with another.
LEMMA SendMemIs ==
    ASSUME NEW t \in Terminals
    PROVE  Alike(t, SendMemStart(t)) /\ SendMemStart(t) \in Terminals
<1>1. CASE t.mem
    <2>1. SendMemStart(t) = t
        BY <1>1 DEF SendMemStart
    <2> QED BY <2>1, AlikeAre
<1>2. CASE ~t.mem
    <2> DEFINE u == [t EXCEPT !.mem = TRUE, !.talk = "mem"]
    <2>1. SendMemStart(t) = u
        BY <1>2 DEF SendMemStart
    <2>2. Alike(t, u) /\ u \in Terminals
        BY DEF Alike, LinkOf, Terminals
    <2> QED BY <2>1, <2>2
<1> QED BY <1>1, <1>2

LEMMA DDESendFine ==
    ASSUME NEW b, Fine(b), NEW c \in DDESend(b)
    PROVE  Fine(c)
<1>1. b.m \in Programs /\ Begun(b.m) /\ b.t \in Terminals
    BY FineHas
<1> DEFINE m2 == [b.m EXCEPT !.out = FALSE]
           t2 == IF b.t.conv /\ b.t.talk = "keyb" THEN SendMemStart(b.t) ELSE b.t
<1>2. c = b \/ c = [b EXCEPT !.m = m2, !.t = t2]
    BY DEF DDESend
<1>3. SameMacro(b.m, m2)
    BY <1>1 DEF SameMacro, Programs, Begun, ViewOf
<1>4. Alike(b.t, t2)
    <2>1. CASE b.t.conv /\ b.t.talk = "keyb"
        BY <1>1, <2>1, SendMemIs
    <2>2. CASE ~(b.t.conv /\ b.t.talk = "keyb")
        BY <1>1, <2>2, AlikeAre
    <2> QED BY <2>1, <2>2
<1> HIDE DEF m2, t2
<1>5. CASE c = b
    BY <1>5
<1>6. CASE c = [b EXCEPT !.m = m2, !.t = t2]
    BY <1>3, <1>4, <1>6, MovedBoth
<1> QED BY <1>2, <1>5, <1>6

\* A command of the terminal that does not touch the conversation.
LEMMA SendCmndFine ==
    ASSUME NEW b, Fine(b), NEW s \in Statuses \ {"None", "Starting"}, NEW accepted \in BOOLEAN,
           NEW t2, Alike(b.t, t2), NEW c, c = SendCmnd(b, s, accepted, t2)
    PROVE  Fine(c)
<1>1. b.m \in Programs /\ Begun(b.m)
    BY FineHas
<1>2. CASE b.t.conv /\ accepted
    <2> DEFINE m2 == [b.m EXCEPT !.status = s]
    <2>1. SameMacro(b.m, m2)
        BY <1>1 DEF SameMacro, Programs, Begun, ViewOf
    <2>2. c = [b EXCEPT !.m = m2, !.t = t2]
        BY <1>2 DEF SendCmnd
    <2> HIDE DEF m2
    <2> QED BY <2>1, <2>2, MovedBoth
<1>3. CASE ~(b.t.conv /\ accepted)
    <2> DEFINE m2 == [b.m EXCEPT !.status = "Run"]
    <2>1. SameMacro(b.m, m2)
        BY <1>1 DEF SameMacro, Programs, Begun, ViewOf, Statuses
    <2>2. c = [b EXCEPT !.m = m2]
        BY <1>3 DEF SendCmnd
    <2> HIDE DEF m2
    <2> QED BY <2>1, <2>2, Moved
<1> QED BY <1>2, <1>3

\* The macro's end of the conversation, with the terminal as it is or about to be closed.
LEMMA LeavesFine ==
    ASSUME NEW b, Fine(b), NEW c, c = Leaves(b)
    PROVE  /\ Fine(c) /\ c.m = MacroEndDDE(b.m) /\ ~c.t.conv /\ c.t.ddeEnd = (b.t.ddeEnd \/ b.t.conv)
           /\ c.q = b.q /\ c.g = b.g
<1> DEFINE m2 == MacroEndDDE(b.m)
           x == b.t.ddeEnd \/ b.t.conv
           t2 == [b.t EXCEPT !.conv = FALSE, !.ddeEnd = x]
<1>1. /\ b.m \in Programs /\ Begun(b.m) /\ b.t \in Terminals /\ Talking(b.m, b.t, b.q) /\ Roomy(b.m, b.t, b.q)
    BY FineHas
<1>2. c = Pair(m2, t2, b.q, b.g)
    <2> DEFINE d == [b EXCEPT !.m = m2]
    <2>1. c = [d EXCEPT !.t = Disconnect(@)]
        BY DEF Leaves
    <2>2. d = Pair(m2, b.t, b.q, b.g)
        <3> HIDE DEF m2
        <3> QED BY Changed
    <2> HIDE DEF d
    <2>3. d.t = b.t
        BY <2>2, PairIs
    <2>4. c = [d EXCEPT !.t = t2]
        <3>1. Disconnect(b.t) = t2
            BY DEF Disconnect
        <3>2. c = [d EXCEPT !.t = Disconnect(b.t)]
            BY <2>1, <2>3
        <3> QED BY <3>1, <3>2
    <2> HIDE DEF m2, t2
    <2> QED BY <2>2, <2>4, PairIs
<1>3. /\ m2 \in Programs /\ m2.ring = b.m.ring /\ m2.status = b.m.status /\ ~m2.linked /\ ~m2.sync
    BY <1>1 DEF MacroEndDDE, Programs
<1>4. x \in BOOLEAN
    BY <1>1 DEF Terminals
<1> HIDE DEF x
<1>5. SameText(b.t, t2) /\ ~t2.conv /\ t2.ddeEnd = x /\ t2.closeTT = b.t.closeTT /\ t2.ddeLog = b.t.ddeLog
    BY <1>1, <1>4 DEF SameText, Terminals
<1> HIDE DEF m2, t2
<1>6. Talking(m2, t2, b.q)
    BY <1>1, <1>3, <1>5 DEF Talking, Begun, x
<1>7. Roomy(m2, t2, b.q)
    BY <1>1, <1>3 DEF Roomy
<1>8. Agrees(b.m, m2, t2, b.q)
    BY <1>1, <1>3, <1>6, <1>7 DEF Agrees, Begun
<1>9. Good(m2, t2, b.q, b.g)
    BY <1>5, <1>8, Agreeing
<1>10. Fine(c)
    BY <1>2, <1>9, PairFine
<1>11. c.m = m2 /\ c.t = t2 /\ c.q = b.q /\ c.g = b.g
    BY <1>2, PairIs
<1> QED BY <1>5, <1>10, <1>11 DEF m2, x

\* "closett": the terminal closes once the conversation is over.
LEMMA ClosesFine ==
    ASSUME NEW b, Fine(b), NEW c, c = SendCmnd(b, "WaitCmndEnd", TRUE, [b.t EXCEPT !.closeTT = TRUE])
    PROVE  Fine(c)
<1> DEFINE t2 == [b.t EXCEPT !.closeTT = TRUE]
           m2 == [b.m EXCEPT !.status = "WaitCmndEnd"]
<1>1. /\ b.m \in Programs /\ Begun(b.m) /\ b.t \in Terminals /\ Talking(b.m, b.t, b.q) /\ Roomy(b.m, b.t, b.q)
    BY FineHas
<1>2. CASE b.t.conv
    <2>1. c = Pair(m2, t2, b.q, b.g)
        <3>1. c = [b EXCEPT !.m = m2, !.t = t2]
            BY <1>2 DEF SendCmnd
        <3> HIDE DEF m2, t2
        <3> QED BY <3>1, Changed
    <2>2. /\ SameText(b.t, t2) /\ t2.conv = b.t.conv /\ t2.ddeEnd = b.t.ddeEnd /\ t2.closeTT
          /\ t2.sync = b.t.sync /\ t2.recv = b.t.recv /\ t2.free = b.t.free
        BY <1>1 DEF SameText, Terminals
    <2>3. /\ m2 \in Programs /\ m2.status = "WaitCmndEnd" /\ m2.ring = b.m.ring /\ m2.linked = b.m.linked
          /\ m2.sync = b.m.sync /\ m2.clean = b.m.clean /\ m2.sent = b.m.sent
        BY <1>1 DEF Programs, Statuses
    <2> HIDE DEF m2, t2
    <2>4. Talking(m2, t2, b.q)
        BY <1>1, <2>2, <2>3 DEF Talking, Begun
    <2>5. Roomy(m2, t2, b.q)
        BY <1>1, <2>2, <2>3 DEF Roomy, FreeLeft
    <2>6. Agrees(b.m, m2, t2, b.q)
        BY <2>3, <2>4, <2>5 DEF Agrees, Begun
    <2>7. Good(m2, t2, b.q, b.g)
        BY <2>2, <2>6, Agreeing
    <2> QED BY <2>1, <2>7, PairFine
<1>3. CASE ~b.t.conv
    <2> DEFINE m3 == [b.m EXCEPT !.status = "Run"]
    <2>1. SameMacro(b.m, m3)
        BY <1>1 DEF SameMacro, Programs, Begun, ViewOf, Statuses
    <2>2. c = [b EXCEPT !.m = m3]
        BY <1>3 DEF SendCmnd
    <2> HIDE DEF m3
    <2> QED BY <2>1, <2>2, Moved
<1> QED BY <1>2, <1>3

\* "connect": the macro sleeps until the terminal tells it how it went.
LEMMA CmdConnectFine ==
    ASSUME NEW b, Fine(b), NEW c, c = CmdConnect(b)
    PROVE  Fine(c)
<1> DEFINE m2 == [b.m EXCEPT !.status = "Sleep", !.wake = {"init"}]
           a == [b EXCEPT !.m = m2]
           t2 == [b.t EXCEPT !.port = "opening"]
           p == SetDdeComReady(b.t, 1)
<1>1. /\ b.m \in Programs /\ Begun(b.m) /\ b.t \in Terminals /\ Reading(b.t)
    BY FineHas
<1>2. SameMacro(b.m, m2)
    <2>1. {"init"} \in SUBSET Wakeups
        BY DEF Wakeups
    <2> QED BY <1>1, <2>1 DEF SameMacro, Programs, Begun, ViewOf, Statuses
<1>3. \/ c = a
      \/ b.t.port = "closed" /\ c = [a EXCEPT !.t.port = "opening"]
      \/ c = [a EXCEPT !.q = @ \o p]
    BY DEF CmdConnect, Sleeps
<1>4. a = Pair(m2, b.t, b.q, b.g)
    <2>1. a = [b EXCEPT !.m = m2]
        OBVIOUS
    <2> HIDE DEF m2, a
    <2> QED BY <2>1, Changed
<1>5. Fine(a)
    <2>1. a = [b EXCEPT !.m = m2]
        OBVIOUS
    <2> HIDE DEF m2, a
    <2> QED BY <1>2, <2>1, Moved
<1> HIDE DEF m2, a
<1>6. a.m = m2 /\ a.t = b.t /\ a.q = b.q /\ a.g = b.g
    BY <1>4, PairIs
<1>7. ASSUME b.t.port = "closed", c = [a EXCEPT !.t.port = "opening"] PROVE Fine(c)
    <2>1. c = [a EXCEPT !.t = t2]
        BY <1>6, <1>7
    <2>2. /\ t2 \in Terminals /\ LinkOf(t2) = LinkOf(b.t) /\ t2.log = b.t.log /\ t2.inb = b.t.inb
          /\ t2.wire = b.t.wire /\ t2.rrq = b.t.rrq /\ t2.port = "opening" /\ t2.ddeLog = b.t.ddeLog
        BY <1>1 DEF LinkOf, Terminals
    <2> HIDE DEF t2
    <2>3. c = Pair(m2, t2, b.q, b.g)
        BY <1>4, <2>1 DEF Pair
    <2>4. Unfetched(t2) = Unfetched(a.t) /\ Reading(t2) /\ LinkOf(t2) = LinkOf(a.t) /\ (Fetched(a.t, a.g) => Fetched(t2, a.g))
        BY <1>1, <1>6, <2>2 DEF Unfetched, Reading, Fetched, Stranded
    <2>5. Underway(a.m, a.t, a.q, sent, a.g) /\ Fetched(a.t, a.g) /\ Begun(a.m)
        BY <1>5, FineHas
    <2>6. Underway(a.m, t2, a.q, sent, a.g)
        <3>1. a.g \subseteq a.g
            OBVIOUS
        <3> QED BY <2>2, <2>4, <2>5, <3>1, Unmoved
    <2>7. Good(m2, t2, b.q, b.g)
        BY <1>6, <2>4, <2>5, <2>6 DEF Good
    <2> QED BY <2>3, <2>7, PairFine
<1>8. ASSUME c = [a EXCEPT !.q = @ \o p] PROVE Fine(c)
    <2>1. c = Pair(m2, b.t, b.q \o p, b.g)
        BY <1>4, <1>8 DEF Pair
    <2>2. Underway(a.m, a.t, a.q, sent, a.g) /\ Fetched(a.t, a.g) /\ Begun(a.m)
        BY <1>5, FineHas
    <2>3. Underway(a.m, a.t, a.q \o p, sent, a.g)
        <3>1. 1 \in Nat
            OBVIOUS
        <3> QED BY <2>2, <3>1, Notifying
    <2> HIDE DEF p
    <2>4. Good(m2, b.t, b.q \o p, b.g)
        BY <1>6, <2>2, <2>3 DEF Good
    <2> QED BY <2>1, <2>4, PairFine
<1> QED BY <1>3, <1>5, <1>7, <1>8

\* What one line of the macro does.
LEMMA FlushFine ==
    ASSUME NEW b, Fine(b), NEW c, c = [b EXCEPT !.m = [@ EXCEPT !.ring = <<>>], !.g = @ \cup ToSet(b.m.ring)]
    PROVE  Fine(c)
<1> DEFINE r == <<>>
           m2 == [b.m EXCEPT !.ring = r]
           g2 == b.g \cup ToSet(b.m.ring)
<1>1. b.m.ring \in Seq(Nat) /\ Len(b.m.ring) \in Nat
    BY FineHas
<1>2. LeftOf(b.m.ring, r, g2) /\ b.g \subseteq g2 /\ Len(r) = 0
    BY Nothing DEF LeftOf
<1>3. c = Pair(m2, b.t, b.q, g2)
    <2> DEFINE d == [b EXCEPT !.m = m2]
    <2>1. c = [d EXCEPT !.g = @ \cup ToSet(b.m.ring)]
        OBVIOUS
    <2>2. d = Pair(m2, b.t, b.q, b.g)
        <3> HIDE DEF m2
        <3> QED BY Changed
    <2> HIDE DEF d, m2
    <2>3. d.g = b.g
        BY <2>2, PairIs
    <2>4. c = [d EXCEPT !.g = g2]
        BY <2>1, <2>3
    <2> HIDE DEF g2
    <2> QED BY <2>2, <2>4 DEF Pair
<1> HIDE DEF r, g2
<1>4. m2 = [b.m EXCEPT !.ring = r]
    OBVIOUS
<1> HIDE DEF m2
<1>5. Good(m2, b.t, b.q, g2)
    <2>1. Len(r) \in Nat /\ Len(r) <= Len(b.m.ring)
        BY <1>1, <1>2
    <2> QED BY <1>2, <1>4, <2>1, Shorter
<1> QED BY <1>3, <1>5, PairFine

LEMMA ExecutedFine ==
    ASSUME NEW b, Fine(b), NEW c \in Commands, NEW d \in Executed(b, c)
    PROVE  Fine(d)
<1>1. /\ b.m \in Programs /\ Begun(b.m) /\ b.t \in Terminals
    BY FineHas
<1>2. CASE c = "wait"
    <2>1. PICK x \in {0, HostMax}, on \in BOOLEAN :
              d = Timed([b EXCEPT !.m = [@ EXCEPT !.status = "Wait", !.target = x]], on)
        BY <1>2 DEF Executed
    <2> DEFINE m2 == [b.m EXCEPT !.status = "Wait", !.target = x]
               e == [b EXCEPT !.m = m2]
    <2>2. d = Timed(e, on)
        BY <2>1
    <2>3. SameMacro(b.m, m2)
        <3>1. x \in Nat
            BY LinkAssumption
        <3> QED BY <1>1, <3>1 DEF SameMacro, Programs, Begun, ViewOf, Statuses
    <2>4. Fine(e)
        <3>1. e = [b EXCEPT !.m = m2]
            OBVIOUS
        <3> HIDE DEF e, m2
        <3> QED BY <2>3, <3>1, Moved
    <2> HIDE DEF e
    <2> QED BY <2>2, <2>4, TimedFine
<1>3. CASE c = "waitevent"
    <2>1. PICK w \in Events, on \in BOOLEAN : d = Timed(Sleeps(b, w), on)
        BY <1>3 DEF Executed
    <2> DEFINE m2 == [b.m EXCEPT !.status = "Sleep", !.wake = w]
               e == [b EXCEPT !.m = m2]
    <2>2. d = Timed(e, on)
        BY <2>1 DEF Sleeps
    <2>3. SameMacro(b.m, m2)
        <3>1. w \in SUBSET Wakeups
            BY LinkAssumption
        <3> QED BY <1>1, <3>1 DEF SameMacro, Programs, Begun, ViewOf, Statuses
    <2>4. Fine(e)
        <3>1. e = [b EXCEPT !.m = m2]
            OBVIOUS
        <3> HIDE DEF e, m2
        <3> QED BY <2>3, <3>1, Moved
    <2> HIDE DEF e
    <2> QED BY <2>2, <2>4, TimedFine
<1>4. CASE c = "transfer"
    <2> DEFINE t2 == [StartsProto(b.t) EXCEPT !.cmnd = TRUE]
               free == ~b.t.proto
               s == "WaitCmndResult"
    <2>1. d = SendCmnd(b, s, free, t2)
        BY <1>4 DEF Executed
    <2>2. Alike(b.t, t2)
        BY <1>1 DEF StartsProto, Alike, LinkOf, Terminals
    <2>3. free \in BOOLEAN /\ s \in Statuses \ {"None", "Starting"}
        BY DEF Statuses
    <2> HIDE DEF t2, free, s
    <2> QED BY <2>1, <2>2, <2>3, SendCmndFine
<1>5. CASE c = "sendfile"
    <2> DEFINE u == SendMemStart(b.t)
               t2 == [u EXCEPT !.cmnd = TRUE]
               x == TRUE
               s == "WaitCmndEnd"
    <2>1. d = SendCmnd(b, s, x, t2)
        BY <1>5 DEF Executed
    <2>2. Alike(b.t, t2)
        <3>1. Alike(b.t, u) /\ u \in Terminals
            BY <1>1, SendMemIs
        <3> HIDE DEF u
        <3>2. Alike(u, t2)
            BY <3>1 DEF Alike, LinkOf, Terminals
        <3> HIDE DEF t2
        <3> QED BY <3>1, <3>2 DEF Alike
    <2>3. x \in BOOLEAN /\ s \in Statuses \ {"None", "Starting"}
        BY DEF Statuses
    <2> HIDE DEF t2, x, s
    <2> QED BY <2>1, <2>2, <2>3, SendCmndFine
<1>6. CASE c = "send"
    <2> DEFINE m2 == [b.m EXCEPT !.out = TRUE]
    <2>1. d = [b EXCEPT !.m = m2]
        BY <1>6 DEF Executed
    <2>2. SameMacro(b.m, m2)
        BY <1>1 DEF SameMacro, Programs, Begun, ViewOf
    <2> HIDE DEF m2
    <2> QED BY <2>1, <2>2, Moved
<1>7. CASE c = "pause"
    <2> DEFINE m2 == [b.m EXCEPT !.status = "Pause"]
               e == [b EXCEPT !.m = m2]
               on == TRUE
    <2>1. d = Timed(e, on) /\ on \in BOOLEAN
        BY <1>7 DEF Executed
    <2>2. SameMacro(b.m, m2)
        BY <1>1 DEF SameMacro, Programs, Begun, ViewOf, Statuses
    <2>3. Fine(e)
        <3>1. e = [b EXCEPT !.m = m2]
            OBVIOUS
        <3> HIDE DEF e, m2
        <3> QED BY <2>2, <3>1, Moved
    <2> HIDE DEF e, on
    <2> QED BY <2>1, <2>3, TimedFine
<1>8. CASE c = "setsync"
    <2> DEFINE on == ~b.m.sync
    <2>1. d = SetSync(b, on) /\ on \in BOOLEAN
        BY <1>8 DEF Executed
    <2> HIDE DEF on
    <2> QED BY <2>1, SetSyncFine
<1>9. CASE c = "flushrecv"
    <2>1. d = [b EXCEPT !.m = [@ EXCEPT !.ring = <<>>], !.g = @ \cup ToSet(b.m.ring)]
        BY <1>9 DEF Executed
    <2> QED BY <2>1, FlushFine
<1>10. CASE c = "connect"
    <2>1. d = b \/ d = CmdConnect(b)
        BY <1>10 DEF Executed
    <2> QED BY <2>1, CmdConnectFine
<1>11. CASE c = "unlink"
    <2>1. d = Leaves(b)
        BY <1>11 DEF Executed
    <2> QED BY <2>1, LeavesFine
<1>12. CASE c = "closett"
    <2> DEFINE e == SendCmnd(b, "WaitCmndEnd", TRUE, [b.t EXCEPT !.closeTT = TRUE])
    <2>1. d = Leaves(e)
        BY <1>12 DEF Executed
    <2>2. Fine(e)
        BY ClosesFine
    <2> HIDE DEF e
    <2> QED BY <2>1, <2>2, LeavesFine
<1> QED BY <1>2, <1>3, <1>4, <1>5, <1>6, <1>7, <1>8, <1>9, <1>10, <1>11, <1>12 DEF Commands

\* Wait: what is read is gone from the ring.
LEMMA ReadFine ==
    ASSUME NEW b, Fine(b), NEW n \in 0..Len(b.m.ring), NEW c,
           c = [b EXCEPT !.m = [@ EXCEPT !.ring = Rest(b.m.ring, n)], !.g = @ \cup ToSet(Taken(b.m.ring, n))]
    PROVE  Fine(c)
<1> DEFINE r == Rest(b.m.ring, n)
           m2 == [b.m EXCEPT !.ring = r]
           g2 == b.g \cup ToSet(Taken(b.m.ring, n))
           d == [b EXCEPT !.m = m2]
<1>1. b.m.ring \in Seq(Nat) /\ Len(b.m.ring) \in Nat /\ Rising(b.m.ring)
    BY FineHas DEF Kept, Ordered
<1>2. c = Pair(m2, b.t, b.q, g2)
    <2>1. c = [d EXCEPT !.g = @ \cup ToSet(Taken(b.m.ring, n))]
        OBVIOUS
    <2>2. d = Pair(m2, b.t, b.q, b.g)
        <3> HIDE DEF m2
        <3> QED BY Changed
    <2> HIDE DEF d, m2
    <2>3. d.g = b.g
        BY <2>2, PairIs
    <2>4. c = [d EXCEPT !.g = g2]
        BY <2>1, <2>3
    <2> HIDE DEF g2
    <2> QED BY <2>2, <2>4 DEF Pair
<1>3. LeftOf(b.m.ring, r, g2)
    BY <1>1, Parted DEF LeftOf
<1>4. b.g \subseteq g2 /\ Len(r) \in Nat /\ Len(r) <= Len(b.m.ring)
    BY <1>1, RestIs
<1>5. m2 = [b.m EXCEPT !.ring = r]
    OBVIOUS
<1> HIDE DEF r, m2, g2
<1>6. Good(m2, b.t, b.q, g2)
    BY <1>3, <1>4, <1>5, Shorter
<1> QED BY <1>2, <1>6, PairFine

LEMMA WaitFine ==
    ASSUME NEW b, Fine(b), NEW c, c = Wait(b)
    PROVE  Fine(c)
<1> DEFINE f == Found(b.m.ring, b.m.target)
           n == IF f = {} THEN Len(b.m.ring) ELSE Min(f)
           e == [b EXCEPT !.m = [@ EXCEPT !.ring = Rest(b.m.ring, n)], !.g = @ \cup ToSet(Taken(b.m.ring, n))]
           read == SendSync(e)
           get == Loop(read, "get")
           peek == Loop(read, "peek")
<1>1. Len(b.m.ring) \in Nat
    BY FineHas
<1>2. n \in 0..Len(b.m.ring)
    <2>1. f \in SUBSET Nat /\ f \subseteq 1..Len(b.m.ring)
        BY <1>1 DEF Found
    <2> HIDE DEF f
    <2>2. f # {} => Min(f) \in f
        BY <2>1, LeastOf
    <2>3. CASE f = {}
        BY <1>1, <2>3
    <2>4. CASE f # {}
        <3>1. n = Min(f) /\ Min(f) \in 1..Len(b.m.ring)
            BY <2>1, <2>2, <2>4
        <3> QED BY <1>1, <3>1
    <2> QED BY <2>3, <2>4
<1>3. c = IF f = {} THEN [get EXCEPT !.m.timer = @ \/ b.m.ready = 0]
                    ELSE [peek EXCEPT !.m = [@ EXCEPT !.timer = FALSE, !.status = "Run"]]
    BY DEF Wait
<1> HIDE DEF f, n
<1>4. Fine(e)
    <2>1. e = [b EXCEPT !.m = [@ EXCEPT !.ring = Rest(b.m.ring, n)], !.g = @ \cup ToSet(Taken(b.m.ring, n))]
        OBVIOUS
    <2> HIDE DEF e
    <2> QED BY <1>2, <2>1, ReadFine
<1> HIDE DEF e
<1>5. Fine(read)
    <2>1. read = SendSync(e)
        OBVIOUS
    <2> HIDE DEF read
    <2> QED BY <1>4, <2>1, SendSyncFine
<1> HIDE DEF read
<1>6. Fine(get) /\ Fine(peek)
    BY <1>5, LoopFine
<1> HIDE DEF get, peek
<1>7. get.m \in Programs /\ Begun(get.m) /\ peek.m \in Programs /\ Begun(peek.m)
    BY <1>6, FineHas
<1>8. CASE f = {}
    <2> DEFINE x == get.m.timer \/ b.m.ready = 0
               m2 == [get.m EXCEPT !.timer = x]
    <2>1. c = [get EXCEPT !.m = m2] /\ x \in BOOLEAN
        BY <1>3, <1>7, <1>8 DEF Programs
    <2> HIDE DEF x
    <2>2. SameMacro(get.m, m2)
        BY <1>7, <2>1 DEF SameMacro, Programs, Begun, ViewOf
    <2> HIDE DEF m2
    <2> QED BY <1>6, <2>1, <2>2, Moved
<1>9. CASE f # {}
    <2> DEFINE m2 == [peek.m EXCEPT !.timer = FALSE, !.status = "Run"]
    <2>1. c = [peek EXCEPT !.m = m2]
        BY <1>3, <1>9
    <2>2. SameMacro(peek.m, m2)
        BY <1>7 DEF SameMacro, Programs, Begun, ViewOf, Statuses
    <2> HIDE DEF m2
    <2> QED BY <1>6, <2>1, <2>2, Moved
<1> QED BY <1>8, <1>9

\* What every idle step of the macro begins with.
LEMMA Synced ==
    ASSUME Inv, mac.status \notin {"None", "Starting"}, NEW c, c = SendSync(Both)
    PROVE  Fine(c)
<1>1. Fine(Both)
    BY BothFine DEF Begun
<1> QED BY <1>1, SendSyncFine

LEMMA DoExec ==
    ASSUME Inv, Exec
    PROVE  Inv'
<1> DEFINE s == SendSync(Both)
<1>1. PICK c \in Program : OnIdleOf({Loop(x, "peek") : x \in Executed(s, c)})
    BY DEF Exec
<1>2. PICK b : b \in {Loop(x, "peek") : x \in Executed(s, c)} /\ Step(b)
    BY <1>1 DEF OnIdleOf
<1>3. PICK x \in Executed(s, c) : b = Loop(x, "peek")
    BY <1>2
<1>4. Fine(s) /\ c \in Commands
    BY Synced, LinkAssumption DEF Exec
<1> HIDE DEF s
<1>5. Fine(x)
    BY <1>4, ExecutedFine
<1>6. Fine(b)
    BY <1>3, <1>5, LoopFine
<1> QED BY <1>2, <1>6, StepFine

LEMMA DoExecEnd ==
    ASSUME Inv, ExecEnd
    PROVE  Inv'
<1> DEFINE s == SendSync(Both)
           m2 == [s.m EXCEPT !.status = "End"]
           e == [s EXCEPT !.m = m2]
           b == Loop(e, "peek")
<1>1. Step(b)
    BY DEF ExecEnd, OnIdleOf
<1>2. Fine(s)
    BY Synced DEF ExecEnd
<1>3. SameMacro(s.m, m2)
    <2> HIDE DEF s
    <2>1. s.m \in Programs /\ Begun(s.m)
        BY <1>2, FineHas
    <2> QED BY <2>1 DEF SameMacro, Programs, Begun, ViewOf, Statuses
<1>4. e = [s EXCEPT !.m = m2]
    OBVIOUS
<1> HIDE DEF s, m2, e
<1>5. Fine(e)
    BY <1>2, <1>3, <1>4, Moved
<1>6. Fine(b)
    BY <1>5, LoopFine
<1> HIDE DEF b
<1> QED BY <1>1, <1>6, StepFine

LEMMA DoSends ==
    ASSUME Inv, Sends
    PROVE  Inv'
<1> DEFINE s == SendSync(Both)
<1>1. PICK b : b \in {Loop(x, "peek") : x \in DDESend(s)} /\ Step(b)
    BY DEF Sends, OnIdleOf
<1>2. PICK x \in DDESend(s) : b = Loop(x, "peek")
    BY <1>1
<1>3. mac.status \notin {"None", "Starting"}
    BY InvHas DEF Sends, Talking, NoMacro
<1>4. Fine(s)
    BY <1>3, Synced
<1> HIDE DEF s
<1>5. Fine(x)
    BY <1>4, DDESendFine
<1>6. Fine(b)
    BY <1>2, <1>5, LoopFine
<1> QED BY <1>1, <1>6, StepFine

LEMMA DoReads ==
    ASSUME Inv, Reads
    PROVE  Inv'
<1> DEFINE s == SendSync(Both)
           b == Wait(s)
<1>1. Step(b)
    BY DEF Reads, OnIdleOf
<1>2. Fine(s)
    BY Synced DEF Reads
<1> HIDE DEF s
<1>3. Fine(b)
    BY <1>2, WaitFine
<1> HIDE DEF b
<1> QED BY <1>1, <1>3, StepFine

LEMMA DoRests ==
    ASSUME Inv, Rests
    PROVE  Inv'
<1> DEFINE s == SendSync(Both)
           b == Loop(s, "get")
<1>1. Step(b)
    BY DEF Rests, OnIdleOf
<1>2. Fine(s)
    BY Synced DEF Rests
<1> HIDE DEF s
<1>3. Fine(b)
    BY <1>2, LoopFine
<1> HIDE DEF b
<1> QED BY <1>1, <1>3, StepFine

\* The macro ends with what it has not read.
LEMMA DoDestroyed ==
    ASSUME Inv, Destroyed
    PROVE  Inv'
<1> DEFINE c == Leaves(Both)
           g2 == gone \cup ToSet(mac.ring) \cup UNION {ToSet(mq[i].bytes) : i \in 1..Len(mq)}
<1>1. Fine(Both) /\ mac.status = "End"
    BY BothFine DEF Destroyed, Begun
<1>2. Fine(c) /\ c.m = MacroEndDDE(mac) /\ ~c.t.conv /\ c.q = mq /\ c.g = gone
    <2>1. Both.m = mac /\ Both.t = tt /\ Both.q = mq /\ Both.g = gone
        BY DEF Both
    <2> QED BY <1>1, <2>1, LeavesFine
<1>3. c.m.ring = mac.ring /\ c.m.status = "End"
    BY <1>1, <1>2, InvHas DEF MacroEndDDE, Programs
<1>4. mac' = NoMacro /\ tt' = c.t /\ mq' = <<>> /\ gone' = g2 /\ sent' = sent
    <2> DEFINE b == [c EXCEPT !.m = NoMacro, !.q = <<>>, !.g = @ \cup ToSet(mac.ring)
                            \cup UNION {ToSet(mq[i].bytes) : i \in 1..Len(mq)}]
    <2>1. Step(b)
        BY DEF Destroyed, OnIdleOf
    <2> HIDE DEF c
    <2>2. c = Pair(c.m, c.t, mq, gone)
        BY <1>2 DEF Fine
    <2>3. b.m = NoMacro /\ b.t = c.t /\ b.q = <<>> /\ b.g = g2
        BY <1>2, <2>2 DEF Pair
    <2> HIDE DEF b
    <2> QED BY <2>1, <2>3 DEF Step
<1> HIDE DEF c
<1>5. /\ Kept(mac.ring, mq, Unfetched(c.t), sent, gone) /\ Reading(c.t) /\ Talking(c.m, c.t, mq)
      /\ c.t \in Terminals /\ Fetched(c.t, gone)
    BY <1>2, <1>3, FineHas
<1>6. gone \subseteq g2 /\ ToSet(mac.ring) \subseteq g2 /\ Posts(mq) \subseteq g2
    BY DEF Posts
<1> HIDE DEF g2
<1>7. Kept(<<>>, <<>>, Unfetched(c.t), sent, g2)
    BY <1>5, <1>6, Wipes
<1>8. IsData(<<>>) = {} /\ Len(<<>>) = 0
    BY DEF IsData
<1>9. /\ NoMacro \in Programs /\ NoMacro.ring = <<>> /\ ~NoMacro.linked /\ ~NoMacro.sync
      /\ NoMacro.status = "None"
    BY NoMacroIs DEF NoMacro
<1>10. Talking(NoMacro, c.t, <<>>)
    BY <1>2, <1>3, <1>5, <1>8, <1>9 DEF Talking
<1>11. Roomy(NoMacro, c.t, <<>>)
    BY <1>8, <1>9, LinkAssumption DEF Roomy
<1>12. Underway(NoMacro, c.t, <<>>, sent, g2) /\ Fetched(c.t, g2)
    <2>1. Fetched(c.t, g2)
        BY <1>5, <1>6, GoneMore
    <2> QED BY <1>5, <1>7, <1>9, <1>10, <1>11, <2>1 DEF Underway
<1> QED BY <1>4, <1>12, InvHolds

-----------------------------------------------------------------------------
(* The specification.                                                       *)

LEMMA InitInv ==
    ASSUME Init
    PROVE  Inv
<1>1. /\ tt \in Terminals /\ tt.log = <<>> /\ tt.inb = <<>> /\ tt.wire = <<>> /\ tt.port = "open"
      /\ ~tt.ddeLog /\ ~tt.conv /\ ~tt.sync
    <2>1. <<>> \in Seq(Nat)
        BY Nothing
    <2> QED BY <2>1 DEF Init, Terminals
<1>2. /\ mac = NoMacro /\ mq = <<>> /\ sent = 0 /\ gone = {}
    BY DEF Init
<1>3. /\ NoMacro \in Programs /\ NoMacro.ring = <<>> /\ ~NoMacro.linked /\ ~NoMacro.sync
      /\ NoMacro.status = "None"
    BY NoMacroIs DEF NoMacro
<1>4. IsData(<<>>) = {} /\ Posts(<<>>) = {} /\ Len(<<>>) = 0 /\ <<>> \in Seq(Messages)
    BY DEF IsData, Posts
<1>5. Unfetched(tt) = <<>>
    <2>1. <<>> \o <<>> \o <<>> = <<>>
        OBVIOUS
    <2> QED BY <1>1, <2>1 DEF Unfetched
<1>6. Kept(<<>>, <<>>, <<>>, 0, {})
    <2>1. Ordered(<<>>, <<>>, <<>>)
        BY <1>4, Nothing DEF Ordered
    <2>2. 1..0 = {} /\ 0 \in Nat
        OBVIOUS
    <2> QED BY <1>4, <2>1, <2>2, Nothing DEF Kept
<1>7. Reading(tt)
    BY <1>1, <1>4, LinkAssumption DEF Reading
<1>8. Talking(NoMacro, tt, <<>>)
    BY <1>1, <1>3, <1>4 DEF Talking
<1>9. Roomy(NoMacro, tt, <<>>)
    BY <1>3, <1>4, LinkAssumption DEF Roomy
<1>10. Fetched(tt, gone)
    BY <1>1 DEF Fetched
<1> QED BY <1>1, <1>2, <1>3, <1>5, <1>6, <1>7, <1>8, <1>9, <1>10 DEF Inv, Underway

LEMMA NextInv ==
    ASSUME Inv, [Next]_vars
    PROVE  Inv'
<1>1. CASE UNCHANGED vars
    <2>1. UNCHANGED <<tt, mac, mq, sent, gone>>
        BY <1>1 DEF vars
    <2> QED BY <2>1, InvHas, InvHolds
<1>2. CASE Parses
    <2>1. {} \subseteq Nat /\ FALSE \in BOOLEAN /\ TRUE \in BOOLEAN
        OBVIOUS
    <2>2. CASE OnIdle({}, FALSE)
        BY <2>1, <2>2, DoOnIdle
    <2>3. CASE OnIdle({}, TRUE)
        BY <2>1, <2>3, DoOnIdle
    <2> QED BY <1>2, <2>2, <2>3 DEF Parses
<1>3. CASE ParsesOver
    <2>1. {0, 1} \subseteq Nat /\ FALSE \in BOOLEAN
        OBVIOUS
    <2>2. OnIdle({0, 1}, FALSE)
        BY <1>3 DEF ParsesOver
    <2> QED BY <2>1, <2>2, DoOnIdle
<1>4. CASE MacroIdle
    BY <1>4, DoExec, DoExecEnd, DoDestroyed, DoSends, DoReads, DoRests DEF MacroIdle
<1>5. CASE HostSend \/ FdRead \/ FdClose \/ ComEnd \/ OnCommOpen
    BY <1>5, DoHostSend, DoFdRead, DoFdClose, DoComEnd, DoOnCommOpen
<1>6. CASE UserTransfers \/ ProtoDlgCancel \/ OnDdeEnd \/ UserCloses
    BY <1>6, DoUserTransfers, DoProtoDlgCancel, DoOnDdeEnd, DoUserCloses
<1>7. CASE RunMacro \/ InitDDE \/ InitDDE_NoServer \/ Dispatch \/ OnTimer \/ Peek
    BY <1>7, DoRunMacro, DoInitDDE, DoNoServer, DoDispatch, DoOnTimer, DoPeek
<1> QED BY <1>1, <1>2, <1>3, <1>4, <1>5, <1>6, <1>7 DEF Next

\* The parts of Between: the ring, the messages, the terminal.
LEMMA PartsAre ==
    ASSUME Inv
    PROVE  /\ Len(mq) \in Nat /\ Len(Between) = Len(mq) + 2
           /\ Between[1] = mac.ring /\ Between[Len(mq) + 2] = Unfetched(tt)
           /\ \A i \in 1..Len(mq) : Between[i + 1] = mq[i].bytes
<1>1. /\ mac.ring \in Seq(Nat) /\ Unfetched(tt) \in Seq(Nat) /\ mq \in Seq(Messages)
    BY InvHas DEF Kept
<1> DEFINE S == Seq(Nat)
           a == <<mac.ring>>
           b == [i \in 1..Len(mq) |-> mq[i].bytes]
           c == <<Unfetched(tt)>>
<1>2. /\ a \in Seq(S) /\ Len(a) = 1 /\ a[1] = mac.ring
      /\ c \in Seq(S) /\ Len(c) = 1 /\ c[1] = Unfetched(tt)
    BY <1>1
<1>3. b \in Seq(S) /\ Len(b) = Len(mq) /\ Len(mq) \in Nat /\ \A i \in 1..Len(mq) : b[i] = mq[i].bytes
    <2>1. Len(mq) \in Nat /\ \A i \in 1..Len(mq) : mq[i].bytes \in S
        BY <1>1, MessageIs
    <2>2. b \in [1..Len(mq) -> S]
        BY <2>1
    <2> HIDE DEF S
    <2>3. b \in Seq(S)
        BY <2>1, <2>2, IsASeq
    <2>4. Len(b) = Len(mq)
        BY <2>1, <2>2, <2>3, LenProperties
    <2> QED BY <2>1, <2>3, <2>4
<1>4. Between = (a \o b) \o c
    BY DEF Between, Unfetched
<1> HIDE DEF S, a, b, c
<1>5. /\ a \o b \in Seq(S) /\ Len(a \o b) = Len(mq) + 1
      /\ (a \o b)[1] = mac.ring /\ \A i \in 1..Len(mq) : (a \o b)[i + 1] = mq[i].bytes
    <2>1. /\ a \o b \in Seq(S) /\ Len(a \o b) = Len(a) + Len(b)
          /\ \A i \in 1..Len(a) + Len(b) : (a \o b)[i] = IF i <= Len(a) THEN a[i] ELSE b[i - Len(a)]
        <3>1. a \in Seq(S) /\ b \in Seq(S)
            BY <1>2, <1>3
        <3> QED BY <3>1, ConcatProperties
    <2>2. ASSUME NEW i \in 1..Len(mq) PROVE (a \o b)[i + 1] = mq[i].bytes
        <3>1. i + 1 \in 1..Len(a) + Len(b) /\ ~(i + 1 <= Len(a)) /\ i + 1 - Len(a) = i
            BY <1>2, <1>3
        <3> QED BY <1>3, <2>1, <3>1
    <2>3. (a \o b)[1] = mac.ring
        <3>1. 1 \in 1..Len(a) + Len(b) /\ 1 <= Len(a)
            BY <1>2, <1>3
        <3> QED BY <1>2, <2>1, <3>1
    <2> QED BY <1>2, <1>3, <2>1, <2>2, <2>3
<1> DEFINE w == a \o b
<1>6. /\ w \o c \in Seq(S) /\ Len(w \o c) = Len(w) + Len(c)
      /\ \A i \in 1..Len(w) + Len(c) : (w \o c)[i] = IF i <= Len(w) THEN w[i] ELSE c[i - Len(w)]
    <2> HIDE DEF w
    <2>1. w \in Seq(S)
        BY <1>5 DEF w
    <2> QED BY <1>2, <2>1, ConcatProperties
<1>7. /\ w \in Seq(S) /\ Len(w) = Len(mq) + 1
      /\ w[1] = mac.ring /\ \A i \in 1..Len(mq) : w[i + 1] = mq[i].bytes
    BY <1>5
<1>8. Between = w \o c
    BY <1>4
<1> HIDE DEF w
<1>9. (w \o c)[1] = mac.ring
    <2>1. 1 \in 1..Len(w) + Len(c) /\ 1 <= Len(w)
        BY <1>2, <1>3, <1>7
    <2> QED BY <1>6, <1>7, <2>1
<1>10. ASSUME NEW i \in 1..Len(mq) PROVE (w \o c)[i + 1] = mq[i].bytes
    <2>1. i + 1 \in 1..Len(w) + Len(c) /\ i + 1 <= Len(w)
        BY <1>2, <1>3, <1>7
    <2> QED BY <1>6, <1>7, <2>1
<1>11. (w \o c)[Len(mq) + 2] = Unfetched(tt)
    <2>1. Len(mq) + 2 \in 1..Len(w) + Len(c) /\ ~(Len(mq) + 2 <= Len(w)) /\ Len(mq) + 2 - Len(w) = 1
        BY <1>2, <1>3, <1>7
    <2> QED BY <1>2, <1>6, <2>1
<1>12. Len(w \o c) = Len(mq) + 2
    BY <1>2, <1>3, <1>6, <1>7
<1> QED BY <1>3, <1>8, <1>9, <1>10, <1>11, <1>12

LEMMA InvNothingLost ==
    ASSUME Inv
    PROVE  NothingLost
<1> DEFINE n == Len(mq)
           B == Between
           s == Unfetched(tt)
<1>1. /\ n \in Nat /\ Len(B) = n + 2 /\ B[1] = mac.ring /\ B[n + 2] = s
      /\ \A i \in 1..n : B[i + 1] = mq[i].bytes
    BY PartsAre
<1>2. /\ Ordered(mac.ring, mq, s)
      /\ 1..sent \subseteq ToSet(mac.ring) \cup Posts(mq) \cup ToSet(s) \cup gone
    BY InvHas DEF Kept
<1>3. \A p \in 1..Len(B) : p = 1 \/ p = n + 2 \/ \E i \in 1..n : p = i + 1
    <2>1. ASSUME NEW p \in 1..Len(B), p # 1, p # n + 2 PROVE \E i \in 1..n : p = i + 1
        <3>1. p - 1 \in 1..n /\ p = (p - 1) + 1
            BY <1>1, <2>1
        <3> QED BY <3>1
    <2> QED BY <2>1
<1>4. /\ Rising(mac.ring) /\ Rising(s) /\ Precedes(mac.ring, s)
      /\ \A i \in 1..n :
           /\ Rising(mq[i].bytes) /\ Precedes(mac.ring, mq[i].bytes) /\ Precedes(mq[i].bytes, s)
           /\ \A j \in i + 1..n : Precedes(mq[i].bytes, mq[j].bytes)
    BY <1>2 DEF Ordered
<1> HIDE DEF n, B, s
<1>5. ASSUME NEW p \in 1..Len(B) PROVE Rising(B[p])
    BY <1>1, <1>3, <1>4
<1>6. ASSUME NEW p \in 1..Len(B), NEW q \in p + 1..Len(B) PROVE Precedes(B[p], B[q])
    <2>1. q \in 1..Len(B) /\ q # 1 /\ p # n + 2 /\ p < q
        BY <1>1
    <2>2. CASE p = 1
        BY <1>1, <1>3, <1>4, <2>1, <2>2
    <2>3. CASE p # 1
        <3>1. PICK i \in 1..n : p = i + 1
            BY <1>3, <2>1, <2>3
        <3>2. CASE q = n + 2
            BY <1>1, <1>4, <3>1, <3>2
        <3>3. CASE q # n + 2
            <4>1. PICK j \in 1..n : q = j + 1
                BY <1>3, <2>1, <3>3
            <4>2. j \in i + 1..n
                BY <1>1, <2>1, <3>1, <4>1
            <4> QED BY <1>1, <1>4, <3>1, <4>1, <4>2
        <3> QED BY <3>2, <3>3
    <2> QED BY <2>2, <2>3
<1>7. (1..sent) \ UNION {ToSet(B[p]) : p \in 1..Len(B)} \subseteq gone
    <2>1. ASSUME NEW x \in 1..sent, x \notin gone PROVE \E p \in 1..Len(B) : x \in ToSet(B[p])
        <3>0. 1 \in 1..Len(B) /\ n + 2 \in 1..Len(B) /\ \A i \in 1..n : i + 1 \in 1..Len(B)
            BY <1>1
        <3>1. CASE x \in ToSet(mac.ring)
            BY <1>1, <3>0, <3>1
        <3>2. CASE x \in ToSet(s)
            BY <1>1, <3>0, <3>2
        <3>3. CASE x \in Posts(mq)
            <4>1. PICK i \in 1..n : x \in ToSet(mq[i].bytes)
                BY <3>3, PostsHas DEF n
            <4> QED BY <1>1, <3>0, <4>1
        <3> QED BY <1>2, <2>1, <3>1, <3>2, <3>3
    <2> QED BY <2>1
<1> QED BY <1>5, <1>6, <1>7 DEF NothingLost, B

\* Every reachable state satisfies the invariant, its types and counts included
\* (ttdde.c, ttmdde.c, ttmmain.cpp, vtwin.cpp): the log and the ring never outgrow
\* their buffers, both sides agree on whether there is a conversation and in which
\* mode, and in the synchronous mode at most one message of data is underway, which fits.
THEOREM LinkInvariant == Spec => []Inv
<1>1. Init => Inv
    BY InitInv
<1>2. Inv /\ [Next]_vars => Inv'
    BY NextInv
<1> QED BY <1>1, <1>2, PTL DEF Spec

\* What the host sends is read, or underway in its order, for every size of the
\* buffers (DDEPut1, DDEAdv and AcceptRequest; AcceptData, Put1Byte and SendSync;
\* CommCanClose), however many macros are run.
THEOREM HostHeard == Spec => []NothingLost
<1>1. Inv => NothingLost
    BY InvNothingLost
<1> QED BY <1>1, LinkInvariant, PTL

-----------------------------------------------------------------------------
(* The invariant.                                                           *)

EntryKinds == {"call", "for", "while"}
Entries == [type : EntryKinds, level : Nat, line : Nat, owner : DOMAIN text]
States ==
    [files : Seq(DOMAIN text), ptr : Seq(Nat), stack : Seq(Entries), next : BOOLEAN,
     ifNest : Nat, else : 0..1, endIf : Nat, endWhile : Nat, brk : Nat, cont : BOOLEAN,
     err : BOOLEAN, end : BOOLEAN]

\* A place in a file: before one of its lines, or at its end.
Places(file) == 1..(Len(text[file]) + 1)

Opened(s) ==
    /\ INest(s) \in 1..MaxNest /\ Len(s.ptr) = INest(s)
    /\ \A l \in 1..INest(s) : s.ptr[l] \in Places(s.files[l])

\* What an entry of the stack comes back to is a place in a file that is open.
ComesBack(s, e) ==
    /\ e.level \in 1..INest(s) /\ s.files[e.level] = e.owner
    /\ e.line \in Places(e.owner) \/ (e.type = "for" /\ e.line = 0)
Owned(s) ==
    /\ Len(s.stack) <= MaxSP
    /\ \A k \in 1..Len(s.stack) : ComesBack(s, s.stack[k])

\* CloseBuff takes entries from the top as long as they are of a closed file.
InOrder(s) ==
    \A i, k \in 1..Len(s.stack) : i <= k => s.stack[i].level <= s.stack[k].level

\* A line is skipped for one reason: a loop that is not entered, a loop that is left,
\* or a branch.  The branch that is looked for is one of an open "if".
OneReason(s) ==
    /\ s.endWhile > 0 => s.brk = 0 /\ s.endIf = 0 /\ s.else = 0
    /\ s.brk > 0 => s.endIf = 0 /\ s.else = 0
    /\ s.cont => s.brk > 0
    /\ s.else <= s.ifNest

Placed(s) == Opened(s) /\ Owned(s) /\ InOrder(s)
Sound(s) == s \in States /\ Placed(s) /\ OneReason(s)
ControlInv == text \in Macros /\ Sound(ctl)

\* Nothing is skipped: a command is carried out.
Running(s) == s.endWhile = 0 /\ s.brk = 0 /\ s.endIf = 0 /\ s.else = 0

-----------------------------------------------------------------------------
(* Sets of numbers, and parts of a sequence.                                *)

\* The greatest number of a set below n is n less the least distance to n.
LEMMA GreatestOf ==
    ASSUME NEW n \in Nat, NEW S \in SUBSET (0..n), S # {}
    PROVE  Max(S) \in S /\ \A x \in S : x <= Max(S)
<1> DEFINE D == {d \in 0..n : n - d \in S}
<1>1. D \in SUBSET Nat /\ D # {}
    <2>1. PICK x \in S : TRUE
        OBVIOUS
    <2>2. n - x \in 0..n /\ n - (n - x) = x
        BY <2>1
    <2>3. n - x \in D
        BY <2>1, <2>2
    <2>4. D \subseteq 0..n /\ 0..n \subseteq Nat
        OBVIOUS
    <2> HIDE DEF D
    <2> QED BY <2>3, <2>4
<1>2. Min(D) \in D /\ \A d \in D : Min(D) <= d
    BY <1>1, LeastOf
<1> DEFINE g == n - Min(D)
<1>3. g \in S
    BY <1>2
<1>4. ASSUME NEW x \in S PROVE x <= g
    <2>1. n - x \in 0..n /\ n - (n - x) = x
        OBVIOUS
    <2>2. n - x \in D
        BY <2>1
    <2> QED BY <1>2, <2>2
<1> HIDE DEF g
<1> QED BY <1>3, <1>4 DEF Max

LEMMA FirstPart ==
    ASSUME NEW S, NEW q \in Seq(S), NEW n \in 0..Len(q)
    PROVE  /\ SubSeq(q, 1, n) \in Seq(S) /\ Len(SubSeq(q, 1, n)) = n
           /\ \A i \in 1..n : SubSeq(q, 1, n)[i] = q[i]
OBVIOUS

LEMMA Appended ==
    ASSUME NEW S, NEW q \in Seq(S), NEW e \in S
    PROVE  /\ Append(q, e) \in Seq(S) /\ Len(Append(q, e)) = Len(q) + 1
           /\ \A i \in 1..Len(q) : Append(q, e)[i] = q[i]
           /\ Append(q, e)[Len(q) + 1] = e
OBVIOUS

LEMMA Touched ==
    ASSUME NEW S, NEW q \in Seq(S), NEW k \in 1..Len(q), NEW e \in S
    PROVE  /\ [q EXCEPT ![k] = e] \in Seq(S) /\ Len([q EXCEPT ![k] = e]) = Len(q)
           /\ \A i \in 1..Len(q) : [q EXCEPT ![k] = e][i] = IF i = k THEN e ELSE q[i]
OBVIOUS

-----------------------------------------------------------------------------
(* Files that close.                                                        *)

\* Only the files, their places and the stack matter to where a macro is.
LEMMA SamePlaces ==
    ASSUME NEW s, NEW t, Placed(s), t.files = s.files, t.ptr = s.ptr, t.stack = s.stack
    PROVE  Placed(t)
BY DEF Placed, Opened, Owned, InOrder, ComesBack, INest

LEMMA Sizes ==
    ASSUME NEW s \in States, Placed(s)
    PROVE  /\ INest(s) = Len(s.files) /\ INest(s) \in Nat /\ INest(s) >= 1 /\ INest(s) <= MaxNest
           /\ Len(s.files) \in Nat /\ Len(s.ptr) = INest(s) /\ Len(s.stack) \in Nat
           /\ Len(s.stack) <= MaxSP /\ MaxSP \in Nat /\ MaxNest \in Nat
           /\ s.files \in Seq(DOMAIN text) /\ s.ptr \in Seq(Nat) /\ s.stack \in Seq(Entries)
           /\ \A k \in 1..Len(s.stack) : s.stack[k] \in Entries /\ s.stack[k].level \in Nat
<1>1. s.files \in Seq(DOMAIN text) /\ s.ptr \in Seq(Nat) /\ s.stack \in Seq(Entries)
    BY DEF States
<1>2. \A k \in 1..Len(s.stack) : s.stack[k] \in Entries /\ s.stack[k].level \in Nat
    <2> TAKE k \in 1..Len(s.stack)
    <2>1. s.stack[k] \in Entries
        BY <1>1
    <2> QED BY <2>1 DEF Entries
<1> QED BY <1>1, <1>2, MacroAssumption DEF Placed, Opened, Owned, INest

\* The entries that CloseBuff keeps are those of the files that stay open.
LEMMA KeptBelow ==
    ASSUME NEW s \in States, Placed(s), NEW l \in 1..INest(s)
    PROVE  LET kept == Max({0} \cup {k \in 1..Len(s.stack) : s.stack[k].level <= l})
           IN  kept \in 0..Len(s.stack) /\ \A k \in 1..kept : s.stack[k].level <= l
<1> DEFINE K == {0} \cup {k \in 1..Len(s.stack) : s.stack[k].level <= l}
           kept == Max(K)
<1>1. Len(s.stack) \in Nat
    BY Sizes
<1>2. K \in SUBSET (0..Len(s.stack)) /\ K # {}
    BY <1>1
<1>3. kept \in K
    BY <1>1, <1>2, GreatestOf
<1>4. kept \in 0..Len(s.stack)
    BY <1>2, <1>3
<1>5. ASSUME NEW k \in 1..kept PROVE s.stack[k].level <= l
    <2>1. kept \in 1..Len(s.stack) /\ k \in 1..Len(s.stack) /\ k <= kept
        BY <1>1, <1>4
    <2>2. s.stack[kept].level <= l
        BY <1>3, <2>1
    <2> HIDE DEF kept
    <2>3. s.stack[k].level <= s.stack[kept].level
        BY <2>1 DEF Placed, InOrder
    <2>4. s.stack[k].level \in Nat /\ s.stack[kept].level \in Nat /\ l \in Nat
        BY <2>1, Sizes
    <2> QED BY <2>2, <2>3, <2>4
<1> QED BY <1>4, <1>5

\* What is left when the files above a level are closed.
LEMMA Closed ==
    ASSUME NEW s \in States, Placed(s), NEW l \in 1..INest(s)
    PROVE  LET t == CloseBuff(s, l)
           IN  /\ t \in States /\ Placed(t) /\ INest(t) = l
               /\ \A i \in 1..l : t.files[i] = s.files[i] /\ t.ptr[i] = s.ptr[i]
               /\ t.next = s.next /\ t.ifNest = s.ifNest /\ t.else = s.else /\ t.endIf = s.endIf
               /\ t.endWhile = s.endWhile /\ t.brk = s.brk /\ t.cont = s.cont
               /\ t.err = s.err /\ t.end = s.end
<1> DEFINE t == CloseBuff(s, l)
           kept == Max({0} \cup {k \in 1..Len(s.stack) : s.stack[k].level <= l})
<1>1. kept \in 0..Len(s.stack) /\ \A k \in 1..kept : s.stack[k].level <= l
    BY KeptBelow
<1>2. t = [s EXCEPT !.files = SubSeq(@, 1, l), !.ptr = SubSeq(@, 1, l),
                    !.stack = SubSeq(@, 1, kept)]
    BY DEF CloseBuff
<1> HIDE DEF t, kept
<1>3. /\ s.files \in Seq(DOMAIN text) /\ s.ptr \in Seq(Nat) /\ s.stack \in Seq(Entries)
      /\ l \in 0..Len(s.files) /\ l \in 0..Len(s.ptr) /\ INest(s) = Len(s.files)
      /\ l \in 1..MaxNest /\ Len(s.stack) <= MaxSP
      /\ INest(s) \in Nat /\ Len(s.stack) \in Nat /\ MaxSP \in Nat
    BY Sizes
<1>4. /\ t.files = SubSeq(s.files, 1, l) /\ t.ptr = SubSeq(s.ptr, 1, l)
      /\ t.stack = SubSeq(s.stack, 1, kept)
      /\ t.next = s.next /\ t.ifNest = s.ifNest /\ t.else = s.else /\ t.endIf = s.endIf
      /\ t.endWhile = s.endWhile /\ t.brk = s.brk /\ t.cont = s.cont
      /\ t.err = s.err /\ t.end = s.end
    BY <1>2 DEF States
<1>5. /\ t.files \in Seq(DOMAIN text) /\ Len(t.files) = l /\ \A i \in 1..l : t.files[i] = s.files[i]
      /\ t.ptr \in Seq(Nat) /\ Len(t.ptr) = l /\ \A i \in 1..l : t.ptr[i] = s.ptr[i]
      /\ t.stack \in Seq(Entries) /\ Len(t.stack) = kept /\ \A k \in 1..kept : t.stack[k] = s.stack[k]
    <2>1. t.files \in Seq(DOMAIN text) /\ Len(t.files) = l /\ \A i \in 1..l : t.files[i] = s.files[i]
        BY <1>3, <1>4, FirstPart
    <2>2. t.ptr \in Seq(Nat) /\ Len(t.ptr) = l /\ \A i \in 1..l : t.ptr[i] = s.ptr[i]
        BY <1>3, <1>4, FirstPart
    <2>3. t.stack \in Seq(Entries) /\ Len(t.stack) = kept /\ \A k \in 1..kept : t.stack[k] = s.stack[k]
        BY <1>1, <1>3, <1>4, FirstPart
    <2> QED BY <2>1, <2>2, <2>3
<1>6. t \in States
    BY <1>2, <1>4, <1>5 DEF States
<1>7. INest(t) = l
    BY <1>5 DEF INest
<1>8. Opened(t)
    BY <1>3, <1>5, <1>7 DEF Placed, Opened
<1>9. Owned(t)
    <2>1. Len(t.stack) <= MaxSP
        BY <1>1, <1>3, <1>5
    <2>2. ASSUME NEW k \in 1..Len(t.stack) PROVE ComesBack(t, t.stack[k])
        <3>1. k \in 1..kept /\ k \in 1..Len(s.stack) /\ t.stack[k] = s.stack[k] /\ s.stack[k].level <= l
            <4>1. k \in 1..kept /\ k \in 1..Len(s.stack)
                BY <1>1, <1>3, <1>5
            <4> QED BY <4>1, <1>1, <1>5
        <3>2. ComesBack(s, s.stack[k])
            BY <3>1 DEF Placed, Owned
        <3>3. s.stack[k].level \in 1..l
            BY <1>3, <3>1, <3>2 DEF ComesBack
        <3> QED BY <1>5, <1>7, <3>1, <3>2, <3>3 DEF ComesBack
    <2> QED BY <2>1, <2>2 DEF Owned
<1>10. InOrder(t)
    <2> SUFFICES ASSUME NEW i \in 1..Len(t.stack), NEW k \in 1..Len(t.stack), i <= k
                 PROVE  t.stack[i].level <= t.stack[k].level
        BY DEF InOrder
    <2>1. i \in 1..Len(s.stack) /\ k \in 1..Len(s.stack) /\ t.stack[i] = s.stack[i] /\ t.stack[k] = s.stack[k]
        <3>1. i \in 1..kept /\ k \in 1..kept /\ i \in 1..Len(s.stack) /\ k \in 1..Len(s.stack)
            BY <1>1, <1>3, <1>5
        <3> QED BY <3>1, <1>5
    <2> QED BY <2>1 DEF Placed, InOrder
<1> QED BY <1>4, <1>5, <1>6, <1>7, <1>8, <1>9, <1>10 DEF Placed, t

\* A place in a file is set.
LEMMA Turned ==
    ASSUME NEW s \in States, Placed(s), NEW l \in 1..INest(s), NEW p \in Nat,
           p \in Places(s.files[l])
    PROVE  LET t == [s EXCEPT !.ptr[l] = p]
           IN  t \in States /\ Placed(t) /\ t.files = s.files /\ t.ptr[l] = p
<1> DEFINE t == [s EXCEPT !.ptr[l] = p]
<1>1. s.ptr \in Seq(Nat) /\ l \in 1..Len(s.ptr) /\ l \in 1..Len(s.files)
    BY DEF States, Placed, Opened, INest
<1>2. /\ t.files = s.files /\ t.stack = s.stack /\ t.ptr = [s.ptr EXCEPT ![l] = p]
    BY DEF States
<1>3. /\ t.ptr \in Seq(Nat) /\ Len(t.ptr) = Len(s.ptr)
      /\ \A i \in 1..Len(s.ptr) : t.ptr[i] = IF i = l THEN p ELSE s.ptr[i]
    BY <1>1, <1>2, Touched
<1>4. t \in States
    BY <1>2, <1>3 DEF States
<1> HIDE DEF t
<1>5. Opened(t)
    BY <1>1, <1>2, <1>3 DEF Placed, Opened, INest
<1>6. Owned(t) /\ InOrder(t)
    BY <1>2 DEF Placed, Owned, InOrder, ComesBack, INest
<1> QED BY <1>1, <1>2, <1>3, <1>4, <1>5, <1>6 DEF Placed, t

\* What of the state says whether lines are skipped.
SameReasons(s, t) ==
    /\ t.ifNest = s.ifNest /\ t.else = s.else /\ t.endIf = s.endIf
    /\ t.endWhile = s.endWhile /\ t.brk = s.brk /\ t.cont = s.cont

LEMMA ReasonsKept ==
    ASSUME NEW s, NEW t, OneReason(s), SameReasons(s, t)
    PROVE  OneReason(t)
BY DEF OneReason, SameReasons

\* A step that moves nothing.
LEMMA Stays ==
    ASSUME NEW s, Sound(s), NEW t \in States, OneReason(t),
           t.files = s.files, t.ptr = s.ptr, t.stack = s.stack
    PROVE  Sound(t)
BY SamePlaces DEF Sound

LEMMA Errs ==
    ASSUME NEW s, Sound(s)
    PROVE  Sound(Err(s)) /\ SameReasons(s, Err(s))
<1> DEFINE t == Err(s)
<1>1. s \in States
    BY DEF Sound
<1>2. /\ t \in States /\ t.files = s.files /\ t.ptr = s.ptr /\ t.stack = s.stack
      /\ SameReasons(s, t)
    BY <1>1 DEF Err, States, SameReasons
<1> QED BY <1>2, Stays, ReasonsKept DEF Sound

LEMMA Closes ==
    ASSUME NEW s, Sound(s), NEW l \in 1..INest(s)
    PROVE  Sound(CloseBuff(s, l)) /\ SameReasons(s, CloseBuff(s, l))
<1>1. s \in States /\ Placed(s)
    BY DEF Sound
<1>2. /\ CloseBuff(s, l) \in States /\ Placed(CloseBuff(s, l))
      /\ SameReasons(s, CloseBuff(s, l))
    BY <1>1, Closed DEF SameReasons
<1> QED BY <1>2, ReasonsKept DEF Sound

\* A jump to a place in a file that is open.
LEMMA Jumps ==
    ASSUME NEW s, Sound(s), NEW l \in 1..INest(s), NEW line \in Nat,
           line \in Places(s.files[l])
    PROVE  LET t == Jump(s, l, line)
           IN  /\ Sound(t) /\ SameReasons(s, t) /\ INest(t) = l /\ t.ptr[l] = line
               /\ t.files[l] = s.files[l] /\ t.end = s.end
<1> DEFINE c == CloseBuff(s, l)
           t == [c EXCEPT !.ptr[l] = line]
<1>1. s \in States /\ Placed(s)
    BY DEF Sound
<1>2. /\ c \in States /\ Placed(c) /\ INest(c) = l /\ c.files[l] = s.files[l]
      /\ SameReasons(s, c) /\ c.end = s.end
    <2>1. l \in 1..l
        BY <1>1, Sizes
    <2> QED BY <1>1, <2>1, Closed DEF SameReasons
<1> HIDE DEF c
<1>3. l \in 1..INest(c) /\ line \in Places(c.files[l])
    BY <1>1, <1>2, Sizes
<1>4. t \in States /\ Placed(t) /\ t.files = c.files /\ t.ptr[l] = line
    BY <1>2, <1>3, Turned
<1>5. SameReasons(s, t) /\ t.end = s.end /\ INest(t) = l
    BY <1>2, <1>4 DEF States, SameReasons, INest
<1>6. t = Jump(s, l, line)
    BY DEF Jump, c
<1> HIDE DEF t
<1>7. OneReason(t)
    BY <1>5, ReasonsKept DEF Sound
<1> QED BY <1>2, <1>4, <1>5, <1>6, <1>7 DEF Sound

-----------------------------------------------------------------------------
(* ReadsOn a line.                                                          *)

\* The line that was read is one of the innermost file.
ReadsOn(s) == LineStart(s) \in 1..Len(Lines(s, INest(s)))

LEMMA FileLengths ==
    ASSUME text \in Macros, NEW f \in DOMAIN text
    PROVE  Len(text[f]) \in Nat /\ Places(f) \subseteq Nat
<1>1. text[f] \in Seq(Seq(STRING))
    BY MacroAssumption
<1> QED BY <1>1 DEF Places

LEMMA FileAt ==
    ASSUME NEW s, Sound(s), NEW l \in 1..INest(s)
    PROVE  s.files[l] \in DOMAIN text /\ s.ptr[l] \in Nat /\ s.ptr[l] \in Places(s.files[l])
<1>1. s \in States /\ Placed(s)
    BY DEF Sound
<1>2. s.files \in Seq(DOMAIN text) /\ s.ptr \in Seq(Nat) /\ l \in 1..Len(s.files) /\ l \in 1..Len(s.ptr)
    BY <1>1, Sizes
<1> QED BY <1>1, <1>2 DEF Placed, Opened

LEMMA LineRead ==
    ASSUME text \in Macros, NEW s, Sound(s)
    PROVE  LET t == GetNewLine(s)
           IN  Sound(t) /\ SameReasons(s, t) /\ (t.end \/ ReadsOn(t))
<1> DEFINE open == {l \in 1..INest(s) : Unread(s, l) # {}}
           t == GetNewLine(s)
<1>1. s \in States /\ Placed(s)
    BY DEF Sound
<1>2. CASE open = {}
    <2>1. t = [s EXCEPT !.end = TRUE]
        BY <1>2 DEF GetNewLine
    <2> HIDE DEF t
    <2>2. /\ t \in States /\ t.files = s.files /\ t.ptr = s.ptr /\ t.stack = s.stack
          /\ SameReasons(s, t) /\ t.end
        BY <1>1, <2>1 DEF States, SameReasons
    <2>3. Sound(t)
        BY <2>2, Stays, ReasonsKept DEF Sound
    <2> QED BY <2>2, <2>3 DEF t
<1>3. CASE open # {}
    <2> DEFINE l == Max(open)
               i == Min(Unread(s, l))
    <2>1. l \in 1..INest(s) /\ Unread(s, l) # {}
        <3>1. INest(s) \in Nat /\ open \in SUBSET (0..INest(s))
            BY <1>1, Sizes
        <3>2. l \in open
            BY <1>3, <3>1, GreatestOf
        <3> QED BY <3>2
    <2>2. t = Jump(s, l, i + 1)
        BY <1>3 DEF GetNewLine, Jump
    <2> HIDE DEF t, l, open
    <2>3. /\ s.files[l] \in DOMAIN text /\ s.ptr[l] \in Nat /\ s.ptr[l] >= 1
          /\ Len(text[s.files[l]]) \in Nat
        BY <2>1, FileAt, FileLengths DEF Places
    <2>4. i \in 1..Len(text[s.files[l]])
        <3>1. Unread(s, l) \in SUBSET Nat /\ Unread(s, l) \subseteq 1..Len(text[s.files[l]])
            BY <2>3 DEF Unread, Lines
        <3>2. i \in Unread(s, l)
            BY <2>1, <3>1, LeastOf
        <3> QED BY <3>1, <3>2
    <2> HIDE DEF i
    <2>5. i + 1 \in Nat /\ i + 1 \in Places(s.files[l])
        BY <2>3, <2>4 DEF Places
    <2>6. PICK p \in Nat : p = i + 1
        BY <2>5
    <2>7. /\ Sound(t) /\ SameReasons(s, t) /\ INest(t) = l /\ t.ptr[l] = p
          /\ t.files[l] = s.files[l]
        <3>1. p \in Places(s.files[l]) /\ t = Jump(s, l, p)
            BY <2>2, <2>5, <2>6
        <3> QED BY <2>1, <3>1, Jumps
    <2>8. LineStart(t) = i
        BY <2>3, <2>4, <2>6, <2>7 DEF LineStart
    <2>9. ReadsOn(t)
        BY <2>4, <2>7, <2>8 DEF ReadsOn, Lines
    <2> QED BY <2>7, <2>9 DEF t
<1> QED BY <1>2, <1>3

-----------------------------------------------------------------------------
(* The control stack.                                                       *)

\* The entry at the top comes back to a file that is open.
LEMMA TopComesBack ==
    ASSUME text \in Macros, NEW s, Sound(s), s.stack # <<>>
    PROVE  /\ Top(s) \in Entries /\ Top(s).level \in 1..INest(s) /\ Top(s).line \in Nat
           /\ Top(s).line # 0 => Top(s).line \in Places(s.files[Top(s).level])
           /\ Top(s).type # "for" => Top(s).line # 0
<1>1. s \in States /\ Placed(s)
    BY DEF Sound
<1>2. Len(s.stack) \in 1..Len(s.stack) /\ Top(s) = s.stack[Len(s.stack)]
    BY <1>1, Sizes DEF Top, Last
<1>3. Top(s) \in Entries /\ ComesBack(s, Top(s))
    BY <1>1, <1>2, Sizes DEF Placed, Owned
<1>4. Top(s).level \in 1..INest(s) /\ Top(s).line \in Nat /\ Top(s).owner \in DOMAIN text
    BY <1>3 DEF ComesBack, Entries
<1>5. Places(Top(s).owner) \subseteq Nat /\ 0 \notin Places(Top(s).owner)
    BY <1>4, FileLengths DEF Places
<1> QED BY <1>3, <1>4, <1>5 DEF ComesBack

LEMMA Pops ==
    ASSUME NEW s, Sound(s), s.stack # <<>>
    PROVE  /\ Sound(Pop(s)) /\ SameReasons(s, Pop(s)) /\ Pop(s).files = s.files
           /\ INest(Pop(s)) = INest(s) /\ Pop(s).end = s.end
<1> DEFINE t == Pop(s)
           n == Len(s.stack) - 1
<1>1. s \in States /\ Placed(s)
    BY DEF Sound
<1>2. n \in 0..Len(s.stack) /\ s.stack \in Seq(Entries) /\ n <= MaxSP
    BY <1>1, Sizes
<1>3. /\ t.stack = SubSeq(s.stack, 1, n) /\ t.files = s.files /\ t.ptr = s.ptr
      /\ SameReasons(s, t) /\ t.end = s.end
    BY <1>1 DEF Pop, Front, States, SameReasons
<1>4. /\ t.stack \in Seq(Entries) /\ Len(t.stack) = n
      /\ \A k \in 1..n : t.stack[k] = s.stack[k]
    <2> HIDE DEF n, t
    <2> QED BY <1>2, <1>3, FirstPart
<1>5. t \in States
    BY <1>1, <1>4 DEF Pop, Front, States
<1> HIDE DEF t
<1>6. \A k \in 1..n : k \in 1..Len(s.stack)
    BY <1>2
<1>7. Opened(t)
    BY <1>1, <1>3 DEF Placed, Opened, INest
<1>8. Owned(t)
    BY <1>1, <1>2, <1>3, <1>4, <1>6 DEF Placed, Owned, ComesBack, INest
<1>9. InOrder(t)
    <2> SUFFICES ASSUME NEW i \in 1..Len(t.stack), NEW k \in 1..Len(t.stack), i <= k
                 PROVE  t.stack[i].level <= t.stack[k].level
        BY DEF InOrder
    <2>1. i \in 1..n /\ k \in 1..n /\ i \in 1..Len(s.stack) /\ k \in 1..Len(s.stack)
        BY <1>4, <1>6
    <2>2. t.stack[i] = s.stack[i] /\ t.stack[k] = s.stack[k]
        BY <1>4, <2>1
    <2> QED BY <1>1, <2>1, <2>2 DEF Placed, InOrder
<1>10. OneReason(t)
    BY <1>3, ReasonsKept DEF Sound
<1> QED BY <1>3, <1>5, <1>7, <1>8, <1>9, <1>10 DEF Sound, Placed, t, INest

\* A loop or a call is that of the innermost file, the last one of the stack's levels.
LEMMA Pushes ==
    ASSUME NEW s, Sound(s), NEW type \in EntryKinds, NEW line \in Nat,
           line \in Places(s.files[INest(s)])
    PROVE  LET t == Push(s, type, line)
           IN  Sound(t) /\ SameReasons(s, t) /\ t.files = s.files /\ t.ptr = s.ptr
<1> DEFINE e == Entry(type, INest(s), line, Last(s.files))
           t == [s EXCEPT !.stack = Append(@, e)]
<1>1. s \in States /\ Placed(s)
    BY DEF Sound
<1>2. CASE Len(s.stack) >= MaxSP
    <2>1. Push(s, type, line) = Err(s)
        BY <1>2 DEF Push
    <2>2. Err(s).files = s.files /\ Err(s).ptr = s.ptr
        BY <1>1 DEF Err, States
    <2> QED BY <2>1, <2>2, Errs
<1>3. CASE ~(Len(s.stack) >= MaxSP)
    <2>1. Push(s, type, line) = t
        BY <1>3 DEF Push
    <2>2. INest(s) \in 1..INest(s) /\ Last(s.files) = s.files[INest(s)]
        BY <1>1, Sizes DEF Last
    <2>3. s.files[INest(s)] \in DOMAIN text
        BY <2>2, FileAt
    <2>4. e \in Entries
        BY <1>1, <2>2, <2>3, Sizes DEF Entry, Entries
    <2>5. ComesBack(s, e)
        BY <2>2 DEF Entry, ComesBack
    <2> HIDE DEF e
    <2>6. /\ t.stack = Append(s.stack, e) /\ t.files = s.files /\ t.ptr = s.ptr
          /\ SameReasons(s, t)
        BY <1>1 DEF States, SameReasons
    <2>7. /\ t.stack \in Seq(Entries) /\ Len(t.stack) = Len(s.stack) + 1
          /\ \A k \in 1..Len(s.stack) : t.stack[k] = s.stack[k]
          /\ t.stack[Len(s.stack) + 1] = e
        <3> HIDE DEF t
        <3> QED BY <1>1, <2>4, <2>6, Appended, Sizes
    <2>8. t \in States
        BY <1>1, <2>6, <2>7 DEF States
    <2> HIDE DEF t
    <2>9. Opened(t)
        BY <1>1, <2>6 DEF Placed, Opened, INest
    <2>10. Owned(t)
        <3>1. Len(t.stack) <= MaxSP
            BY <1>1, <1>3, <2>7, Sizes
        <3>2. ASSUME NEW k \in 1..Len(t.stack) PROVE ComesBack(t, t.stack[k])
            <4>1. k \in 1..Len(s.stack) \/ k = Len(s.stack) + 1
                BY <1>1, <2>7, Sizes
            <4>2. ComesBack(s, t.stack[k])
                BY <1>1, <2>5, <2>7, <4>1 DEF Placed, Owned
            <4> QED BY <2>6, <4>2 DEF ComesBack, INest
        <3> QED BY <3>1, <3>2 DEF Owned
    <2>11. InOrder(t)
        <3> SUFFICES ASSUME NEW i \in 1..Len(t.stack), NEW k \in 1..Len(t.stack), i <= k
                     PROVE  t.stack[i].level <= t.stack[k].level
            BY DEF InOrder
        <3>1. e.level = INest(s) /\ INest(s) \in Nat
            BY <1>1, Sizes DEF e, Entry
        <3>2. /\ i \in 1..Len(s.stack) \/ i = Len(s.stack) + 1
              /\ k \in 1..Len(s.stack) \/ (k = Len(s.stack) + 1)
              /\ k \in 1..Len(s.stack) => i \in 1..Len(s.stack)
            BY <1>1, <2>7, Sizes
        <3>3. CASE k \in 1..Len(s.stack)
            BY <1>1, <2>7, <3>2, <3>3 DEF Placed, InOrder
        <3>4. CASE k = Len(s.stack) + 1 /\ i \in 1..Len(s.stack)
            <4>1. ComesBack(s, s.stack[i])
                BY <1>1, <3>4 DEF Placed, Owned
            <4> QED BY <2>7, <3>1, <3>4, <4>1 DEF ComesBack
        <3>5. CASE k = Len(s.stack) + 1 /\ i = Len(s.stack) + 1
            BY <2>7, <3>1, <3>5
        <3> QED BY <3>2, <3>3, <3>4, <3>5
    <2>12. OneReason(t)
        BY <2>6, ReasonsKept DEF Sound
    <2> QED BY <2>1, <2>6, <2>8, <2>9, <2>10, <2>11, <2>12 DEF Sound, Placed, t
<1> QED BY <1>2, <1>3

-----------------------------------------------------------------------------
(* Jumps, calls and included files.                                         *)

\* A label of an open file is before one of its lines, or at its end.
LEMMA LabelIs ==
    ASSUME text \in Macros, NEW s, Sound(s), NEW name, NEW l \in LevelsWith(s, name)
    PROVE  /\ l \in 1..INest(s)
           /\ LineOf(s, l, name) + 1 \in Nat /\ LineOf(s, l, name) + 1 \in Places(s.files[l])
<1> DEFINE L == {i \in Labels(s, l) : Lines(s, l)[i][2] = name}
<1>1. l \in 1..INest(s) /\ L # {}
    BY DEF LevelsWith
<1>2. Len(text[s.files[l]]) \in Nat
    BY <1>1, FileAt, FileLengths
<1>3. L \in SUBSET Nat /\ L \subseteq 1..Len(text[s.files[l]])
    BY <1>2 DEF Labels, Lines
<1>4. LineOf(s, l, name) = Min(L)
    BY DEF LineOf
<1> HIDE DEF L
<1>5. LineOf(s, l, name) \in 1..Len(text[s.files[l]])
    BY <1>1, <1>3, <1>4, LeastOf
<1> QED BY <1>1, <1>2, <1>5 DEF Places

LEMMA LevelsAre ==
    ASSUME NEW s, Sound(s), NEW name, LevelsWith(s, name) # {}
    PROVE  Min(LevelsWith(s, name)) \in LevelsWith(s, name)
<1>1. s \in States /\ Placed(s)
    BY DEF Sound
<1>2. LevelsWith(s, name) \in SUBSET Nat
    BY <1>1, Sizes DEF LevelsWith
<1> QED BY <1>2, LeastOf

LEMMA JumpsToLabel ==
    ASSUME text \in Macros, NEW s, Sound(s), NEW name
    PROVE  Sound(JumpToLabel(s, name))
<1>1. CASE LevelsWith(s, name) = {}
    BY <1>1, Errs DEF JumpToLabel
<1>2. CASE LevelsWith(s, name) # {}
    <2>1. PICK l \in LevelsWith(s, name) : l = Min(LevelsWith(s, name))
        BY <1>2, LevelsAre
    <2>2. JumpToLabel(s, name) = Jump(s, l, LineOf(s, l, name) + 1)
        BY <1>2, <2>1 DEF JumpToLabel
    <2>3. /\ l \in 1..INest(s) /\ LineOf(s, l, name) + 1 \in Nat
          /\ LineOf(s, l, name) + 1 \in Places(s.files[l])
        BY <2>1, LabelIs
    <2>4. PICK p \in Nat : p = LineOf(s, l, name) + 1
        BY <2>3
    <2>5. p \in Places(s.files[l])
        BY <2>3, <2>4
    <2>6. Sound(Jump(s, l, p))
        BY <2>3, <2>5, Jumps
    <2> QED BY <2>2, <2>4, <2>6
<1> QED BY <1>1, <1>2

LEMMA InnermostAt ==
    ASSUME NEW s, Sound(s)
    PROVE  /\ INest(s) \in 1..INest(s) /\ s.ptr[INest(s)] \in Nat
           /\ s.ptr[INest(s)] \in Places(s.files[INest(s)])
<1>1. s \in States /\ Placed(s)
    BY DEF Sound
<1>2. INest(s) \in 1..INest(s)
    BY <1>1, Sizes
<1> QED BY <1>2, FileAt

LEMMA CallsLabel ==
    ASSUME text \in Macros, NEW s, Sound(s), NEW name
    PROVE  Sound(CallToLabel(s, name))
<1> DEFINE called == Push(s, "call", s.ptr[INest(s)])
<1>1. Sound(called) /\ called.files = s.files
    <2>1. "call" \in EntryKinds
        BY DEF EntryKinds
    <2>2. PICK p \in Nat : p = s.ptr[INest(s)] /\ p \in Places(s.files[INest(s)])
        BY InnermostAt
    <2>3. Sound(Push(s, "call", p)) /\ Push(s, "call", p).files = s.files
        BY <2>1, <2>2, Pushes
    <2> QED BY <2>2, <2>3
<1>2. CASE LevelsWith(s, name) = {} \/ Min(LevelsWith(s, name)) # INest(s) \/ called.err
    BY <1>2, Errs DEF CallToLabel
<1>3. CASE ~(LevelsWith(s, name) = {} \/ Min(LevelsWith(s, name)) # INest(s) \/ called.err)
    <2>1. PICK l \in LevelsWith(s, name) : l = INest(s)
        BY <1>3, LevelsAre
    <2>2. CallToLabel(s, name) = Jump(called, l, LineOf(s, l, name) + 1)
        BY <1>3, <2>1 DEF CallToLabel
    <2> HIDE DEF called
    <2>3. PICK p \in Nat : p = LineOf(s, l, name) + 1 /\ p \in Places(s.files[l])
        BY <2>1, LabelIs
    <2>4. l \in 1..INest(called) /\ p \in Places(called.files[l])
        BY <1>1, <2>1, <2>3, InnermostAt DEF INest
    <2>5. Sound(Jump(called, l, p))
        BY <1>1, <2>4, Jumps
    <2> QED BY <2>2, <2>3, <2>5
<1> QED BY <1>2, <1>3

\* What pops the top and goes on at its place, or after it.
LEMMA TopJumps ==
    ASSUME text \in Macros, NEW s, Sound(s), s.stack # <<>>, Top(s).line # 0
    PROVE  /\ Sound(Jump(Pop(s), Top(s).level, Top(s).line))
           /\ Sound(Jump(s, Top(s).level, Top(s).line))
           /\ SameReasons(s, Jump(s, Top(s).level, Top(s).line))
<1>1. /\ Sound(Pop(s)) /\ Pop(s).files = s.files /\ INest(Pop(s)) = INest(s)
    BY Pops
<1>2. PICK l \in 1..INest(s), p \in Nat :
         l = Top(s).level /\ p = Top(s).line /\ p \in Places(s.files[l])
    BY TopComesBack
<1>3. Sound(Jump(s, l, p)) /\ SameReasons(s, Jump(s, l, p))
    BY <1>2, Jumps
<1>4. l \in 1..INest(Pop(s)) /\ p \in Places(Pop(s).files[l])
    BY <1>1, <1>2
<1>5. Sound(Jump(Pop(s), l, p))
    BY <1>1, <1>4, Jumps
<1> QED BY <1>2, <1>3, <1>5

LEMMA TopCloses ==
    ASSUME text \in Macros, NEW s, Sound(s), s.stack # <<>>
    PROVE  LET t == CloseBuff(Pop(s), Top(s).level)
           IN  Sound(t) /\ SameReasons(s, t)
<1>1. /\ Sound(Pop(s)) /\ SameReasons(s, Pop(s)) /\ INest(Pop(s)) = INest(s)
    BY Pops
<1>2. PICK l \in 1..INest(Pop(s)) : l = Top(s).level
    BY <1>1, TopComesBack
<1>3. Sound(CloseBuff(Pop(s), l)) /\ SameReasons(Pop(s), CloseBuff(Pop(s), l))
    BY <1>1, Closes
<1> QED BY <1>1, <1>2, <1>3 DEF SameReasons

LEMMA Returns ==
    ASSUME text \in Macros, NEW s, Sound(s)
    PROVE  Sound(ReturnFromSub(s))
<1>1. CASE TopIs(s, {"call"})
    <2>1. s.stack # <<>> /\ Top(s).type = "call"
        BY <1>1 DEF TopIs
    <2>2. Top(s).line # 0
        BY <2>1, TopComesBack
    <2> QED BY <1>1, <2>1, <2>2, TopJumps DEF ReturnFromSub
<1>2. CASE ~TopIs(s, {"call"})
    BY <1>2, Errs DEF ReturnFromSub
<1> QED BY <1>1, <1>2

LEMMA Includes ==
    ASSUME text \in Macros, NEW s, Sound(s), NEW file \in DOMAIN text
    PROVE  Sound(BuffInclude(s, file))
<1> DEFINE t == [s EXCEPT !.files = Append(@, file), !.ptr = Append(@, 1)]
<1>1. s \in States /\ Placed(s)
    BY DEF Sound
<1>2. CASE INest(s) >= MaxNest
    BY <1>2, Errs DEF BuffInclude
<1>3. CASE ~(INest(s) >= MaxNest)
    <2>1. BuffInclude(s, file) \in {t, Err(t)}
        BY <1>3 DEF BuffInclude
    <2>2. /\ t.files = Append(s.files, file) /\ t.ptr = Append(s.ptr, 1) /\ t.stack = s.stack
          /\ SameReasons(s, t)
        BY <1>1 DEF States, SameReasons
    <2>3. /\ t.files \in Seq(DOMAIN text) /\ Len(t.files) = Len(s.files) + 1
          /\ \A i \in 1..Len(s.files) : t.files[i] = s.files[i]
          /\ t.files[Len(s.files) + 1] = file
        <3> HIDE DEF t
        <3> QED BY <1>1, <2>2, Appended, Sizes
    <2>4. /\ t.ptr \in Seq(Nat) /\ Len(t.ptr) = Len(s.ptr) + 1
          /\ \A i \in 1..Len(s.ptr) : t.ptr[i] = s.ptr[i]
          /\ t.ptr[Len(s.ptr) + 1] = 1
        <3> HIDE DEF t
        <3>1. 1 \in Nat
            OBVIOUS
        <3> QED BY <1>1, <2>2, <3>1, Appended, Sizes
    <2>5. t \in States
        BY <1>1, <2>2, <2>3, <2>4 DEF States
    <2> HIDE DEF t
    <2>6. /\ INest(t) = INest(s) + 1 /\ INest(s) \in Nat /\ INest(t) \in 1..MaxNest
          /\ Len(t.ptr) = INest(t)
        <3>1. /\ INest(s) = Len(s.files) /\ INest(s) \in Nat /\ INest(s) >= 1
              /\ Len(s.ptr) = INest(s) /\ MaxNest \in Nat
            BY <1>1, Sizes
        <3>2. INest(t) = INest(s) + 1 /\ Len(t.ptr) = INest(s) + 1
            BY <2>3, <2>4, <3>1 DEF INest
        <3> QED BY <1>3, <3>1, <3>2
    <2>7. Opened(t)
        <3>1. ASSUME NEW l \in 1..INest(t) PROVE t.ptr[l] \in Places(t.files[l])
            <4>1. CASE l \in 1..INest(s)
                BY <1>1, <2>3, <2>4, <4>1, Sizes DEF Placed, Opened
            <4>2. CASE l = INest(s) + 1
                <5>1. Len(text[file]) \in Nat
                    BY FileLengths
                <5>2. t.ptr[l] = 1 /\ t.files[l] = file
                    BY <1>1, <2>3, <2>4, <4>2, Sizes
                <5> QED BY <5>1, <5>2 DEF Places
            <4> QED BY <2>6, <4>1, <4>2
        <3> QED BY <2>6, <3>1 DEF Opened
    <2>8. Owned(t)
        <3>1. ASSUME NEW k \in 1..Len(s.stack) PROVE ComesBack(t, s.stack[k])
            <4>1. ComesBack(s, s.stack[k])
                BY <1>1 DEF Placed, Owned
            <4> QED BY <1>1, <2>3, <2>6, <4>1, Sizes DEF ComesBack
        <3> QED BY <1>1, <2>2, <3>1 DEF Placed, Owned
    <2>9. InOrder(t)
        BY <1>1, <2>2 DEF Placed, InOrder
    <2>10. Sound(t)
        BY <2>2, <2>5, <2>7, <2>8, <2>9, ReasonsKept DEF Sound, Placed
    <2> QED BY <2>1, <2>10, Errs
<1> QED BY <1>2, <1>3

LEMMA Exits ==
    ASSUME NEW s, Sound(s)
    PROVE  Sound(TTLExit(s))
<1>1. s \in States /\ Placed(s)
    BY DEF Sound
<1>2. CASE INest(s) = 1
    <2> DEFINE t == [s EXCEPT !.end = TRUE]
    <2>1. /\ t \in States /\ t.files = s.files /\ t.ptr = s.ptr /\ t.stack = s.stack
          /\ SameReasons(s, t)
        BY <1>1 DEF States, SameReasons
    <2>2. TTLExit(s) = t
        BY <1>2 DEF TTLExit
    <2> QED BY <2>1, <2>2, Stays, ReasonsKept DEF Sound
<1>3. CASE INest(s) # 1
    <2>1. PICK l \in 1..INest(s) : l = INest(s) - 1
        BY <1>1, <1>3, Sizes
    <2> QED BY <1>3, <2>1, Closes DEF TTLExit
<1> QED BY <1>2, <1>3

-----------------------------------------------------------------------------
(* Loops and branches.                                                      *)

\* A loop comes back to its first line.
LEMMA LineStartIs ==
    ASSUME text \in Macros, NEW s, Sound(s), ReadsOn(s)
    PROVE  LineStart(s) \in Nat /\ LineStart(s) \in Places(s.files[INest(s)])
<1>1. Len(text[s.files[INest(s)]]) \in Nat
    BY InnermostAt, FileAt, FileLengths
<1> QED BY <1>1 DEF ReadsOn, Lines, Places

LEMMA LoopPushes ==
    ASSUME text \in Macros, NEW s, Sound(s), ReadsOn(s), NEW type \in EntryKinds
    PROVE  LET t == Push(s, type, LineStart(s))
           IN  Sound(t) /\ SameReasons(s, t)
<1>1. PICK p \in Nat : p = LineStart(s) /\ p \in Places(s.files[INest(s)])
    BY LineStartIs
<1>2. Sound(Push(s, type, p)) /\ SameReasons(s, Push(s, type, p))
    BY <1>1, Pushes
<1> QED BY <1>1, <1>2

\* The last round of a loop is noted in its entry.
LEMMA LastRound ==
    ASSUME NEW s, Sound(s)
    PROVE  Sound(LastForLoop(s))
<1>1. s \in States /\ Placed(s)
    BY DEF Sound
<1>2. CASE TopIs(s, {"for"})
    <2> DEFINE n == Len(s.stack)
               e == [s.stack[n] EXCEPT !.line = 0]
               t == [s EXCEPT !.stack[n].line = 0]
    <2>1. n \in 1..n /\ s.stack[n] \in Entries /\ s.stack[n].type = "for"
        BY <1>1, <1>2, Sizes DEF TopIs, Top, Last
    <2>2. e \in Entries /\ e.line = 0 /\ e.type = "for" /\ e.level = s.stack[n].level /\ e.owner = s.stack[n].owner
        BY <2>1 DEF Entries
    <2>3. /\ t.stack = [s.stack EXCEPT ![n] = e] /\ t.files = s.files /\ t.ptr = s.ptr
          /\ SameReasons(s, t)
        BY <1>1 DEF States, SameReasons
    <2>4. LastForLoop(s) = t
        BY <1>2 DEF LastForLoop
    <2> HIDE DEF e
    <2>5. /\ t.stack \in Seq(Entries) /\ Len(t.stack) = n
          /\ \A k \in 1..n : t.stack[k] = IF k = n THEN e ELSE s.stack[k]
        <3> HIDE DEF t
        <3>1. s.stack \in Seq(Entries)
            BY <1>1, Sizes
        <3> QED BY <2>1, <2>2, <2>3, <3>1, Touched
    <2>6. t \in States
        BY <1>1, <2>3, <2>5 DEF States
    <2> HIDE DEF t
    <2>7. \A k \in 1..n : t.stack[k].level = s.stack[k].level
        BY <2>2, <2>5
    <2>8. Owned(t)
        <3>1. ASSUME NEW k \in 1..n PROVE ComesBack(t, t.stack[k])
            <4>1. ComesBack(s, s.stack[k])
                BY <1>1 DEF Placed, Owned
            <4> QED BY <2>2, <2>3, <2>5, <4>1 DEF ComesBack, INest
        <3> QED BY <1>1, <2>5, <3>1 DEF Placed, Owned
    <2>9. InOrder(t)
        <3> SUFFICES ASSUME NEW i \in 1..n, NEW k \in 1..n, i <= k
                     PROVE  t.stack[i].level <= t.stack[k].level
            BY <2>5 DEF InOrder
        <3> QED BY <1>1, <2>7 DEF Placed, InOrder
    <2>10. Opened(t)
        BY <1>1, <2>3 DEF Placed, Opened, INest
    <2> QED BY <2>3, <2>4, <2>6, <2>8, <2>9, <2>10, ReasonsKept DEF Sound, Placed
<1>3. CASE ~TopIs(s, {"for"})
    BY <1>3 DEF LastForLoop
<1> QED BY <1>2, <1>3

\* A step that sets no more than counters and flags.
LEMMA Nexts ==
    ASSUME NEW s, Sound(s), NEW b \in BOOLEAN
    PROVE  Sound([s EXCEPT !.next = b])
<1> DEFINE t == [s EXCEPT !.next = b]
<1>1. s \in States
    BY DEF Sound
<1>2. /\ t \in States /\ t.files = s.files /\ t.ptr = s.ptr /\ t.stack = s.stack
      /\ SameReasons(s, t)
    BY <1>1 DEF States, SameReasons
<1> QED BY <1>2, Stays, ReasonsKept DEF Sound

LEMMA Fors ==
    ASSUME text \in Macros, NEW s, Sound(s), ReadsOn(s), NEW last \in BOOLEAN
    PROVE  Sound(TTLFor(s, last))
<1> DEFINE begun == IF s.next THEN [s EXCEPT !.next = FALSE] ELSE Push(s, "for", LineStart(s))
<1>1. Sound(begun)
    BY Nexts, LoopPushes DEF EntryKinds
<1>2. TTLFor(s, last) \in {begun, LastForLoop(begun)}
    BY DEF TTLFor
<1> HIDE DEF begun
<1> QED BY <1>1, <1>2, LastRound

LEMMA Backs ==
    ASSUME text \in Macros, NEW s, Sound(s)
    PROVE  Sound(NextLoop(s))
<1>1. CASE ~TopIs(s, {"for"})
    BY <1>1, Errs DEF NextLoop
<1>2. CASE TopIs(s, {"for"}) /\ Top(s).line = 0
    <2>1. Sound(Pop(s))
        BY <1>2, Pops DEF TopIs
    <2> QED BY <1>2, <2>1, Nexts DEF NextLoop
<1>3. CASE TopIs(s, {"for"}) /\ Top(s).line # 0
    <2>1. Sound(Jump(s, Top(s).level, Top(s).line))
        BY <1>3, TopJumps DEF TopIs
    <2> QED BY <1>3, <2>1, Nexts DEF NextLoop
<1> QED BY <1>1, <1>2, <1>3

LEMMA Whiles ==
    ASSUME text \in Macros, NEW s, Sound(s), ReadsOn(s), Running(s), NEW holds \in BOOLEAN
    PROVE  Sound(TTLWhile(s, holds))
<1>1. CASE holds
    BY <1>1, LoopPushes DEF TTLWhile, EntryKinds
<1>2. CASE ~holds
    <2> DEFINE t == [s EXCEPT !.endWhile = 1]
    <2>1. s \in States /\ OneReason(s)
        BY DEF Sound
    <2>2. /\ t \in States /\ t.files = s.files /\ t.ptr = s.ptr /\ t.stack = s.stack
          /\ OneReason(t)
        BY <2>1 DEF States, OneReason, Running
    <2> QED BY <1>2, <2>2, Stays DEF TTLWhile
<1> QED BY <1>1, <1>2

LEMMA BacksToWhile ==
    ASSUME text \in Macros, NEW s, Sound(s), NEW again \in BOOLEAN
    PROVE  Sound(BackToWhile(s, again))
<1>1. CASE ~TopIs(s, {"while"})
    BY <1>1, Errs DEF BackToWhile
<1>2. CASE TopIs(s, {"while"})
    <2>1. s.stack # <<>> /\ Top(s).type # "for"
        BY <1>2 DEF TopIs
    <2>2. Top(s).line # 0
        BY <2>1, TopComesBack
    <2> QED BY <1>2, <2>1, <2>2, TopJumps, TopCloses DEF BackToWhile
<1> QED BY <1>1, <1>2

LEMMA Breaks ==
    ASSUME text \in Macros, NEW s, Sound(s), Running(s), NEW word
    PROVE  Sound(BreakLoop(s, word))
<1>1. CASE ~TopIs(s, {"for", "while"})
    BY <1>1, Errs DEF BreakLoop
<1>2. CASE TopIs(s, {"for", "while"}) /\ word = "continue"
    <2> DEFINE t == [s EXCEPT !.cont = TRUE, !.brk = 1]
    <2>1. s \in States /\ OneReason(s)
        BY DEF Sound
    <2>2. /\ t \in States /\ t.files = s.files /\ t.ptr = s.ptr /\ t.stack = s.stack
          /\ OneReason(t)
        <3>1. /\ t \in States /\ t.files = s.files /\ t.ptr = s.ptr /\ t.stack = s.stack
              /\ t.endWhile = s.endWhile /\ t.endIf = s.endIf /\ t.else = s.else
              /\ t.ifNest = s.ifNest /\ t.brk = 1
            BY <2>1 DEF States
        <3> HIDE DEF t
        <3> QED BY <2>1, <3>1 DEF OneReason, Running
    <2>3. BreakLoop(s, word) = t
        BY <1>2 DEF BreakLoop
    <2> QED BY <2>2, <2>3, Stays
<1>3. CASE TopIs(s, {"for", "while"}) /\ word # "continue"
    <2> DEFINE c == CloseBuff(Pop(s), Top(s).level)
               t == [c EXCEPT !.brk = 1]
    <2>1. Sound(c) /\ SameReasons(s, c)
        BY <1>3, TopCloses DEF TopIs
    <2>2. BreakLoop(s, word) = t
        BY <1>3 DEF BreakLoop
    <2> HIDE DEF c
    <2>3. c \in States /\ OneReason(c) /\ Running(s)
        BY <2>1 DEF Sound
    <2>4. /\ t \in States /\ t.files = c.files /\ t.ptr = c.ptr /\ t.stack = c.stack
          /\ OneReason(t)
        BY <2>1, <2>3 DEF States, OneReason, Running, SameReasons
    <2> QED BY <2>1, <2>2, <2>4, Stays
<1> QED BY <1>1, <1>2, <1>3

LEMMA Ifs ==
    ASSUME NEW s, Sound(s), Running(s), NEW holds \in BOOLEAN
    PROVE  Sound(TTLIf(s, holds)) /\ Sound(TTLElse(s)) /\ Sound(TTLEndIf(s))
<1>1. s \in States /\ OneReason(s)
    BY DEF Sound
<1>2. s.ifNest \in Nat /\ s.ifNest + 1 \in Nat /\ (~(s.ifNest < 1) => s.ifNest - 1 \in Nat)
    BY <1>1 DEF States
<1>3. Sound(TTLIf(s, holds))
    <2> DEFINE e == IF holds THEN s.else ELSE 1
               n == s.ifNest + 1
               t == [s EXCEPT !.ifNest = n, !.else = e]
    <2>1. TTLIf(s, holds) = t
        BY DEF TTLIf
    <2>2. e \in 0..1 /\ n \in Nat /\ e <= n
        BY <1>1, <1>2 DEF States
    <2> HIDE DEF e, n
    <2>3. /\ t \in States /\ t.files = s.files /\ t.ptr = s.ptr /\ t.stack = s.stack
          /\ t.endWhile = s.endWhile /\ t.endIf = s.endIf /\ t.brk = s.brk /\ t.cont = s.cont
          /\ t.ifNest = n /\ t.else = e
        BY <1>1, <2>2 DEF States
    <2> HIDE DEF t
    <2>4. OneReason(t)
        BY <1>1, <2>2, <2>3 DEF OneReason, Running
    <2> QED BY <2>1, <2>3, <2>4, Stays
<1>4. CASE s.ifNest < 1
    BY <1>3, <1>4, Errs DEF TTLElse, TTLEndIf
<1>5. CASE ~(s.ifNest < 1)
    <2> DEFINE n == s.ifNest - 1
               t == [s EXCEPT !.ifNest = n, !.endIf = 1]
               u == [s EXCEPT !.ifNest = n]
    <2>1. TTLElse(s) = t /\ TTLEndIf(s) = u
        BY <1>5 DEF TTLElse, TTLEndIf
    <2>2. n \in Nat
        BY <1>2, <1>5
    <2> HIDE DEF n
    <2>3. /\ t \in States /\ t.files = s.files /\ t.ptr = s.ptr /\ t.stack = s.stack
          /\ t.endWhile = s.endWhile /\ t.brk = s.brk /\ t.cont = s.cont
          /\ t.ifNest = n /\ t.else = s.else
        BY <1>1, <2>2 DEF States
    <2>4. /\ u \in States /\ u.files = s.files /\ u.ptr = s.ptr /\ u.stack = s.stack
          /\ u.endWhile = s.endWhile /\ u.endIf = s.endIf /\ u.brk = s.brk /\ u.cont = s.cont
          /\ u.ifNest = n /\ u.else = s.else
        BY <1>1, <2>2 DEF States
    <2> HIDE DEF t, u
    <2>5. OneReason(t)
        BY <1>1, <2>2, <2>3 DEF OneReason, Running
    <2>6. OneReason(u)
        BY <1>1, <2>2, <2>4 DEF OneReason, Running
    <2> QED BY <1>3, <2>1, <2>3, <2>4, <2>5, <2>6, Stays
<1> QED BY <1>4, <1>5

-----------------------------------------------------------------------------
(* A line.                                                                  *)

LEMMA Ended ==
    ASSUME NEW s, Sound(s), NEW b \in BOOLEAN
    PROVE  Sound([s EXCEPT !.end = b]) /\ Sound([s EXCEPT !.err = b])
<1> DEFINE t == [s EXCEPT !.end = b]
           u == [s EXCEPT !.err = b]
<1>1. s \in States
    BY DEF Sound
<1>2. /\ t \in States /\ t.files = s.files /\ t.ptr = s.ptr /\ t.stack = s.stack
      /\ SameReasons(s, t)
    BY <1>1 DEF States, SameReasons
<1>3. /\ u \in States /\ u.files = s.files /\ u.ptr = s.ptr /\ u.stack = s.stack
      /\ SameReasons(s, u)
    BY <1>1 DEF States, SameReasons
<1> HIDE DEF t, u
<1>4. Sound(t) /\ Sound(u)
    BY <1>2, <1>3, Stays, ReasonsKept DEF Sound
<1> QED BY <1>4 DEF t, u

\* Every command leaves the files and the stack sound.
LEMMA EveryCommand ==
    ASSUME text \in Macros, NEW s, Sound(s), ReadsOn(s), Running(s), NEW words,
           Head(words) = "include" => words[2] \in DOMAIN text, NEW holds \in BOOLEAN
    PROVE  Sound(Command(s, words, holds))
<1> PICK done : done = Command(s, words, holds)
    OBVIOUS
<1> PICK op : op = Head(words)
    OBVIOUS
<1> SUFFICES Sound(done)
    OBVIOUS
<1>1. CASE op = "include"
    BY <1>1, Includes DEF Command
<1>2. CASE op \in {"if", "else", "elseif", "endif"}
    <2>1. done \in {TTLIf(s, holds), TTLElse(s), TTLEndIf(s)}
        BY <1>2 DEF Command
    <2> QED BY <2>1, Ifs
<1>3. CASE op \in {"for", "next"}
    <2>1. done \in {TTLFor(s, holds), NextLoop(s)}
        BY <1>3 DEF Command
    <2> QED BY <2>1, Fors, Backs
<1>4. CASE op \in {"while", "do"}
    <2>1. done \in {TTLWhile(s, holds), TTLWhile(s, TRUE)}
        BY <1>4 DEF Command
    <2> QED BY <2>1, Whiles
<1>5. CASE op \in {"endwhile", "loop"}
    <2>1. done \in {BackToWhile(s, TRUE), BackToWhile(s, holds)}
        BY <1>5 DEF Command
    <2> QED BY <2>1, BacksToWhile
<1>6. CASE op \in {"break", "continue"}
    BY <1>6, Breaks DEF Command
<1>7. CASE op \in {"goto", "call"}
    <2>1. done \in {JumpToLabel(s, words[2]), CallToLabel(s, words[2])}
        BY <1>7 DEF Command
    <2> QED BY <2>1, JumpsToLabel, CallsLabel
<1>8. CASE op \in {"return", "exit"}
    <2>1. done \in {ReturnFromSub(s), TTLExit(s)}
        BY <1>8 DEF Command
    <2> QED BY <2>1, Returns, Exits
<1>9. CASE op = "end"
    BY <1>9, Ended DEF Command
<1>10. CASE op \notin {"include", "if", "else", "elseif", "endif", "for", "next", "while", "do",
                       "endwhile", "loop", "break", "continue", "goto", "call", "return", "exit", "end"}
    BY <1>10 DEF Command
<1> QED BY <1>1, <1>2, <1>3, <1>4, <1>5, <1>6, <1>7, <1>8, <1>9, <1>10

\* What a skipped line may change.
LEMMA Skipped ==
    ASSUME NEW s, Sound(s), NEW t \in States, t.files = s.files, t.ptr = s.ptr, t.stack = s.stack,
           t.else <= t.ifNest,
           \/ s.endWhile > 0 /\ t.brk = 0 /\ t.endIf = 0 /\ t.else = 0 /\ t.cont = s.cont
           \/ s.endWhile = 0 /\ t.endWhile = 0 /\ s.brk > 0 /\ t.brk > 0 /\ t.endIf = 0 /\ t.else = 0
           \/ s.endWhile = 0 /\ t.endWhile = 0 /\ t.brk = 0 /\ t.cont = FALSE
    PROVE  Sound(t)
<1>1. s \in States /\ OneReason(s)
    BY DEF Sound
<1>2. OneReason(t)
    BY <1>1 DEF OneReason, States
<1> QED BY <1>2, Stays

LEMMA SkipsWhile ==
    ASSUME NEW s, Sound(s), s.endWhile > 0, NEW op
    PROVE  Sound(SkipWhile(s, op))
<1>1. s \in States /\ OneReason(s)
    BY DEF Sound
<1>2. s.endWhile \in Nat
    BY <1>1 DEF States
<1>3. PICK n \in Nat : SkipWhile(s, op) = [s EXCEPT !.endWhile = n]
    <2>1. s.endWhile + 1 \in Nat /\ s.endWhile - 1 \in Nat
        BY <1>2
    <2>2. \/ SkipWhile(s, op) = [s EXCEPT !.endWhile = s.endWhile + 1]
          \/ SkipWhile(s, op) = [s EXCEPT !.endWhile = s.endWhile - 1]
          \/ SkipWhile(s, op) = [s EXCEPT !.endWhile = s.endWhile]
        BY DEF SkipWhile
    <2> QED BY <1>2, <2>1, <2>2
<1> DEFINE t == [s EXCEPT !.endWhile = n]
<1>4. /\ t \in States /\ t.files = s.files /\ t.ptr = s.ptr /\ t.stack = s.stack
      /\ t.ifNest = s.ifNest /\ t.brk = s.brk /\ t.endIf = s.endIf /\ t.else = s.else /\ t.cont = s.cont
    BY <1>1 DEF States
<1> HIDE DEF t
<1>5. t.brk = 0 /\ t.endIf = 0 /\ t.else = 0 /\ t.else <= t.ifNest /\ t.cont = s.cont
    BY <1>1, <1>4 DEF OneReason
<1>6. Sound(t)
    BY <1>4, <1>5, Skipped
<1> QED BY <1>3, <1>6 DEF t

\* What a line that is skipped on the way out of a loop leaves.
LEMMA Leaving ==
    ASSUME NEW s, Sound(s), s.brk > 0, NEW op
    PROVE  LET t == SkipBreak(s, op)
           IN  /\ t \in States /\ t.files = s.files /\ t.ptr = s.ptr /\ t.stack = s.stack
               /\ t.endWhile = 0 /\ t.endIf = 0 /\ t.else = 0 /\ t.cont = s.cont
<1> DEFINE t == SkipBreak(s, op)
<1>1. s \in States /\ OneReason(s)
    BY DEF Sound
<1>2. /\ s.brk \in Nat /\ s.ifNest \in Nat /\ s.endWhile \in Nat
      /\ s.brk + 1 \in Nat /\ s.brk - 1 \in Nat /\ s.ifNest + 1 \in Nat
      /\ ~(s.ifNest < 1) => s.ifNest - 1 \in Nat
    <2>1. s.brk \in Nat /\ s.ifNest \in Nat /\ s.endWhile \in Nat
        BY <1>1 DEF States
    <2> QED BY <2>1
<1>3. s.endWhile = 0 /\ s.endIf = 0 /\ s.else = 0
    BY <1>1, <1>2 DEF OneReason
<1>4. \/ \E n \in Nat : t = [s EXCEPT !.ifNest = n] \/ t = [s EXCEPT !.brk = n]
      \/ t \in {Err(s), s}
    <2>1. CASE op = "if"
        BY <1>2, <2>1 DEF SkipBreak
    <2>2. CASE op = "endif"
        BY <1>2, <2>2 DEF SkipBreak, TTLEndIf
    <2>3. CASE op \in LoopsOpen \cup {"for"}
        BY <1>2, <2>3 DEF SkipBreak, LoopsOpen
    <2>4. CASE op \in LoopsClose \cup {"next"}
        BY <1>2, <2>4 DEF SkipBreak, LoopsOpen, LoopsClose
    <2>5. CASE op \notin {"if", "endif", "for", "next"} \cup LoopsOpen \cup LoopsClose
        BY <2>5 DEF SkipBreak
    <2> QED BY <2>1, <2>2, <2>3, <2>4, <2>5
<1> HIDE DEF t
<1>5. CASE \E n \in Nat : t = [s EXCEPT !.ifNest = n] \/ t = [s EXCEPT !.brk = n]
    <2>1. PICK n \in Nat : t = [s EXCEPT !.ifNest = n] \/ t = [s EXCEPT !.brk = n]
        BY <1>5
    <2>2. CASE t = [s EXCEPT !.ifNest = n]
        BY <1>1, <1>3, <2>2 DEF States, t
    <2>3. CASE t = [s EXCEPT !.brk = n]
        BY <1>1, <1>3, <2>3 DEF States, t
    <2> QED BY <2>1, <2>2, <2>3
<1>6. CASE t \in {Err(s), s}
    BY <1>1, <1>3, <1>6 DEF Err, States, t
<1> QED BY <1>4, <1>5, <1>6

LEMMA SkipsEndIf ==
    ASSUME NEW s, Sound(s), s.endWhile = 0, s.brk = 0, s.endIf > 0, NEW op
    PROVE  Sound(SkipEndIf(s, op))
<1>1. s \in States /\ OneReason(s)
    BY DEF Sound
<1>2. s.endIf \in Nat /\ s.endIf + 1 \in Nat /\ s.endIf - 1 \in Nat /\ s.cont \in BOOLEAN
    BY <1>1 DEF States
<1>3. s.cont = FALSE /\ s.else <= s.ifNest
    BY <1>1, <1>2 DEF OneReason
<1>4. PICK n \in Nat : SkipEndIf(s, op) = [s EXCEPT !.endIf = n]
    <2>1. \/ SkipEndIf(s, op) = [s EXCEPT !.endIf = s.endIf + 1]
          \/ SkipEndIf(s, op) = [s EXCEPT !.endIf = s.endIf - 1]
          \/ SkipEndIf(s, op) = [s EXCEPT !.endIf = s.endIf]
        BY DEF SkipEndIf
    <2> QED BY <1>2, <2>1
<1> DEFINE t == [s EXCEPT !.endIf = n]
<1>5. /\ t \in States /\ t.files = s.files /\ t.ptr = s.ptr /\ t.stack = s.stack
      /\ t.ifNest = s.ifNest /\ t.brk = s.brk /\ t.endWhile = s.endWhile /\ t.else = s.else /\ t.cont = s.cont
    BY <1>1 DEF States
<1> HIDE DEF t
<1>6. t.else <= t.ifNest /\ t.endWhile = 0 /\ t.brk = 0 /\ t.cont = FALSE
    BY <1>3, <1>5
<1>7. Sound(t)
    BY <1>5, <1>6, Skipped
<1> QED BY <1>4, <1>7 DEF t

\* A branch that is found, or passed, is one of an open "if".
LEMMA SkipsElse ==
    ASSUME NEW s, Sound(s), s.endWhile = 0, s.brk = 0, s.endIf = 0, s.else > 0, NEW op,
           NEW holds \in BOOLEAN
    PROVE  Sound(SkipElse(s, op, holds))
<1> DEFINE t == SkipElse(s, op, holds)
<1>1. s \in States /\ OneReason(s)
    BY DEF Sound
<1>2. s.else = 1 /\ s.ifNest \in Nat /\ s.ifNest >= 1 /\ s.ifNest - 1 \in Nat /\ s.cont = FALSE
    BY <1>1 DEF States, OneReason
<1>3. \/ t = [s EXCEPT !.endIf = 1] \/ t = [s EXCEPT !.else = 0]
      \/ t = [s EXCEPT !.else = 0, !.ifNest = s.ifNest - 1] \/ t = s
    <2>1. CASE op = "if"
        BY <2>1 DEF SkipElse
    <2>2. CASE op = "else" \/ (op = "elseif" /\ holds)
        BY <1>2, <2>2 DEF SkipElse
    <2>3. CASE op = "endif"
        BY <1>2, <2>3 DEF SkipElse
    <2>4. CASE ~(op = "if" \/ op = "else" \/ (op = "elseif" /\ holds) \/ op = "endif")
        BY <2>4 DEF SkipElse
    <2> QED BY <2>1, <2>2, <2>3, <2>4
<1> HIDE DEF t
<1>4. CASE t = [s EXCEPT !.endIf = 1]
    <2>1. /\ t \in States /\ t.files = s.files /\ t.ptr = s.ptr /\ t.stack = s.stack
          /\ t.else = s.else /\ t.ifNest = s.ifNest /\ t.endWhile = s.endWhile
          /\ t.brk = s.brk /\ t.cont = s.cont
        BY <1>1, <1>4 DEF States
    <2>2. t.else <= t.ifNest /\ t.endWhile = 0 /\ t.brk = 0 /\ t.cont = FALSE
        BY <1>2, <2>1
    <2> QED BY <2>1, <2>2, Skipped DEF t
<1>5. CASE t = [s EXCEPT !.else = 0]
    <2> PICK z \in 0..1 : z = 0
        OBVIOUS
    <2>0. t = [s EXCEPT !.else = z]
        BY <1>5
    <2>1. /\ t \in States /\ t.files = s.files /\ t.ptr = s.ptr /\ t.stack = s.stack
          /\ t.else = z /\ t.ifNest = s.ifNest /\ t.endWhile = s.endWhile
          /\ t.brk = s.brk /\ t.cont = s.cont
        BY <1>1, <2>0 DEF States
    <2>2. t.else <= t.ifNest /\ t.endWhile = 0 /\ t.brk = 0 /\ t.cont = FALSE
        BY <1>2, <2>1
    <2> QED BY <2>1, <2>2, Skipped DEF t
<1>6. CASE t = [s EXCEPT !.else = 0, !.ifNest = s.ifNest - 1]
    <2> PICK n \in Nat : n = s.ifNest - 1
        BY <1>2
    <2> PICK z \in 0..1 : z = 0
        OBVIOUS
    <2>1. t = [s EXCEPT !.else = z, !.ifNest = n]
        BY <1>6
    <2>2. /\ t \in States /\ t.files = s.files /\ t.ptr = s.ptr /\ t.stack = s.stack
          /\ t.else = z /\ t.ifNest = n /\ t.endWhile = s.endWhile /\ t.brk = s.brk /\ t.cont = s.cont
        BY <1>1, <2>1 DEF States
    <2>3. t.else <= t.ifNest /\ t.endWhile = 0 /\ t.brk = 0 /\ t.cont = FALSE
        BY <1>2, <2>2
    <2> QED BY <2>2, <2>3, Skipped DEF t
<1>7. CASE t = s
    BY <1>7 DEF t
<1> QED BY <1>3, <1>4, <1>5, <1>6, <1>7

\* What a line includes is a file of the macro.
LEMMA IncludesFile ==
    ASSUME text \in Macros, NEW s, Sound(s), ReadsOn(s)
    PROVE  Head(Body(Words(s))) = "include" => Body(Words(s))[2] \in DOMAIN text
<1>1. s.files[INest(s)] \in DOMAIN text
    BY InnermostAt, FileAt
<1> QED BY <1>1, MacroAssumption DEF ReadsOn, Words, Lines

\* A line leaves the control sound, whether it is skipped or carried out.
LEMMA LineKeepsSound ==
    ASSUME text \in Macros, NEW s, Sound(s), ReadsOn(s), NEW holds \in BOOLEAN, NEW taken \in BOOLEAN
    PROVE  Sound(ExecCmnd(s, Words(s), holds, taken))
<1> DEFINE words == Words(s)
           op == Head(words)
           broken == SkipBreak(s, op)
           on == IF s.brk > 0 THEN [broken EXCEPT !.cont = FALSE] ELSE s
<1>1. s \in States /\ OneReason(s) /\ s.brk \in Nat /\ s.endWhile \in Nat /\ s.cont \in BOOLEAN
    BY DEF Sound, States
<1>2. CASE s.endWhile > 0
    BY <1>2, SkipsWhile DEF ExecCmnd
<1>3. CASE ~(s.endWhile > 0) /\ s.brk > 0 /\ (broken.brk > 0 \/ ~broken.cont)
    <2>1. /\ broken \in States /\ broken.files = s.files /\ broken.ptr = s.ptr
          /\ broken.stack = s.stack
          /\ broken.endWhile = 0 /\ broken.endIf = 0 /\ broken.else = 0 /\ broken.cont = s.cont
        BY <1>3, Leaving
    <2>2. ExecCmnd(s, words, holds, taken) = broken
        BY <1>3 DEF ExecCmnd
    <2> HIDE DEF broken
    <2>3. OneReason(broken)
        BY <1>3, <2>1 DEF OneReason, States
    <2> QED BY <2>1, <2>2, <2>3, Stays
<1>4. CASE ~(s.endWhile > 0) /\ ~(s.brk > 0 /\ (broken.brk > 0 \/ ~broken.cont))
    <2>1. /\ Sound(on) /\ on.files = s.files /\ on.ptr = s.ptr /\ on.endWhile = 0 /\ on.brk = 0
        <3>1. CASE s.brk > 0
            <4>1. /\ broken \in States /\ broken.files = s.files /\ broken.ptr = s.ptr
                  /\ broken.stack = s.stack /\ broken.endWhile = 0 /\ broken.endIf = 0
                  /\ broken.else = 0 /\ broken.brk = 0
                BY <1>4, <3>1, Leaving DEF States
            <4> HIDE DEF broken
            <4>2. /\ on \in States /\ on.files = s.files /\ on.ptr = s.ptr /\ on.stack = s.stack
                  /\ on.endWhile = 0 /\ on.endIf = 0 /\ on.else = 0 /\ on.brk = 0
                  /\ on.cont = FALSE /\ on.ifNest \in Nat
                BY <3>1, <4>1 DEF States
            <4> HIDE DEF on
            <4>3. OneReason(on)
                BY <4>2 DEF OneReason
            <4>4. Sound(on)
                BY <4>2, <4>3, Stays
            <4> QED BY <4>2, <4>4
        <3>2. CASE ~(s.brk > 0)
            BY <1>1, <1>4, <3>2
        <3> QED BY <3>1, <3>2
    <2>2. \/ on.endIf > 0 /\ ExecCmnd(s, words, holds, taken) = SkipEndIf(on, op)
          \/ /\ ~(on.endIf > 0) /\ on.else > 0
             /\ ExecCmnd(s, words, holds, taken) = SkipElse(on, op, holds)
          \/ /\ ~(on.endIf > 0) /\ ~(on.else > 0)
             /\ ExecCmnd(s, words, holds, taken) = TTLIfThen(on, words, holds, taken)
        BY <1>4 DEF ExecCmnd
    <2> HIDE DEF on
    <2>3. on.endIf \in Nat /\ on.else \in Nat
        BY <2>1 DEF Sound, States
    <2>4. CASE on.endIf > 0
        BY <2>1, <2>2, <2>4, SkipsEndIf
    <2>5. CASE ~(on.endIf > 0) /\ on.else > 0
        BY <2>1, <2>2, <2>3, <2>5, SkipsElse
    <2>6. CASE ~(on.endIf > 0) /\ ~(on.else > 0)
        <3>1. Running(on)
            BY <2>1, <2>3, <2>6 DEF Running
        <3>2. ReadsOn(on)
            BY <2>1 DEF ReadsOn, LineStart, Lines, INest
        <3>3. Head(Body(words)) = "include" => Body(words)[2] \in DOMAIN text
            BY IncludesFile
        <3> HIDE DEF words
        <3>4. Sound(Command(on, Body(words), holds))
            BY <2>1, <3>1, <3>2, <3>3, EveryCommand
        <3> QED BY <2>1, <2>2, <2>6, <3>4 DEF TTLIfThen, words
    <2> QED BY <2>4, <2>5, <2>6
<1> QED BY <1>2, <1>3, <1>4

-----------------------------------------------------------------------------
(* The theorems.                                                            *)

LEMMA InitSound == ControlInit => ControlInv
<1> SUFFICES ASSUME ControlInit PROVE ControlInv
    OBVIOUS
<1>1. text \in Macros /\ ctl = InitBuff /\ "main" \in DOMAIN text
    BY MacroAssumption DEF ControlInit
<1>2. Len(text["main"]) \in Nat
    BY <1>1, FileLengths
<1>3. ctl \in States
    BY <1>1 DEF InitBuff, States
<1>4. ctl.files = <<"main">> /\ ctl.ptr = <<1>> /\ ctl.stack = <<>> /\ OneReason(ctl)
    BY <1>1 DEF InitBuff, OneReason
<1>5. Opened(ctl)
    BY <1>2, <1>4, MacroAssumption DEF Opened, INest, Places
<1>6. Owned(ctl) /\ InOrder(ctl)
    BY <1>4, MacroAssumption DEF Owned, InOrder
<1> QED BY <1>1, <1>3, <1>4, <1>5, <1>6 DEF ControlInv, Sound, Placed

LEMMA StepSound == ControlInv /\ [ControlNext]_controlVars => ControlInv'
<1> SUFFICES ASSUME ControlInv, [ControlNext]_controlVars PROVE ControlInv'
    OBVIOUS
<1>1. CASE ControlNext
    <2> DEFINE s == GetNewLine([ctl EXCEPT !.err = FALSE])
               op == Head(Words(s))
    <2>1. text' = text /\ text \in Macros
        BY <1>1 DEF ControlNext, ExecControl, ControlInv
    <2>2. Sound(s) /\ (s.end \/ ReadsOn(s))
        <3>1. Sound([ctl EXCEPT !.err = FALSE])
            BY Ended DEF ControlInv
        <3> QED BY <2>1, <3>1, LineRead
    <2>3. \/ ctl' = s
          \/ /\ ~s.end
             /\ \E taken \in BOOLEAN, holds \in BOOLEAN, stop \in BOOLEAN :
                  LET done == ExecCmnd(s, Words(s), holds, taken)
                  IN  ctl' = [done EXCEPT !.end = @ \/ stop]
        <3>1. CASE s.end
            BY <1>1, <3>1 DEF ControlNext, ExecControl
        <3>2. CASE ~s.end
            <4>1. PICK taken \in Says(op = "when"), holds \in Says(Asks(Body(Words(s)))) :
                     \E done \in {ExecCmnd(s, Words(s), holds, taken)} :
                     \E stop \in {FALSE, done.err} : ctl' = [done EXCEPT !.end = @ \/ stop]
                BY <1>1, <3>2 DEF ControlNext, ExecControl
            <4>2. taken \in BOOLEAN /\ holds \in BOOLEAN
                BY DEF Says
            <4> QED BY <3>2, <4>1, <4>2
        <3> QED BY <3>1, <3>2
    <2> HIDE DEF s, op
    <2>4. Sound(ctl')
        <3>1. CASE ctl' = s
            BY <2>2, <3>1
        <3>2. CASE ~s.end /\ ~(ctl' = s)
            <4>1. PICK taken \in BOOLEAN, holds \in BOOLEAN, stop \in BOOLEAN :
                     LET done == ExecCmnd(s, Words(s), holds, taken)
                     IN  ctl' = [done EXCEPT !.end = @ \/ stop]
                BY <2>3, <3>2
            <4> DEFINE done == ExecCmnd(s, Words(s), holds, taken)
            <4>2. Sound(done)
                BY <2>1, <2>2, <3>2, LineKeepsSound
            <4> HIDE DEF done
            <4>3. PICK end \in BOOLEAN : ctl' = [done EXCEPT !.end = end]
                BY <4>1, <4>2 DEF done, Sound, States
            <4> QED BY <4>2, <4>3, Ended
        <3> QED BY <2>3, <3>1, <3>2
    <2> QED BY <2>1, <2>4 DEF ControlInv, Sound, States, Entries, Placed, Opened, Owned, InOrder,
                OneReason, ComesBack, Places, INest
<1>2. CASE UNCHANGED controlVars
    BY <1>2 DEF controlVars, ControlInv, Sound, States, Entries, Placed, Opened, Owned, InOrder,
                OneReason, ComesBack, Places, INest
<1> QED BY <1>1, <1>2

\* Whatever the lines and their order, the files, the control stack and the counters
\* fit together: every entry of the stack, innermost file last, comes back to a place
\* in its own file, and lines are skipped for one reason at a time (ttmbuff.c, ExecCmnd).
THEOREM ControlCorrect == ControlSpec => []ControlInv
<1>1. ControlInit => ControlInv
    BY InitSound
<1>2. ControlInv /\ [ControlNext]_controlVars => ControlInv'
    BY StepSound
<1> QED BY <1>1, <1>2, PTL DEF ControlSpec

\* A loop or a call on the control stack is one of a file that is still open.
THEOREM StackKept == ControlSpec => []StackOwned
<1>1. ControlInv => StackOwned
    <2> SUFFICES ASSUME ControlInv, NEW k \in 1..Len(ctl.stack)
                 PROVE  /\ ctl.stack[k].level <= INest(ctl)
                        /\ ctl.files[ctl.stack[k].level] = ctl.stack[k].owner
        BY DEF StackOwned
    <2>1. ctl \in States /\ Placed(ctl)
        BY DEF ControlInv, Sound
    <2>2. ComesBack(ctl, ctl.stack[k]) /\ INest(ctl) \in Nat
        BY <2>1, Sizes DEF Placed, Owned
    <2> QED BY <2>2 DEF ComesBack
<1> QED BY <1>1, ControlCorrect, PTL
=============================================================================
