--------------------------- MODULE ForwardsProofs ---------------------------
(***************************************************************************)
(* Proofs about the two parts of TTSSH's forwarding that MCForwards checks.  *)
(*                                                                         *)
(* The ring buffer of SockWriteBuf is the queue of WriteQueue, for every     *)
(* WriteBufferSize.  Each operation on the ring is a lemma about any ring    *)
(* that holds consecutive bytes; the steps of the specification follow by    *)
(* chaining the lemmas.  Relations between numbers are named (Spot, Wraps,   *)
(* Follow, Flush), so that a lemma about them is applied as a whole.         *)
(*                                                                         *)
(* The tables of SshChannelTable keep their links, for any number of slots,  *)
(* FWDChannels, requests and connections.  TableInv says what each table     *)
(* knows of the others; there is a lemma for every action.  With local       *)
(* forwards alone LocalInv says more: which slot goes with which FWDChannel. *)
(***************************************************************************)
EXTENDS SockWriteBuf, SshChannelTable, FiniteSetTheorems, WellFoundedInduction, TLAPS

\* The sequence s is the bytes from lo on.
Run(s, lo) == s \in Seq(Nat) /\ \A i \in 1..Len(s) : s[i] = lo + i - 1

\* Position of the i-th byte of the data, from 0.
Pos(b, start, i) == IF start + i < b THEN start + i ELSE start + i - b
At(r, i) == Pos(r.buflen, r.datastart, i)

\* The data of the ring r is the bytes from lo on.
Holds(r, lo) == RingOK(r) /\ lo \in Nat /\ \A i \in 0..(r.datalen - 1) : r.bufdata[At(r, i)] = lo + i

-----------------------------------------------------------------------------
(* Arithmetic of positions and sequences.                                  *)

LEMMA RunsJoin ==
    ASSUME NEW s, NEW t, NEW lo \in Nat, Run(s, lo), Run(t, lo + Len(s))
    PROVE  Run(s \o t, lo) /\ Len(s \o t) = Len(s) + Len(t)
BY DEF Run

LEMMA RunPart ==
    ASSUME NEW s, NEW lo \in Nat, Run(s, lo), NEW a \in 1..(Len(s) + 1), NEW b \in (a - 1)..Len(s)
    PROVE  Run(SubSeq(s, a, b), lo + a - 1) /\ Len(SubSeq(s, a, b)) = b - a + 1
BY DEF Run

LEMMA RunsEqual ==
    ASSUME NEW s, NEW t, NEW lo \in Nat, Run(s, lo), Run(t, lo), Len(s) = Len(t)
    PROVE  s = t
BY DEF Run
-----------------------------------------------------------------------------
(* Operations on a ring.                                                   *)

LEMMA Shape ==
    ASSUME NEW r, RingOK(r)
    PROVE  /\ r.buflen \in Nat /\ r.datastart \in Nat /\ r.datalen \in Nat
           /\ r.buflen <= WriteBufferSize /\ r.datalen <= r.buflen
           /\ r.buflen > 0 => r.datastart < r.buflen
           /\ r.buflen = 0 => r.datastart = 0
BY BufferAssumption DEF RingOK, RingOf, Max

LEMMA Memory ==
    ASSUME NEW r, RingOK(r)
    PROVE  /\ r \in RingOf([0..(r.buflen - 1) -> Byte])
           /\ r.bufdata \in [0..(r.buflen - 1) -> Byte]
BY DEF RingOK, RingOf

\* Reading a ring gives its first bytes.
LEMMA Reading ==
    ASSUME NEW r, NEW lo, Holds(r, lo), NEW k \in 0..r.datalen
    PROVE  Run(FirstBytes(r, k), lo) /\ Len(FirstBytes(r, k)) = k
<1>1. k \in Nat /\ r.datalen \in Nat /\ lo \in Nat /\ r.buflen \in Nat /\ r.datastart \in Nat
    BY Shape DEF Holds
<1>2. \A i \in 1..k : FirstBytes(r, k)[i] = r.bufdata[At(r, i - 1)]
    BY <1>1 DEF FirstBytes, At, Pos
<1>3. \A i \in 1..k : FirstBytes(r, k)[i] = lo + i - 1
    <2>1. \A i \in 1..k : i - 1 \in 0..(r.datalen - 1)
        BY <1>1
    <2>2. QED BY <1>1, <1>2, <2>1 DEF Holds
<1>4. FirstBytes(r, k) \in [1..k -> Nat]
    BY <1>1, <1>3 DEF FirstBytes
<1>5. FirstBytes(r, k) \in Seq(Nat) /\ Len(FirstBytes(r, k)) = k
    BY <1>1, <1>4
<1>6. QED BY <1>3, <1>5 DEF Run

LEMMA Moved ==
    ASSUME NEW b \in Nat, NEW st \in Nat, NEW len \in Nat, NEW k \in Nat, k <= len, len <= b,
           b > 0 => st < b, NEW s, s = IF k = len THEN 0 ELSE (st + k) % b
    PROVE  /\ s \in Nat /\ s <= Max(0, b - 1)
           /\ k < len => s = Pos(b, st, k)
<1>1. CASE k = len
    BY <1>1 DEF Max
<1>2. CASE k < len
    <2>1. b \in Nat \ {0} /\ st < b /\ k < b
        BY <1>2
    <2>2. (st + k) % b = IF st + k < b THEN st + k ELSE st + k - b
        BY <2>1
    <2>3. QED BY <1>2, <2>1, <2>2 DEF Max, Pos
<1>3. QED BY <1>1, <1>2

LEMMA Wrapped ==
    ASSUME NEW b \in Nat, NEW st \in Nat, NEW k \in Nat, NEW i \in Nat,
           st < b, k + i < b
    PROVE  Pos(b, Pos(b, st, k), i) = Pos(b, st, k + i)
BY DEF Pos

LEMMA RingIs ==
    ASSUME NEW r, NEW d, RingOK(r), d \in RingOf([0..(r.buflen - 1) -> Byte]),
           d.buflen = r.buflen, d.datalen \in Nat, d.datalen <= r.buflen, d.datastart <= Max(0, r.buflen - 1)
    PROVE  RingOK(d)
BY DEF RingOK

\* Removing bytes moves the start, modulo the length of the memory.
LEMMA Dropping ==
    ASSUME NEW r, NEW lo, Holds(r, lo), NEW k \in 0..r.datalen
    PROVE  /\ Holds(Drop(r, k), lo + k)
           /\ Drop(r, k).datalen = r.datalen - k /\ Drop(r, k).buflen = r.buflen
<1>1. RingOK(r) /\ lo \in Nat
    BY DEF Holds
<1>2. /\ r.buflen \in Nat /\ r.datastart \in Nat /\ r.datalen \in Nat
      /\ r.buflen <= WriteBufferSize /\ r.datalen <= r.buflen
      /\ r.buflen > 0 => r.datastart < r.buflen
    BY <1>1, Shape
<1>3. k \in Nat /\ k <= r.datalen /\ r.datalen - k \in Nat
    BY <1>2
<1>4. PICK s : s = IF k = r.datalen THEN 0 ELSE (r.datastart + k) % r.buflen
    OBVIOUS
<1>5. s \in Nat /\ s <= Max(0, r.buflen - 1)
      /\ (k < r.datalen => s = Pos(r.buflen, r.datastart, k))
    BY <1>2, <1>3, <1>4, Moved
<1>6. PICK x \in Nat : x = r.datalen - k
    BY <1>3
<1>7. r \in RingOf([0..(r.buflen - 1) -> Byte]) /\ r.bufdata \in [0..(r.buflen - 1) -> Byte]
    BY <1>1, Memory
<1>8. PICK d : d = Drop(r, k)
    OBVIOUS
<1>9. /\ d \in RingOf([0..(r.buflen - 1) -> Byte]) /\ d.datalen = x /\ d.datastart = s
      /\ d.bufdata = r.bufdata /\ d.buflen = r.buflen
    <2>1. d = [r EXCEPT !.datalen = x, !.datastart = s]
        BY <1>4, <1>6, <1>8 DEF Drop
    <2>2. PICK memory : memory = [0..(r.buflen - 1) -> Byte]
        OBVIOUS
    <2>3. r \in RingOf(memory)
        BY <1>7, <2>2
    <2>4. d \in RingOf(memory) /\ d.datalen = x /\ d.datastart = s
          /\ d.bufdata = r.bufdata /\ d.buflen = r.buflen
        BY <1>5, <2>1, <2>3 DEF RingOf
    <2>5. QED BY <2>2, <2>4
<1>11. RingOK(d)
    BY <1>1, <1>2, <1>3, <1>5, <1>6, <1>9, RingIs
<1>12. ASSUME NEW i \in 0..(d.datalen - 1) PROVE d.bufdata[At(d, i)] = lo + k + i
    <2>1. i \in Nat /\ k < r.datalen /\ k + i \in 0..(r.datalen - 1)
        BY <1>2, <1>3, <1>6, <1>9
    <2>2. At(d, i) = At(r, k + i)
        <3>1. r.datastart < r.buflen /\ k + i < r.buflen
            BY <1>2, <1>3, <2>1
        <3>2. Pos(r.buflen, Pos(r.buflen, r.datastart, k), i) = Pos(r.buflen, r.datastart, k + i)
            BY <1>2, <1>3, <2>1, <3>1, Wrapped
        <3>3. QED BY <1>5, <1>9, <2>1, <3>2 DEF At
    <2>3. r.bufdata[At(r, k + i)] = lo + (k + i)
        BY <2>1 DEF Holds
    <2>4. d.bufdata[At(d, i)] = r.bufdata[At(r, k + i)]
        BY <1>9, <2>2
    <2>5. lo + (k + i) = lo + k + i
        BY <1>1, <1>3, <2>1
    <2>6. QED BY <2>3, <2>4, <2>5
<1>13. QED BY <1>1, <1>3, <1>6, <1>8, <1>9, <1>11, <1>12 DEF Holds

\* The memory of length nb that Grown makes of the memory m of length b.
Larger(m, b, nb, wrap, copied) ==
    [p \in 0..(nb - 1) |-> IF p < wrap - copied THEN m[p + copied]
                          ELSE IF p < b THEN m[p]
                          ELSE IF p < b + copied THEN m[p - b]
                          ELSE Garbage]

\* Of len bytes from st on, wrap are at the front, and copied of them move.
Wraps(b, nb, st, len, wrap, copied) ==
    wrap = Max(0, st + len - b) /\ copied = Min(wrap, nb - b)

\* The bytes that were wrapped keep their order when the memory grows.
LEMMA Moves ==
    ASSUME NEW b \in Nat, NEW nb \in Nat, NEW st \in Nat, NEW len \in Nat, NEW m, NEW f,
           NEW wrap, NEW copied, Wraps(b, nb, st, len, wrap, copied),
           len <= b, b > 0 => st < b, b = 0 => st = 0, b < nb, m \in [0..(b - 1) -> Byte],
           f = Larger(m, b, nb, wrap, copied)
    PROVE  /\ f \in [0..(nb - 1) -> Byte]
           /\ \A i \in 0..(len - 1) : f[Pos(nb, st, i)] = m[Pos(b, st, i)]
<1>1. wrap \in Nat /\ copied \in Nat /\ wrap <= st /\ wrap <= len /\ copied <= wrap
      /\ wrap < b + 1 /\ (b > 0 => wrap < b) /\ copied <= nb - b
    BY DEF Max, Min, Wraps
<1>2. ASSUME NEW p \in 0..(nb - 1) PROVE f[p] \in Byte
    <2>1. CASE p < wrap - copied
        <3>1. p + copied \in 0..(b - 1)
            BY <1>1, <2>1
        <3>2. QED BY <2>1, <3>1 DEF Larger
    <2>2. CASE ~ (p < wrap - copied) /\ p < b
        BY <2>2 DEF Larger
    <2>3. CASE ~ (p < wrap - copied) /\ ~ (p < b) /\ p < b + copied
        <3>1. p - b \in 0..(b - 1)
            BY <1>1, <2>3
        <3>2. QED BY <2>3, <3>1 DEF Larger
    <2>4. CASE ~ (p < wrap - copied) /\ ~ (p < b) /\ ~ (p < b + copied)
        BY <2>4 DEF Byte, Larger
    <2>5. QED BY <2>1, <2>2, <2>3, <2>4
<1>3. ASSUME NEW i \in 0..(len - 1) PROVE f[Pos(nb, st, i)] = m[Pos(b, st, i)]
    <2>1. i \in Nat /\ i < len /\ b > 0 /\ st < b
        OBVIOUS
    <2>2. CASE st + i < b
        <3>1. Pos(b, st, i) = st + i /\ Pos(nb, st, i) = st + i
            BY <2>1, <2>2 DEF Pos
        <3>2. ~ (st + i < wrap - copied) /\ st + i \in 0..(nb - 1)
            BY <1>1, <2>1, <2>2
        <3>3. QED BY <2>2, <3>1, <3>2 DEF Larger
    <2>3. CASE ~ (st + i < b) /\ st + i < nb
        <3>1. Pos(b, st, i) = st + i - b /\ Pos(nb, st, i) = st + i
            BY <2>1, <2>3 DEF Pos
        <3>2. ~ (st + i < wrap - copied) /\ st + i \in 0..(nb - 1) /\ st + i < b + copied
            BY <1>1, <2>1, <2>3 DEF Max, Min, Wraps
        <3>3. QED BY <2>3, <3>1, <3>2 DEF Larger
    <2>4. CASE ~ (st + i < nb)
        <3>1. Pos(b, st, i) = st + i - b /\ Pos(nb, st, i) = st + i - nb
            BY <2>1, <2>4 DEF Pos
        <3>2. copied = nb - b /\ st + i - nb < wrap - copied /\ st + i - nb \in 0..(nb - 1)
              /\ st + i - nb + copied = st + i - b
            BY <1>1, <2>1, <2>4 DEF Max, Min, Wraps
        <3>3. QED BY <3>1, <3>2 DEF Larger
    <2>5. QED BY <2>2, <2>3, <2>4
<1>4. QED
    <2>1. f = [p \in 0..(nb - 1) |-> f[p]]
        BY DEF Larger
    <2>2. QED BY <1>2, <1>3, <2>1

\* Growing keeps the data, and makes the room there can be.
LEMMA Growing ==
    ASSUME NEW r, NEW lo, Holds(r, lo), NEW n \in Nat \ {0}, NEW g, g = Grown(r, n)
    PROVE  Holds(g, lo) /\ g.datalen = r.datalen /\ g.buflen >= Min(WriteBufferSize, r.datalen + n)
<1>1. RingOK(r) /\ lo \in Nat
    BY DEF Holds
<1>2. /\ r.buflen \in Nat /\ r.datastart \in Nat /\ r.datalen \in Nat
      /\ r.buflen <= WriteBufferSize /\ r.datalen <= r.buflen
      /\ r.buflen > 0 => r.datastart < r.buflen
      /\ r.buflen = 0 => r.datastart = 0
    BY <1>1, Shape
<1>3. PICK desired \in Nat : desired = Min(WriteBufferSize, r.datalen + n)
    BY <1>2, BufferAssumption DEF Min
<1>4. CASE r.buflen >= desired
    <2>1. g = r
        BY <1>3, <1>4 DEF Grown, Desired
    <2>2. QED BY <1>3, <1>4, <2>1
<1>5. CASE ~ (r.buflen >= desired)
    <2>1. PICK newlen : newlen = Min(WriteBufferSize, 2 * desired)
        OBVIOUS
    <2>2. newlen \in Nat /\ newlen >= desired /\ r.buflen < newlen /\ newlen <= WriteBufferSize
        BY <1>2, <1>3, <1>5, <2>1, BufferAssumption DEF Min
    <2>3. PICK wrap : wrap = Max(0, r.datastart + r.datalen - r.buflen)
        OBVIOUS
    <2>4. PICK copied : copied = Min(wrap, newlen - r.buflen)
        OBVIOUS
    <2>5. PICK f : f = Larger(r.bufdata, r.buflen, newlen, wrap, copied)
        OBVIOUS
    <2>6. g = [r EXCEPT !.buflen = newlen, !.bufdata = f]
        BY <1>3, <1>5, <2>1, <2>3, <2>4, <2>5 DEF Grown, Desired, Larger
    <2>7. r \in RingOf([0..(r.buflen - 1) -> Byte]) /\ r.bufdata \in [0..(r.buflen - 1) -> Byte]
        BY <1>1, Memory
    <2>8. /\ f \in [0..(newlen - 1) -> Byte]
          /\ \A i \in 0..(r.datalen - 1) :
                f[Pos(newlen, r.datastart, i)] = r.bufdata[Pos(r.buflen, r.datastart, i)]
        <3>1. PICK b \in Nat, st \in Nat, len \in Nat :
                 b = r.buflen /\ st = r.datastart /\ len = r.datalen
            BY <1>2
        <3>2. PICK m : m = r.bufdata
            OBVIOUS
        <3>3. Wraps(b, newlen, st, len, wrap, copied)
            BY <2>3, <2>4, <3>1 DEF Wraps
        <3>4. m \in [0..(b - 1) -> Byte] /\ f = Larger(m, b, newlen, wrap, copied)
            BY <2>5, <2>7, <3>1, <3>2
        <3>5. len <= b /\ (b > 0 => st < b) /\ (b = 0 => st = 0) /\ b < newlen
            BY <1>2, <2>2, <3>1
        <3>6. f \in [0..(newlen - 1) -> Byte]
            BY <2>2, <3>3, <3>4, <3>5, Moves
        <3>7. \A i \in 0..(len - 1) : f[Pos(newlen, st, i)] = m[Pos(b, st, i)]
            BY SMTT(40), <2>2, <3>3, <3>4, <3>5, Moves
        <3>8. QED BY <3>1, <3>2, <3>6, <3>7
    <2>9. PICK memory, other : memory = [0..(r.buflen - 1) -> Byte] /\ other = [0..(newlen - 1) -> Byte]
        OBVIOUS
    <2>10. r \in RingOf(memory) /\ f \in other
        BY <2>7, <2>8, <2>9
    <2>11. g \in RingOf(other) /\ g.buflen = newlen /\ g.bufdata = f /\ g.datalen = r.datalen
           /\ g.datastart = r.datastart
        BY <2>2, <2>6, <2>10 DEF RingOf
    <2>12. RingOK(g)
        <3>1. g \in RingOf([0..(g.buflen - 1) -> Byte])
            BY <2>9, <2>11
        <3>2. g.buflen <= WriteBufferSize /\ g.datalen <= g.buflen /\ g.datastart <= Max(0, g.buflen - 1)
            BY <1>2, <2>2, <2>11, BufferAssumption DEF Max
        <3>3. QED BY <3>1, <3>2 DEF RingOK
    <2>13. ASSUME NEW i \in 0..(g.datalen - 1) PROVE g.bufdata[At(g, i)] = lo + i
        <3>1. i \in 0..(r.datalen - 1)
            BY <2>11
        <3>2. g.bufdata[At(g, i)] = f[Pos(newlen, r.datastart, i)]
            BY <2>11 DEF At
        <3>3. QED BY <2>8, <3>1, <3>2 DEF Holds, At
    <2>14. QED BY <1>1, <1>3, <2>2, <2>11, <2>12, <2>13 DEF Holds
<1>6. QED BY <1>4, <1>5

\* Of n bytes put behind the data, first go to start.
Spot(b, st, len, n, start, first) == start = (st + len) % b /\ first = Min(n, b - start)

\* Where it is, that the data is not there, and that the bytes are.
LEMMA Place ==
    ASSUME NEW b \in Nat \ {0}, NEW st \in Nat, NEW len \in Nat, NEW n \in Nat, len + n <= b, st < b,
           NEW start, NEW first, Spot(b, st, len, n, start, first)
    PROVE  /\ start = IF st + len < b THEN st + len ELSE st + len - b
           /\ start \in Nat /\ start < b
           /\ first \in Nat /\ first <= n /\ start + first <= b /\ (first < n => first = b - start)
<1>1. b \in Nat /\ 0 < b /\ len <= b /\ st + len \in Nat
    OBVIOUS
<1>2. start = IF st + len < b THEN st + len ELSE st + len - b
    BY <1>1 DEF Spot
<1>3. start \in Nat /\ start < b
    BY <1>1, <1>2
<1>4. first \in Nat /\ first <= n /\ start + first <= b /\ (first < n => first = b - start)
    BY <1>1, <1>3 DEF Min, Spot
<1>5. QED BY <1>2, <1>3, <1>4

LEMMA DataElsewhere ==
    ASSUME NEW b \in Nat \ {0}, NEW st \in Nat, NEW len \in Nat, NEW n \in Nat, len + n <= b, st < b,
           NEW start, NEW first, Spot(b, st, len, n, start, first), NEW i \in Nat, i < len
    PROVE  /\ Pos(b, st, i) \in 0..(b - 1)
           /\ ~ (start <= Pos(b, st, i) /\ Pos(b, st, i) < start + first)
           /\ ~ (Pos(b, st, i) < n - first)
<1>1. /\ start = IF st + len < b THEN st + len ELSE st + len - b
      /\ start \in Nat /\ start < b
      /\ first \in Nat /\ first <= n /\ start + first <= b /\ (first < n => first = b - start)
    BY Place
<1>2. CASE st + i < b
    BY <1>1, <1>2 DEF Pos
<1>3. CASE ~ (st + i < b)
    BY <1>1, <1>3 DEF Pos
<1>4. QED BY <1>2, <1>3

LEMMA BytesThere ==
    ASSUME NEW b \in Nat \ {0}, NEW st \in Nat, NEW len \in Nat, NEW n \in Nat, len + n <= b, st < b,
           NEW start, NEW first, Spot(b, st, len, n, start, first), NEW j \in Nat, len <= j, j < len + n
    PROVE  IF j - len < first THEN Pos(b, st, j) = start + (j - len)
           ELSE Pos(b, st, j) = j - len - first /\ Pos(b, st, j) < start
<1>1. /\ start = IF st + len < b THEN st + len ELSE st + len - b
      /\ start \in Nat /\ start < b
      /\ first \in Nat /\ first <= n /\ start + first <= b /\ (first < n => first = b - start)
    BY Place
<1>2. CASE j - len < first
    BY <1>1, <1>2 DEF Pos
<1>3. CASE ~ (j - len < first)
    <2>1. first = b - start
        BY <1>1, <1>3
    <2>2. QED BY <1>1, <1>3, <2>1 DEF Pos
<1>4. QED BY <1>2, <1>3

\* The memory that Put makes of the memory m of length b.
Filled(m, b, start, first, bytes) ==
    [p \in 0..(b - 1) |-> IF start <= p /\ p < start + first THEN bytes[p - start + 1]
                         ELSE IF p < Len(bytes) - first THEN bytes[first + p + 1]
                         ELSE m[p]]

LEMMA PlacedThere ==
    ASSUME NEW b \in Nat \ {0}, NEW st \in Nat, NEW len \in Nat, NEW m \in [0..(b - 1) -> Byte],
           NEW bytes, NEW hi \in Nat, Run(bytes, hi), len + Len(bytes) <= b, st < b,
           NEW start, NEW first, Spot(b, st, len, Len(bytes), start, first), NEW j \in Nat, len <= j, j < len + Len(bytes)
    PROVE  Filled(m, b, start, first, bytes)[Pos(b, st, j)] = hi + (j - len)
<1> DEFINE f == Filled(m, b, start, first, bytes)
<1>0. PICK n \in Nat : n = Len(bytes) /\ bytes \in Seq(Nat) /\ Spot(b, st, len, n, start, first)
                       /\ len + n <= b /\ j < len + n
    BY DEF Run
<1>1. start \in Nat /\ start < b /\ first \in Nat /\ first <= n /\ start + first <= b
    BY <1>0, Place
<1>2. PICK i \in Nat : i = j - len /\ i < n /\ len + i = j
    BY <1>0
<1>3. IF j - len < first THEN Pos(b, st, j) = start + (j - len)
      ELSE Pos(b, st, j) = j - len - first /\ Pos(b, st, j) < start
    BY <1>0, BytesThere
<1>4. \A p \in 0..(b - 1) : f[p] = IF start <= p /\ p < start + first THEN bytes[p - start + 1]
                                  ELSE IF p < n - first THEN bytes[first + p + 1]
                                  ELSE m[p]
    BY <1>0 DEF Filled
<1>5. PICK p : p = Pos(b, st, j)
    OBVIOUS
<1>6. CASE i < first
    <2>1. p = start + i
        BY <1>3, <1>5, <1>2, <1>6
    <2>2. p \in 0..(b - 1) /\ start <= p /\ p < start + first /\ p - start + 1 = i + 1
        BY <1>1, <1>2, <1>6, <2>1
    <2>3. f[p] = bytes[i + 1]
        BY <1>2, <1>4, <1>5, <2>2
    <2>4. bytes[i + 1] = hi + i
        BY <1>0, <1>2 DEF Run
    <2>5. QED BY <1>2, <1>5, <2>3, <2>4
<1>7. CASE ~ (i < first)
    <2>1. p = i - first /\ i - first < start
        BY <1>3, <1>5, <1>2, <1>7
    <2>2. start \in Nat /\ first \in Nat /\ start < b
        BY <1>1
    <2>3. p \in Nat /\ p < b /\ p < start /\ p < n - first /\ first + p + 1 = i + 1
        BY <1>2, <1>7, <2>1, <2>2
    <2>4. p \in 0..(b - 1) /\ ~ (start <= p /\ p < start + first)
        BY <2>2, <2>3
    <2>5. f[p] = bytes[i + 1]
        BY <1>2, <1>4, <1>5, <2>3, <2>4
    <2>6. bytes[i + 1] = hi + i
        BY <1>0, <1>2 DEF Run
    <2>7. QED BY <1>2, <1>5, <2>5, <2>6
<1>8. QED BY <1>6, <1>7

LEMMA Placed ==
    ASSUME NEW b \in Nat \ {0}, NEW st \in Nat, NEW len \in Nat, NEW n \in Nat, len + n <= b, st < b,
           NEW start, NEW first, Spot(b, st, len, n, start, first),
           NEW m \in [0..(b - 1) -> Byte], NEW bytes \in Seq(Nat), n = Len(bytes),
           NEW f, f = Filled(m, b, start, first, bytes)
    PROVE  /\ f \in [0..(b - 1) -> Byte]
           /\ \A i \in 0..(len - 1) : f[Pos(b, st, i)] = m[Pos(b, st, i)]
<1>1. start \in Nat /\ start < b /\ first \in Nat /\ first <= n /\ start + first <= b
    BY Place
<1>2. ASSUME NEW i \in 0..(len - 1)
      PROVE  /\ Pos(b, st, i) \in 0..(b - 1)
             /\ ~ (start <= Pos(b, st, i) /\ Pos(b, st, i) < start + first)
             /\ ~ (Pos(b, st, i) < n - first)
    BY SMTT(40), DataElsewhere
<1>3. \A p \in 0..(b - 1) : f[p] = IF start <= p /\ p < start + first THEN bytes[p - start + 1]
                                  ELSE IF p < n - first THEN bytes[first + p + 1]
                                  ELSE m[p]
    BY DEF Filled
<1>4. \A i \in 1..n : bytes[i] \in Byte
    BY DEF Byte
<1>5. ASSUME NEW p \in 0..(b - 1) PROVE f[p] \in Byte
    <2>1. CASE start <= p /\ p < start + first
        <3>1. p - start + 1 \in 1..n
            BY <1>1, <2>1
        <3>2. f[p] = bytes[p - start + 1]
            BY <1>3, <2>1
        <3>3. QED BY <1>4, <3>1, <3>2
    <2>2. CASE ~ (start <= p /\ p < start + first) /\ p < n - first
        <3>1. first + p + 1 \in 1..n
            BY <1>1, <2>2
        <3>2. f[p] = bytes[first + p + 1]
            BY <1>3, <2>2
        <3>3. QED BY <1>4, <3>1, <3>2
    <2>3. CASE ~ (start <= p /\ p < start + first) /\ ~ (p < n - first)
        BY <1>3, <2>3
    <2>4. QED BY <2>1, <2>2, <2>3
<1>6. ASSUME NEW i \in 0..(len - 1) PROVE f[Pos(b, st, i)] = m[Pos(b, st, i)]
    BY <1>3, <1>2
<1>7. QED
    <2>1. f = [p \in 0..(b - 1) |-> f[p]]
        BY DEF Filled
    <2>2. QED BY <1>5, <1>6, <2>1

\* Bytes put behind the data continue it.
LEMMA Putting ==
    ASSUME NEW r, NEW lo, Holds(r, lo), NEW bytes, Run(bytes, lo + r.datalen),
           r.buflen > 0, r.datalen + Len(bytes) <= r.buflen, NEW d, d = Put(r, bytes)
    PROVE  Holds(d, lo) /\ d.datalen = r.datalen + Len(bytes) /\ d.buflen = r.buflen
<1>1. RingOK(r) /\ lo \in Nat
    BY DEF Holds
<1>2. /\ r.buflen \in Nat /\ r.datastart \in Nat /\ r.datalen \in Nat
      /\ r.buflen <= WriteBufferSize /\ r.datalen <= r.buflen /\ r.datastart < r.buflen
    BY <1>1, Shape
<1>3. PICK b \in Nat \ {0}, st \in Nat, len \in Nat : b = r.buflen /\ st = r.datastart /\ len = r.datalen
    BY <1>2
<1>4. PICK n \in Nat : n = Len(bytes)
    BY DEF Run
<1>5. bytes \in Seq(Nat) /\ len + n <= b /\ st < b
    BY <1>2, <1>3, <1>4 DEF Run
<1>6. PICK start, first : Spot(b, st, len, n, start, first)
    BY DEF Spot
<1>7. PICK m \in [0..(b - 1) -> Byte] : m = r.bufdata
    BY <1>1, <1>3, Memory
<1>8. PICK f : f = Filled(m, b, start, first, bytes)
    OBVIOUS
<1>9. f \in [0..(b - 1) -> Byte]
    BY <1>4, <1>5, <1>6, <1>8, Placed
<1>10. \A i \in 0..(len - 1) : f[Pos(b, st, i)] = m[Pos(b, st, i)]
    BY <1>4, <1>5, <1>6, <1>8, Placed
<1>11. ASSUME NEW i \in Nat, len <= i, i < len + n PROVE f[Pos(b, st, i)] = lo + i
    <2>1. PICK hi \in Nat : hi = lo + len
        BY <1>1
    <2>2. Run(bytes, hi)
        BY <1>3, <2>1
    <2>3. f[Pos(b, st, i)] = hi + (i - len)
        <3>1. Spot(b, st, len, Len(bytes), start, first) /\ len + Len(bytes) <= b
            BY <1>4, <1>5, <1>6
        <3>2. i < len + Len(bytes)
            BY <1>4, <1>11
        <3>3. QED BY SMTT(40), <1>5, <1>8, <1>11, <2>2, <3>1, <3>2, PlacedThere
    <2>4. QED BY <1>1, <1>11, <2>1, <2>3
<1>12. PICK x \in Nat : x = len + n
    OBVIOUS
<1>13. d = [r EXCEPT !.datalen = x, !.bufdata = f]
    BY <1>3, <1>4, <1>6, <1>7, <1>8, <1>12 DEF Put, Filled, Spot
<1>14. PICK memory : memory = [0..(b - 1) -> Byte]
    OBVIOUS
<1>15. r \in RingOf(memory) /\ f \in memory
    BY <1>1, <1>3, <1>9, <1>14, Memory
<1>16. d \in RingOf(memory) /\ d.datalen = x /\ d.bufdata = f /\ d.buflen = r.buflen /\ d.datastart = r.datastart
    BY <1>13, <1>15 DEF RingOf
<1>17. RingOK(d)
    <2>1. d \in RingOf([0..(d.buflen - 1) -> Byte])
        BY <1>3, <1>14, <1>16
    <2>2. d.buflen <= WriteBufferSize /\ d.datalen <= d.buflen /\ d.datastart <= Max(0, d.buflen - 1)
        BY <1>2, <1>3, <1>5, <1>12, <1>16 DEF Max
    <2>3. QED BY <2>1, <2>2 DEF RingOK
<1>18. ASSUME NEW i \in 0..(d.datalen - 1) PROVE d.bufdata[At(d, i)] = lo + i
    <2>1. i \in Nat /\ i < len + n /\ d.bufdata[At(d, i)] = f[Pos(b, st, i)]
        BY <1>3, <1>12, <1>16 DEF At
    <2>2. CASE i < len
        <3>1. i \in 0..(r.datalen - 1)
            BY <1>3, <2>1, <2>2
        <3>2. r.bufdata[Pos(b, st, i)] = lo + i
            BY <1>3, <3>1 DEF Holds, At
        <3>3. QED BY <1>3, <1>7, <1>10, <2>1, <3>1, <3>2
    <2>3. CASE ~ (i < len)
        BY <1>11, <2>1, <2>3
    <2>4. QED BY <2>2, <2>3
<1>19. QED BY <1>1, <1>3, <1>4, <1>12, <1>16, <1>17, <1>18 DEF Holds

\* An empty ring holds the bytes from anywhere on.
LEMMA Empty ==
    ASSUME NEW r, NEW lo, Holds(r, lo), r.datalen = 0, NEW hi \in Nat
    PROVE  Holds(r, hi)
BY DEF Holds

\* The bytes continue the data of the ring r.
Follow(bytes, r, lo) == Run(bytes, lo + r.datalen)

\* Of the data and the bytes, out goes and full stays.
Flush(r, bytes, over, fromBuffer, full, out) ==
    /\ over = Over(r, Len(bytes))
    /\ fromBuffer = Min(r.datalen, over)
    /\ full = Put(Drop(r, fromBuffer), SubSeq(bytes, over - fromBuffer + 1, Len(bytes)))
    /\ out = FirstBytes(r, fromBuffer) \o SubSeq(bytes, 1, over - fromBuffer)

\* The oldest bytes make room for the rest of a write that does not fit.
LEMMA Flushing ==
    ASSUME NEW r, NEW lo, Holds(r, lo), r.buflen > 0, NEW bytes, Follow(bytes, r, lo),
           NEW over, NEW fromBuffer, NEW full, NEW out, Flush(r, bytes, over, fromBuffer, full, out)
    PROVE  /\ over \in Nat /\ Holds(full, lo + over) /\ full.datalen = r.datalen + Len(bytes) - over
           /\ Run(out, lo) /\ Len(out) = over
<1> USE DEF Follow, Flush
<1>1. lo \in Nat /\ r.datalen \in Nat /\ r.buflen \in Nat /\ r.datalen <= r.buflen
    BY Shape DEF Holds
<1>2. PICK len \in Nat, n \in Nat, b \in Nat : len = r.datalen /\ n = Len(bytes) /\ b = r.buflen
    BY <1>1 DEF Run
<1>3. bytes \in Seq(Nat) /\ len <= b
    BY <1>1, <1>2 DEF Run
<1>4. over = IF len + n > b THEN len + n - b ELSE 0
    BY SMTT(40), <1>2 DEF Over, Max
<1>5. over \in Nat /\ over <= len + n /\ len + n - over <= b /\ len + n - over \in Nat
    BY <1>3, <1>4
<1>6. fromBuffer \in Nat /\ fromBuffer <= len /\ fromBuffer <= over /\ (fromBuffer = over \/ fromBuffer = len)
    <2>1. fromBuffer = IF len < over THEN len ELSE over
        BY <1>2 DEF Min
    <2>2. QED BY SMTT(40), <1>5, <2>1
<1>7. PICK direct \in Nat : direct = over - fromBuffer
    BY <1>5, <1>6
<1>8. direct <= n /\ (direct > 0 => fromBuffer = len) /\ fromBuffer + direct = over
    <2>1. PICK o \in Nat, fb \in Nat : o = over /\ fb = fromBuffer
        BY <1>5, <1>6
    <2>2. o <= len + n /\ fb <= len /\ fb <= o /\ (fb = o \/ fb = len) /\ direct = o - fb
        BY <1>5, <1>6, <1>7, <2>1
    <2>3. direct <= n /\ (direct > 0 => fb = len) /\ fb + direct = o
        BY <2>2
    <2>4. QED BY <2>1, <2>3
<1>9. PICK d : d = Drop(r, fromBuffer)
    OBVIOUS
<1>10. Holds(d, lo + fromBuffer) /\ d.datalen = len - fromBuffer /\ d.buflen = b
    BY SMTT(40), <1>1, <1>2, <1>6, <1>9, Dropping
<1>11. PICK hi \in Nat : hi = lo + over
    BY <1>1, <1>5
<1>12. Holds(d, hi)
    <2>1. CASE fromBuffer = over
        BY <1>10, <1>11, <2>1
    <2>2. CASE fromBuffer = len
        BY <1>10, <1>6, <2>2, Empty
    <2>3. QED BY <1>6, <2>1, <2>2
<1>13. PICK rest : rest = SubSeq(bytes, direct + 1, n)
    OBVIOUS
<1>14. Run(rest, lo + len + direct) /\ Len(rest) = n - direct
    <2>1. PICK from \in Nat, first \in Nat : from = lo + len /\ first = direct + 1
        BY <1>1
    <2>2. Run(bytes, from) /\ first \in 1..(Len(bytes) + 1) /\ n \in (first - 1)..Len(bytes)
        BY <1>2, <1>8, <2>1
    <2>3. Run(SubSeq(bytes, first, n), from + first - 1) /\ Len(SubSeq(bytes, first, n)) = n - first + 1
        BY <2>2, RunPart
    <2>4. from + first - 1 = lo + len + direct /\ n - first + 1 = n - direct
        BY <1>1, <2>1
    <2>5. QED BY <1>13, <2>1, <2>3, <2>4
<1>15. lo + len + direct = hi + d.datalen
    BY <1>1, <1>6, <1>8, <1>10, <1>11
<1>16. full = Put(d, rest)
    BY <1>2, <1>7, <1>9, <1>13
<1>17. d.datalen + Len(rest) = len + n - over
    <2>1. (len - fromBuffer) + (n - direct) = len + n - over
        BY SMTT(40), <1>5, <1>6, <1>8
    <2>2. QED BY <1>10, <1>14, <2>1
<1>18. Holds(full, hi) /\ full.datalen = len + n - over
    <2>1. Run(rest, hi + d.datalen) /\ d.buflen > 0 /\ d.datalen + Len(rest) <= d.buflen
        BY <1>2, <1>5, <1>10, <1>14, <1>15, <1>17
    <2>2. QED BY <1>12, <1>16, <1>17, <2>1, Putting
<1>19. Run(out, lo) /\ Len(out) = over
    <2>1. PICK u : u = FirstBytes(r, fromBuffer)
        OBVIOUS
    <2>2. Run(u, lo) /\ Len(u) = fromBuffer
        BY <1>1, <1>2, <1>6, <2>1, Reading
    <2>3. PICK v : v = SubSeq(bytes, 1, direct)
        OBVIOUS
    <2>4. Run(v, lo + len) /\ Len(v) = direct
        <3>1. PICK from \in Nat : from = lo + len
            BY <1>1
        <3>2. Run(bytes, from) /\ 1 \in 1..(Len(bytes) + 1) /\ direct \in (1 - 1)..Len(bytes)
            BY <1>2, <1>8, <3>1
        <3>3. Run(SubSeq(bytes, 1, direct), from + 1 - 1) /\ Len(SubSeq(bytes, 1, direct)) = direct - 1 + 1
            BY <3>2, RunPart
        <3>4. from + 1 - 1 = lo + len /\ direct - 1 + 1 = direct
            BY <1>1, <3>1
        <3>5. QED BY <2>3, <3>3, <3>4
    <2>5. Run(v, lo + Len(u))
        <3>1. CASE direct > 0
            BY <1>8, <2>2, <2>4, <3>1
        <3>2. CASE direct = 0
            BY <2>4, <3>2 DEF Run
        <3>3. QED BY <3>1, <3>2
    <2>6. Run(u \o v, lo) /\ Len(u \o v) = Len(u) + Len(v)
        BY <1>1, <2>2, <2>5, RunsJoin
    <2>7. QED BY <1>7, <1>8, <2>1, <2>2, <2>3, <2>4, <2>6
<1>20. QED BY <1>2, <1>5, <1>11, <1>18, <1>19

-----------------------------------------------------------------------------
(* The steps.                                                              *)

\* With r and n bytes more, of which the oldest m have gone since lo.
Went(m, lo, r, n) ==
    /\ Run(got', 0) /\ Len(got') = lo + m
    /\ Holds(ring', lo + m) /\ ring'.datalen = r.datalen + n - m

\* What a write that is not all sent does: the queue keeps what it has room for.
LEMMA Buffering ==
    ASSUME NEW r, NEW lo, Holds(r, lo), r.buflen > 0,
           NEW bytes, Follow(bytes, r, lo), r.buflen >= Min(WriteBufferSize, r.datalen + Len(bytes)),
           NEW sent, Run(got \o sent, 0), Len(got \o sent) = lo, Buffered(r, bytes, sent)
    PROVE  \E m \in Nat :
              /\ Went(m, lo, r, Len(bytes))
              /\ IF r.datalen + Len(bytes) <= WriteBufferSize THEN m = 0 /\ armed' = (armed \/ r.datalen = 0)
                 ELSE /\ m >= r.datalen + Len(bytes) - WriteBufferSize
                      /\ armed' = (ring'.datalen > 0)
<1>1. lo \in Nat /\ r.datalen \in Nat /\ r.buflen \in Nat /\ r.buflen <= WriteBufferSize
    BY Shape DEF Holds
<1>2. PICK total \in Nat, n \in Nat : n = Len(bytes) /\ total = r.datalen + n
    BY <1>1 DEF Run, Follow
<1>3. PICK over, fromBuffer, full, out : Flush(r, bytes, over, fromBuffer, full, out)
    BY DEF Flush
<1>4. /\ over = Over(r, Len(bytes))
      /\ fromBuffer = Min(r.datalen, over)
      /\ full = Put(Drop(r, fromBuffer), SubSeq(bytes, over - fromBuffer + 1, Len(bytes)))
      /\ out = FirstBytes(r, fromBuffer) \o SubSeq(bytes, 1, over - fromBuffer)
    BY <1>3 DEF Flush
<1>5. over \in Nat /\ Holds(full, lo + over)
    BY <1>3, Flushing
<1>6. full.datalen = total - over
    <2>1. full.datalen = r.datalen + Len(bytes) - over
        BY <1>3, Flushing
    <2>2. QED BY <1>1, <1>2, <1>5, <2>1
<1>7. Run(out, lo) /\ Len(out) = over
    BY <1>3, Flushing
<1>8. over = IF total > r.buflen THEN total - r.buflen ELSE 0
    <2>1. over = Max(0, total - r.buflen)
        BY SMTT(40), <1>1, <1>2, <1>4 DEF Over
    <2>2. QED BY <1>1, <1>2, <2>1 DEF Max
<1>9. CASE over = 0
    <2>1. ring' = full /\ got' = got \o sent /\ armed' = (armed \/ r.datalen = 0)
        BY <1>4, <1>9 DEF Buffered
    <2>2. total <= WriteBufferSize
        BY <1>1, <1>8, <1>9, BufferAssumption
    <2>3. Went(0, lo, r, Len(bytes))
        BY <1>1, <1>2, <1>5, <1>6, <1>7, <1>9, <2>1 DEF Went
    <2>4. QED BY <1>2, <2>1, <2>2, <2>3
<1>10. CASE over # 0
    <2>1. PICK k \in 0..full.datalen :
             /\ ring' = Drop(full, k)
             /\ got' = got \o sent \o out \o FirstBytes(full, k)
             /\ armed' = (k < full.datalen)
        <3>1. \E k \in 0..full.datalen :
                 /\ ring' = Drop(full, k)
                 /\ got' = got \o sent \o (FirstBytes(r, fromBuffer) \o SubSeq(bytes, 1, over - fromBuffer))
                            \o FirstBytes(full, k)
                 /\ armed' = (k < full.datalen)
            BY <1>4, <1>10 DEF Buffered
        <3>2. QED BY <1>4, <3>1
    <2>2. PICK hi \in Nat : hi = lo + over
        BY <1>1, <1>5, <1>6, <1>7
    <2>3. Holds(full, hi) /\ full.datalen \in Nat
        BY <1>5, <1>6, <1>7, <2>2, Shape DEF Holds
    <2>4. k \in Nat /\ k <= full.datalen
        BY <2>3
    <2>5. Holds(ring', hi + k) /\ ring'.datalen = full.datalen - k
        BY <2>1, <2>3, Dropping
    <2>6. PICK s : s = got \o sent
        OBVIOUS
    <2>7. Run(s \o out, 0) /\ Len(s \o out) = hi
        <3>1. Run(s, 0) /\ Len(s) = lo /\ Run(out, 0 + Len(s))
            BY <1>1, <1>5, <1>6, <1>7, <2>6
        <3>2. QED BY <1>5, <1>6, <1>7, <2>2, <3>1, RunsJoin
    <2>8. PICK t : t = s \o out
        OBVIOUS
    <2>9. PICK v : v = FirstBytes(full, k)
        OBVIOUS
    <2>10. Run(v, hi) /\ Len(v) = k
        BY <2>1, <2>3, <2>9, Reading
    <2>11. Run(t \o v, 0) /\ Len(t \o v) = hi + k
        <3>1. Run(t, 0) /\ Len(t) = hi /\ Run(v, 0 + Len(t))
            BY <2>2, <2>7, <2>8, <2>10
        <3>2. QED BY <2>10, <3>1, RunsJoin
    <2>12. PICK m \in Nat : m = over + k
        BY <1>5, <1>6, <1>7, <2>4
    <2>13. lo + m = hi + k /\ full.datalen - k = r.datalen + Len(bytes) - m
        <3>1. PICK o \in Nat, d \in Nat : o = over /\ d = r.datalen
            BY <1>1, <1>5
        <3>2. lo + m = hi + k
            BY <1>1, <2>2, <2>4, <2>12, <3>1
        <3>3. total = d + n /\ m = o + k
            BY <1>2, <2>12, <3>1
        <3>4. (total - o) - k = d + n - m
            BY <2>4, <3>3
        <3>5. QED BY <1>2, <1>6, <3>1, <3>2, <3>4
    <2>14. Went(m, lo, r, Len(bytes))
        BY <2>1, <2>5, <2>6, <2>8, <2>9, <2>11, <2>13 DEF Went
    <2>15. total > WriteBufferSize /\ m >= total - WriteBufferSize
        <3>1. PICK w \in Nat, c \in Nat, o \in Nat : w = WriteBufferSize /\ c = r.buflen /\ o = over
            BY <1>1, <1>5, BufferAssumption
        <3>2. o = total - c /\ total > c /\ c <= w
            BY <1>1, <1>2, <1>8, <1>10, <3>1
        <3>3. c >= (IF w < total THEN w ELSE total)
            BY <1>2, <3>1 DEF Min
        <3>4. total > w /\ c = w
            BY <3>2, <3>3
        <3>5. m = o + k /\ k >= 0
            BY <2>4, <2>12, <3>1
        <3>6. total > w /\ m >= total - w
            BY <1>2, <2>4, <3>2, <3>4, <3>5
        <3>7. QED BY <3>1, <3>6
    <2>16. armed' = (ring'.datalen > 0)
        BY <2>1, <2>3, <2>4, <2>5
    <2>17. ~ (r.datalen + Len(bytes) <= WriteBufferSize) /\ m >= r.datalen + Len(bytes) - WriteBufferSize
        BY SMTT(40), <1>1, <1>2, <2>15, BufferAssumption
    <2>18. QED BY <2>14, <2>16, <2>17
<1>11. QED BY <1>9, <1>10

\* The inductive invariant: the data of the ring continues what the socket got.
Inv ==
    /\ written \in Nat /\ Run(got, 0) /\ RingOK(ring)
    /\ armed \in BOOLEAN /\ failed \in BOOLEAN
    /\ ~failed => Holds(ring, Len(got)) /\ written = Len(got) + ring.datalen

\* Of the data and n bytes more, the oldest m go.
Move(n, m) ==
    /\ Run(got', 0) /\ Len(got') = Len(got) + m
    /\ Holds(ring', Len(got')) /\ ring'.datalen = ring.datalen + n - m
    /\ written' = written + n

LEMMA NewRun ==
    ASSUME written \in Nat, NEW n \in Nat
    PROVE  Run(New(n), written) /\ Len(New(n)) = n
<1>1. New(n) \in [1..n -> Nat]
    BY DEF New
<1>2. New(n) \in Seq(Nat) /\ Len(New(n)) = n
    BY <1>1
<1>3. \A i \in 1..n : New(n)[i] = written + i - 1
    BY DEF New
<1>4. QED BY <1>2, <1>3 DEF Run

\* A write to an empty queue may go as far as the socket takes it; with room
\* it is kept; without, the oldest bytes go until it fits.
LEMMA Writing ==
    ASSUME Inv, SockBufferedWrite
    PROVE  \E n \in 1..MaxWrite, m \in Nat :
              /\ ~failed /\ written + n <= MaxBytes /\ failed' = failed
              /\ Move(n, m)
              /\ m >= ring.datalen + n - WriteBufferSize
              /\ IF ring.datalen > 0 /\ ring.datalen + n <= WriteBufferSize
                   THEN m = 0 /\ armed' = armed
                   ELSE armed' = (ring'.datalen > 0)
<1>1. PICK n \in 1..MaxWrite :
         /\ ~failed /\ written + n <= MaxBytes /\ written' = written + n /\ failed' = failed
         /\ \E k \in 0..(IF ring.datalen = 0 THEN n ELSE 0) :
               IF k = n
                 THEN got' = got \o New(n) /\ armed' = FALSE /\ ring' = ring
                 ELSE Buffered(Grown(ring, n - k), SubSeq(New(n), k + 1, n), SubSeq(New(n), 1, k))
    BY DEF SockBufferedWrite
<1>2. PICK k \in 0..(IF ring.datalen = 0 THEN n ELSE 0) :
         IF k = n
           THEN got' = got \o New(n) /\ armed' = FALSE /\ ring' = ring
           ELSE Buffered(Grown(ring, n - k), SubSeq(New(n), k + 1, n), SubSeq(New(n), 1, k))
    BY <1>1
<1>3. PICK lo \in Nat, len \in Nat : lo = Len(got) /\ len = ring.datalen
    BY Shape DEF Inv, Run
<1>4. n \in Nat \ {0} /\ k \in Nat /\ k <= n /\ (k > 0 => len = 0)
    BY <1>3, BufferAssumption
<1>5. Holds(ring, lo) /\ written = lo + len /\ Run(got, 0) /\ written \in Nat
    BY <1>1, <1>3 DEF Inv
<1>6. PICK new : new = New(n)
    OBVIOUS
<1>7. Run(new, written) /\ Len(new) = n
    BY <1>4, <1>5, <1>6, NewRun
<1>8. CASE k = n
    <2>1. got' = got \o new /\ armed' = FALSE /\ ring' = ring /\ len = 0
        BY <1>2, <1>4, <1>6, <1>8
    <2>2. Run(got', 0) /\ Len(got') = lo + n
        <3>1. Run(new, 0 + Len(got)) /\ Len(got) = lo
            BY <1>3, <1>5, <1>7, <2>1
        <3>2. QED BY <1>5, <1>7, <2>1, <3>1, RunsJoin
    <2>3. Holds(ring', Len(got'))
        <3>1. PICK hi \in Nat : hi = lo + n
            BY <1>4
        <3>2. Holds(ring, hi)
            BY <1>3, <1>5, <2>1, Empty
        <3>3. QED BY <2>1, <2>2, <3>1, <3>2
    <2>4. Move(n, n)
        BY <1>1, <1>3, <1>4, <2>1, <2>2, <2>3 DEF Move
    <2>5. n >= ring.datalen + n - WriteBufferSize /\ ~ (ring.datalen > 0) /\ armed' = (ring'.datalen > 0)
        <3>1. ring.datalen = 0 /\ ring'.datalen = 0
            BY <1>3, <2>1
        <3>2. n >= 0 + n - WriteBufferSize
            BY <1>4, BufferAssumption
        <3>3. n >= ring.datalen + n - WriteBufferSize
            BY <3>1, <3>2
        <3>4. ~ (ring.datalen > 0) /\ ~ (ring'.datalen > 0)
            BY <3>1
        <3>5. armed' = FALSE /\ (ring'.datalen > 0) = FALSE
            BY <2>1, <3>4
        <3>6. armed' = (ring'.datalen > 0)
            BY <3>5
        <3>7. QED BY <3>3, <3>4, <3>6
    <2>6. QED BY <1>1, <1>4, <2>4, <2>5
<1>9. CASE k # n
    <2>1. PICK c \in Nat \ {0} : c = n - k
        BY <1>4, <1>9
    <2>2. PICK r : r = Grown(ring, c)
        OBVIOUS
    <2>3. Holds(r, lo) /\ r.datalen = len /\ r.buflen >= Min(WriteBufferSize, len + c)
        BY <1>3, <1>5, <2>1, <2>2, Growing
    <2>4. PICK bytes, sent : bytes = SubSeq(new, k + 1, n) /\ sent = SubSeq(new, 1, k)
        OBVIOUS
    <2>5. Buffered(r, bytes, sent)
        BY <1>2, <1>6, <1>9, <2>1, <2>2, <2>4
    <2>6. PICK hi \in Nat : hi = lo + k
        BY <1>4
    <2>7. Holds(r, hi)
        <3>1. CASE k = 0
            BY <2>3, <2>6, <3>1
        <3>2. CASE k > 0
            BY <1>4, <2>3, <3>2, Empty
        <3>3. QED BY <1>4, <3>1, <3>2
    <2>8. Run(bytes, written + k) /\ Len(bytes) = c
        <3>1. PICK a \in Nat : a = k + 1
            BY <1>4
        <3>2. a \in 1..(Len(new) + 1) /\ n \in (a - 1)..Len(new)
            BY <1>4, <1>7, <3>1
        <3>3. Run(SubSeq(new, a, n), written + a - 1) /\ Len(SubSeq(new, a, n)) = n - a + 1
            BY <1>5, <1>7, <3>2, RunPart
        <3>4. written + a - 1 = written + k /\ n - a + 1 = c
            BY <1>4, <1>5, <2>1, <3>1
        <3>5. QED BY <2>4, <3>1, <3>3, <3>4
    <2>9. Run(sent, written) /\ Len(sent) = k
        <3>1. 1 \in 1..(Len(new) + 1) /\ k \in (1 - 1)..Len(new)
            BY <1>4, <1>7
        <3>2. Run(SubSeq(new, 1, k), written + 1 - 1) /\ Len(SubSeq(new, 1, k)) = k - 1 + 1
            BY <1>5, <1>7, <3>1, RunPart
        <3>3. written + 1 - 1 = written /\ k - 1 + 1 = k
            BY <1>4, <1>5
        <3>4. QED BY <2>4, <3>2, <3>3
    <2>10. Follow(bytes, r, hi)
        <3>1. written + k = hi + r.datalen
            BY <1>4, <1>5, <2>3, <2>6
        <3>2. QED BY <2>8, <3>1 DEF Follow
    <2>11. Run(got \o sent, 0) /\ Len(got \o sent) = hi
        <3>1. Run(sent, lo)
            <4>1. CASE k = 0
                BY <2>9, <4>1 DEF Run
            <4>2. CASE k > 0
                BY <1>4, <1>5, <2>9, <4>2
            <4>3. QED BY <1>4, <4>1, <4>2
        <3>2. Run(sent, 0 + Len(got)) /\ Len(got) = lo
            BY <1>3, <3>1
        <3>3. QED BY <1>5, <2>6, <2>9, <3>2, RunsJoin
    <2>12. r.buflen > 0 /\ r.buflen >= Min(WriteBufferSize, r.datalen + Len(bytes))
        <3>1. r.buflen \in Nat
            BY <2>3, Shape DEF Holds
        <3>2. Min(WriteBufferSize, len + c) > 0
            BY <1>3, <2>1, BufferAssumption DEF Min
        <3>3. Min(WriteBufferSize, len + c) \in Nat
            BY <1>3, <2>1, BufferAssumption DEF Min
        <3>4. QED BY <2>3, <2>8, <3>1, <3>2, <3>3
    <2>13. PICK m \in Nat :
              /\ Went(m, hi, r, Len(bytes))
              /\ IF r.datalen + Len(bytes) <= WriteBufferSize THEN m = 0 /\ armed' = (armed \/ r.datalen = 0)
                 ELSE /\ m >= r.datalen + Len(bytes) - WriteBufferSize
                      /\ armed' = (ring'.datalen > 0)
        BY <2>5, <2>7, <2>10, <2>11, <2>12, Buffering
    <2>14. PICK g \in Nat : g = k + m
        BY <1>4
    <2>15. Move(n, g)
        <3>1. Run(got', 0) /\ Len(got') = hi + m /\ Holds(ring', hi + m) /\ ring'.datalen = len + c - m
            BY <2>3, <2>8, <2>13 DEF Went
        <3>2. hi + m = lo + g /\ len + c - m = len + n - g
            BY <1>4, <2>1, <2>6, <2>14
        <3>3. QED BY <1>1, <1>3, <3>1, <3>2 DEF Move
    <2>16. g >= len + n - WriteBufferSize
        <3>1. CASE len + c <= WriteBufferSize
            BY <1>4, <2>1, <2>14, <3>1, BufferAssumption
        <3>2. CASE ~ (len + c <= WriteBufferSize)
            <4>1. m >= len + c - WriteBufferSize
                BY <2>3, <2>8, <2>13, <3>2
            <4>2. QED BY <1>4, <2>1, <2>14, <4>1, BufferAssumption
        <3>3. QED BY <3>1, <3>2
    <2>17. IF len > 0 /\ len + n <= WriteBufferSize THEN g = 0 /\ armed' = armed
           ELSE armed' = (ring'.datalen > 0)
        <3>1. CASE ~ (len + c <= WriteBufferSize)
            <4>1. armed' = (ring'.datalen > 0)
                BY <2>3, <2>8, <2>13, <3>1
            <4>2. ~ (len + n <= WriteBufferSize)
                BY <1>4, <2>1, <3>1, BufferAssumption
            <4>3. QED BY <4>1, <4>2
        <3>2. CASE len + c <= WriteBufferSize
            <4>1. m = 0 /\ armed' = (armed \/ len = 0)
                BY <2>3, <2>8, <2>13, <3>2
            <4>2. CASE len = 0
                <5>1. ring'.datalen = c
                    BY <2>1, <2>3, <2>8, <2>13, <4>1, <4>2 DEF Went
                <5>2. QED BY <2>1, <4>1, <4>2, <5>1
            <4>3. CASE len > 0
                <5>1. k = 0 /\ g = 0 /\ c = n
                    BY <1>4, <2>1, <2>14, <4>1, <4>3
                <5>2. armed' = armed
                    BY <4>1, <4>3 DEF Inv
                <5>3. QED BY <3>2, <4>3, <5>1, <5>2
            <4>4. QED BY <4>2, <4>3
        <3>3. QED BY <3>1, <3>2
    <2>18. QED BY <1>1, <1>3, <2>15, <2>16, <2>17
<1>10. QED BY <1>8, <1>9

\* On FD_WRITE the socket takes what it can of the queue.
LEMMA WritingMore ==
    ASSUME Inv, SockWriteMore
    PROVE  /\ ~failed /\ armed /\ failed' = failed
           /\ \E m \in Nat : m <= ring.datalen /\ Move(0, m) /\ armed' = (ring'.datalen > 0)
<1>1. PICK k \in 0..ring.datalen :
         /\ got' = got \o FirstBytes(ring, k) /\ ring' = Drop(ring, k) /\ armed' = (k < ring.datalen)
    BY DEF SockWriteMore
<1>2. ~failed /\ armed /\ failed' = failed /\ written' = written
    BY DEF SockWriteMore
<1>3. PICK lo \in Nat, len \in Nat : lo = Len(got) /\ len = ring.datalen
    BY Shape DEF Inv, Run
<1>4. Holds(ring, lo) /\ Run(got, 0) /\ written \in Nat /\ k \in Nat /\ k <= len
    BY <1>2, <1>3 DEF Inv
<1>5. Holds(ring', lo + k) /\ ring'.datalen = len - k
    BY <1>1, <1>3, <1>4, Dropping
<1>6. PICK v : v = FirstBytes(ring, k)
    OBVIOUS
<1>7. Run(v, lo) /\ Len(v) = k
    BY <1>1, <1>4, <1>6, Reading
<1>8. Run(got \o v, 0) /\ Len(got \o v) = lo + k
    <2>1. Run(v, 0 + Len(got))
        BY <1>3, <1>7
    <2>2. QED BY <1>3, <1>4, <1>7, <2>1, RunsJoin
<1>9. Move(0, k)
    <2>1. len + 0 - k = len - k /\ written + 0 = written
        BY <1>4
    <2>2. QED BY <1>1, <1>2, <1>3, <1>5, <1>6, <1>8, <2>1 DEF Move
<1>10. armed' = (ring'.datalen > 0)
    BY <1>1, <1>3, <1>4, <1>5
<1>11. QED BY <1>2, <1>3, <1>4, <1>9, <1>10

LEMMA Failing ==
    ASSUME Inv, SendFails
    PROVE  ~failed /\ failed' /\ Run(got', 0) /\ written' \in Nat
<1>1. PICK n \in 0..MaxWrite :
         /\ written' = written + n
         /\ \E k \in 0..(ring.datalen + n) :
               got' = got \o SubSeq(FirstBytes(ring, ring.datalen) \o New(n), 1, k)
    BY DEF SendFails
<1>2. PICK k \in 0..(ring.datalen + n) : got' = got \o SubSeq(Contents \o New(n), 1, k)
    BY <1>1 DEF Contents
<1>3. ~failed /\ failed'
    BY DEF SendFails
<1>4. PICK lo \in Nat, len \in Nat : lo = Len(got) /\ len = ring.datalen
    BY Shape DEF Inv, Run
<1>5. Holds(ring, lo) /\ written = lo + len /\ Run(got, 0) /\ written \in Nat
    BY <1>3, <1>4 DEF Inv
<1>6. n \in Nat /\ k \in Nat /\ k <= len + n /\ written' \in Nat
    <2>1. n \in Nat
        BY BufferAssumption
    <2>2. k \in 0..(len + n)
        BY <1>4
    <2>3. QED BY <1>1, <1>5, <2>1, <2>2
<1>7. PICK u, v : u = Contents /\ v = New(n)
    OBVIOUS
<1>8. Run(u, lo) /\ Len(u) = len
    BY <1>4, <1>5, <1>7, Reading DEF Contents
<1>9. Run(v, lo + Len(u)) /\ Len(v) = n
    BY <1>5, <1>6, <1>7, <1>8, NewRun
<1>10. PICK all : all = u \o v
    OBVIOUS
<1>11. Run(all, lo) /\ Len(all) = len + n
    BY <1>8, <1>9, <1>10, RunsJoin
<1>12. PICK w : w = SubSeq(all, 1, k)
    OBVIOUS
<1>13. Run(w, lo)
    <2>1. 1 \in 1..(Len(all) + 1) /\ k \in (1 - 1)..Len(all)
        BY <1>6, <1>11
    <2>2. Run(SubSeq(all, 1, k), lo + 1 - 1)
        BY <1>11, <2>1, RunPart
    <2>3. lo + 1 - 1 = lo
        OBVIOUS
    <2>4. QED BY <1>12, <2>2, <2>3
<1>14. Run(got \o w, 0)
    <2>1. Run(w, 0 + Len(got))
        BY <1>4, <1>13
    <2>2. QED BY <1>5, <2>1, RunsJoin
<1>15. QED BY <1>2, <1>3, <1>6, <1>7, <1>10, <1>12, <1>14

-----------------------------------------------------------------------------
(* The invariant.                                                          *)

LEMMA InitInv ==
    ASSUME Init
    PROVE  Inv /\ ring.datalen = 0 /\ got = <<>> /\ written = 0 /\ armed = FALSE /\ failed = FALSE
<1>1. PICK none : none = [i \in 0..(0 - 1) |-> 0]
    OBVIOUS
<1>2. <<>> = none
    BY <1>1
<1>3. none \in [0..(0 - 1) -> Byte]
    BY <1>1 DEF Byte
<1>4. ring.bufdata = none /\ ring.buflen = 0 /\ ring.datastart = 0 /\ ring.datalen = 0
    BY <1>2 DEF Init
<1>5. ring \in RingOf([0..(0 - 1) -> Byte])
    BY <1>2, <1>3 DEF Init, RingOf
<1>6. RingOK(ring)
    BY <1>4, <1>5, BufferAssumption DEF RingOK, Max
<1>7. Run(got, 0) /\ Len(got) = 0
    BY DEF Run, Init
<1>8. Holds(ring, 0)
    BY <1>4, <1>6 DEF Holds
<1>9. got = <<>> /\ written = 0 /\ armed = FALSE /\ failed = FALSE
    BY DEF Init
<1>10. written = Len(got) + ring.datalen /\ Holds(ring, Len(got))
    BY <1>4, <1>7, <1>8, <1>9
<1>11. Inv
    <2>1. written \in Nat
        BY <1>9
    <2>2. armed \in BOOLEAN /\ failed \in BOOLEAN
        BY <1>9, Zenon
    <2>3. QED BY <1>6, <1>7, <1>10, <2>1, <2>2 DEF Inv
<1>12. QED BY <1>4, <1>9, <1>11

LEMMA MoveInv ==
    ASSUME Inv, ~failed, NEW n \in Nat, NEW m \in Nat, Move(n, m), failed' = failed, armed' \in BOOLEAN
    PROVE  Inv'
<1>1. PICK lo \in Nat, len \in Nat : lo = Len(got) /\ len = ring.datalen
    BY Shape DEF Inv, Run
<1>2. written = lo + len /\ written \in Nat
    BY <1>1 DEF Inv
<1>3. Run(got', 0) /\ Len(got') = lo + m /\ Holds(ring', Len(got')) /\ ring'.datalen = len + n - m
      /\ written' = written + n
    BY <1>1 DEF Move
<1>4. written' \in Nat /\ written' = Len(got') + ring'.datalen
    BY <1>2, <1>3
<1>5. RingOK(ring')
    BY <1>3 DEF Holds
<1>6. QED BY <1>3, <1>4, <1>5 DEF Inv

LEMMA NextInv ==
    ASSUME Inv, [Next]_vars
    PROVE  Inv'
<1>1. CASE SockBufferedWrite
    <2>1. PICK n \in 1..MaxWrite, m \in Nat :
             /\ ~failed /\ failed' = failed /\ Move(n, m)
             /\ IF ring.datalen > 0 /\ ring.datalen + n <= WriteBufferSize
                  THEN m = 0 /\ armed' = armed
                  ELSE armed' = (ring'.datalen > 0)
        BY <1>1, Writing
    <2>2. armed' \in BOOLEAN
        <3>1. armed' = armed \/ armed' = (ring'.datalen > 0)
            BY <2>1
        <3>2. armed \in BOOLEAN
            BY DEF Inv
        <3>3. (ring'.datalen > 0) \in BOOLEAN
            OBVIOUS
        <3>4. QED BY <3>1, <3>2, <3>3, Zenon
    <2>3. n \in Nat
        BY BufferAssumption
    <2>4. QED BY <2>1, <2>2, <2>3, MoveInv
<1>2. CASE SockWriteMore
    <2>1. PICK m \in Nat : ~failed /\ failed' = failed /\ Move(0, m) /\ armed' = (ring'.datalen > 0)
        BY <1>2, WritingMore
    <2>2. QED BY <2>1, MoveInv
<1>3. CASE SendFails
    <2>1. failed' /\ Run(got', 0) /\ written' \in Nat
        BY <1>3, Failing
    <2>2. ring' = ring /\ armed' = armed /\ failed' = TRUE
        BY <1>3 DEF SendFails
    <2>3. QED BY <2>1, <2>2 DEF Inv
<1>4. CASE UNCHANGED vars
    BY <1>4 DEF vars, Inv
<1>5. QED BY <1>1, <1>2, <1>3, <1>4 DEF Next

LEMMA Invariance == Spec => []Inv
<1>1. Init => Inv
    BY InitInv
<1>2. Inv /\ [Next]_vars => Inv'
    BY NextInv
<1>3. QED BY <1>1, <1>2, PTL DEF Spec

\* The ring never leaves its memory nor the memory the WriteBufferSize setting:
\* no index UTIL_sock_buffered_write or UTIL_sock_write_more uses is outside.
THEOREM TypeCorrect == Spec => []TypeOK
<1>1. Inv => TypeOK
    BY DEF Inv, TypeOK, Run
<1>2. QED BY <1>1, Invariance, PTL

\* For every size of the buffer the socket is sent the bytes of the channel in
\* order, without loss or repetition, by whatever mixture of direct, buffered and
\* blocking sends.
THEOREM OrderCorrect == Spec => []InOrder
<1>1. ASSUME Inv PROVE InOrder
    <2>1. \A i \in 1..Len(got) : got[i] = i - 1
        <3>1. \A i \in 1..Len(got) : got[i] = 0 + i - 1
            BY <1>1 DEF Inv, Run
        <3>2. QED BY <3>1
    <2>2. ASSUME ~failed
          PROVE  written = Len(got) + ring.datalen /\ \A i \in 1..ring.datalen : Contents[i] = Len(got) + i - 1
        <3>1. Holds(ring, Len(got)) /\ written = Len(got) + ring.datalen
            BY <1>1, <2>2 DEF Inv
        <3>2. ring.datalen \in 0..ring.datalen
            BY <3>1, Shape DEF Holds
        <3>3. Run(Contents, Len(got)) /\ Len(Contents) = ring.datalen
            BY <3>1, <3>2, Reading DEF Contents
        <3>4. QED BY <3>1, <3>3 DEF Run
    <2>3. QED BY <2>1, <2>2 DEF InOrder
<1>2. QED BY <1>1, Invariance, PTL

-----------------------------------------------------------------------------
(* The refinement.                                                         *)

LEMMA Contains ==
    ASSUME Inv, ~failed
    PROVE  /\ Holds(ring, Len(got)) /\ ring.datalen \in Nat /\ Len(got) \in Nat
           /\ Run(Contents, Len(got)) /\ Len(Contents) = ring.datalen
           /\ written = Len(got) + ring.datalen /\ written \in Nat /\ Run(got, 0)
<1>1. Holds(ring, Len(got)) /\ written = Len(got) + ring.datalen /\ written \in Nat /\ Run(got, 0)
    BY DEF Inv
<1>2. ring.datalen \in Nat /\ Len(got) \in Nat
    BY <1>1, Shape DEF Holds
<1>3. ring.datalen \in 0..ring.datalen
    BY <1>2
<1>4. QED BY <1>1, <1>2, <1>3, Reading DEF Contents

\* What goes and what stays are the two parts of the queue with the new bytes.
LEMMA QueueSends ==
    ASSUME Inv, ~failed, NEW n \in Nat, NEW m \in Nat, Move(n, m),
           NEW all, Run(all, Len(got)), Len(all) = ring.datalen + n
    PROVE  Queue!Sends(all, m) /\ m <= ring.datalen + n /\ Len(Contents') = ring'.datalen
<1>1. PICK lo \in Nat, len \in Nat : lo = Len(got) /\ len = ring.datalen
    BY Contains
<1>2. Run(got', 0) /\ Len(got') = lo + m /\ Holds(ring', Len(got')) /\ ring'.datalen = len + n - m
    BY <1>1 DEF Move
<1>3. ring'.datalen \in Nat /\ ring'.datalen \in 0..ring'.datalen
    BY <1>2, Shape DEF Holds
<1>4. m <= len + n
    BY <1>2, <1>3
<1>5. PICK hi \in Nat : hi = lo + m
    OBVIOUS
<1>6. Run(Contents', hi) /\ Len(Contents') = len + n - m
    <2>1. Holds(ring', hi)
        BY <1>2, <1>5
    <2>2. QED BY <1>2, <1>3, <2>1, Reading DEF Contents
<1>7. Run(all, lo) /\ Len(all) = len + n
    BY <1>1
<1>8. got' = got \o SubSeq(all, 1, m)
    <2>1. PICK s : s = SubSeq(all, 1, m)
        OBVIOUS
    <2>2. 1 \in 1..(Len(all) + 1) /\ m \in (1 - 1)..Len(all)
        BY <1>4, <1>7
    <2>3. Run(SubSeq(all, 1, m), lo + 1 - 1) /\ Len(SubSeq(all, 1, m)) = m - 1 + 1
        BY <1>7, <2>2, RunPart
    <2>4. lo + 1 - 1 = lo /\ m - 1 + 1 = m
        OBVIOUS
    <2>5. Run(s, lo) /\ Len(s) = m
        BY <2>1, <2>3, <2>4
    <2>6. Run(got, 0) /\ Run(s, 0 + Len(got))
        BY <1>1, <2>5, Contains
    <2>7. Run(got \o s, 0) /\ Len(got \o s) = Len(got) + Len(s)
        BY <2>6, RunsJoin
    <2>8. Len(got \o s) = Len(got')
        BY <1>1, <1>2, <2>5, <2>7
    <2>9. got' = got \o s
        BY <1>2, <2>7, <2>8, RunsEqual
    <2>10. QED BY <2>1, <2>9
<1>9. Contents' = SubSeq(all, m + 1, Len(all))
    <2>1. PICK a \in Nat, b \in Nat : a = m + 1 /\ b = len + n
        OBVIOUS
    <2>2. PICK s : s = SubSeq(all, a, b)
        OBVIOUS
    <2>3. a \in 1..(Len(all) + 1) /\ b \in (a - 1)..Len(all)
        BY <1>4, <1>7, <2>1
    <2>4. Run(SubSeq(all, a, b), lo + a - 1) /\ Len(SubSeq(all, a, b)) = b - a + 1
        BY <1>7, <2>3, RunPart
    <2>5. lo + a - 1 = hi /\ b - a + 1 = len + n - m
        BY <1>5, <2>1
    <2>6. Run(s, hi) /\ Len(s) = len + n - m
        BY <2>2, <2>4, <2>5
    <2>7. Contents' = s
        BY <1>6, <2>6, RunsEqual
    <2>8. QED BY <1>7, <2>1, <2>2, <2>7
<1>10. QED BY <1>1, <1>2, <1>4, <1>6, <1>8, <1>9 DEF Queue!Sends

\* How far the queue may send is what a write does.
LEMMA MayGo ==
    ASSUME NEW q \in Seq(Nat), Contents = q, NEW len \in Nat, len = Len(q),
           NEW n \in Nat \ {0}, NEW m \in Nat, m <= len + n, m >= len + n - WriteBufferSize,
           len > 0 /\ len + n <= WriteBufferSize => m = 0
    PROVE  /\ m \in Queue!MayGo(n)
           /\ (Queue!MayGo(n) = {0}) <=> (len > 0 /\ len + n <= WriteBufferSize)
<1>1. PICK w \in Nat, total \in Nat : w = WriteBufferSize /\ total = len + n /\ total > 0
    BY BufferAssumption
<1>2. (q = <<>>) <=> (len = 0)
    OBVIOUS
<1>3. PICK over \in Nat : over = IF total > w THEN total - w ELSE 0
    <2>1. (IF total > w THEN total - w ELSE 0) \in Nat
        BY <1>1
    <2>2. QED BY <2>1
<1>4. Queue!MayGo(n) = over..(IF q = <<>> \/ over > 0 THEN total ELSE 0)
    BY <1>1, <1>3 DEF Queue!MayGo
<1>5. CASE len > 0 /\ total <= w
    <2>1. over = 0 /\ q # <<>> /\ m = 0
        BY <1>1, <1>2, <1>3, <1>5
    <2>2. Queue!MayGo(n) = 0..0
        BY <1>4, <2>1
    <2>3. QED BY <1>1, <1>5, <2>1, <2>2
<1>6. CASE ~ (len > 0 /\ total <= w)
    <2>1. q = <<>> \/ over > 0
        BY <1>1, <1>2, <1>3, <1>6
    <2>2. Queue!MayGo(n) = over..total
        BY <1>4, <2>1
    <2>3. over <= m /\ m <= total /\ over <= total
        BY <1>1, <1>3
    <2>4. m \in over..total /\ total \in over..total
        BY <2>3
    <2>5. QED BY <1>1, <1>6, <2>2, <2>4
<1>7. QED BY <1>5, <1>6

LEMMA QueueInit ==
    ASSUME Init
    PROVE  Queue!Init
<1>1. ring.datalen = 0 /\ got = <<>> /\ written = 0 /\ armed = FALSE /\ failed = FALSE
    BY InitInv
<1>2. Contents = <<>>
    BY <1>1 DEF Contents, FirstBytes
<1>3. QED BY <1>1, <1>2 DEF Queue!Init

LEMMA QueueNext ==
    ASSUME Inv, [Next]_vars
    PROVE  [Queue!Next]_<<written, Contents, got, armed, failed>>
<1>1. CASE SockBufferedWrite
    <2>1. PICK n \in 1..MaxWrite, m \in Nat :
             /\ ~failed /\ written + n <= MaxBytes /\ failed' = failed
             /\ Move(n, m)
             /\ m >= ring.datalen + n - WriteBufferSize
             /\ IF ring.datalen > 0 /\ ring.datalen + n <= WriteBufferSize
                  THEN m = 0 /\ armed' = armed
                  ELSE armed' = (ring'.datalen > 0)
        BY <1>1, Writing
    <2>2. n \in Nat \ {0}
        BY BufferAssumption
    <2>3. PICK q : q = Contents
        OBVIOUS
    <2>4. PICK len \in Nat : len = ring.datalen
        BY <2>1, Contains
    <2>5. Run(q, Len(got)) /\ Len(q) = len /\ q \in Seq(Nat) /\ written = Len(got) + len
          /\ written \in Nat /\ Len(got) \in Nat
        BY <2>1, <2>3, <2>4, Contains DEF Run
    <2>6. PICK new : new = New(n)
        OBVIOUS
    <2>7. Run(new, Len(got) + Len(q)) /\ Len(new) = n
        BY <2>2, <2>5, <2>6, NewRun
    <2>8. PICK all : all = q \o new
        OBVIOUS
    <2>9. Run(all, Len(got)) /\ Len(all) = ring.datalen + n
        BY <2>3, <2>4, <2>5, <2>7, <2>8, RunsJoin
    <2>10. Queue!Sends(all, m) /\ m <= len + n /\ Len(Contents') = ring'.datalen
        BY <2>1, <2>2, <2>3, <2>4, <2>9, QueueSends
    <2>11. /\ m \in Queue!MayGo(n)
           /\ (Queue!MayGo(n) = {0}) <=> (len > 0 /\ len + n <= WriteBufferSize)
        BY <2>1, <2>2, <2>3, <2>4, <2>5, <2>10, MayGo
    <2>12. Queue!New(n) = New(n)
        BY DEF Queue!New, New
    <2>13. Queue!Sends(Contents \o Queue!New(n), m)
        BY <2>3, <2>4, <2>6, <2>8, <2>10, <2>12
    <2>14. (ring'.datalen > 0) = (Contents' # <<>>)
        <3>1. Holds(ring', Len(got')) /\ Len(got') \in Nat
            BY <2>1 DEF Move, Run
        <3>2. ring'.datalen \in Nat
            BY <3>1, Shape DEF Holds
        <3>3. Contents' \in Seq(Nat)
            <4>1. ring'.datalen \in 0..ring'.datalen
                BY <3>2
            <4>2. QED BY <3>1, <4>1, Reading DEF Contents, Run
        <3>4. QED BY <2>10, <3>2, <3>3
    <2>15. armed' = IF Queue!MayGo(n) = {0} THEN armed ELSE Contents' # <<>>
        <3>1. CASE len > 0 /\ len + n <= WriteBufferSize
            BY <2>1, <2>3, <2>4, <2>11, <3>1
        <3>2. CASE ~ (len > 0 /\ len + n <= WriteBufferSize)
            <4>1. armed' = (ring'.datalen > 0)
                BY <2>1, <2>3, <2>4, <3>2
            <4>2. Queue!MayGo(n) # {0}
                BY <2>11, <3>2
            <4>3. QED BY <2>14, <4>1, <4>2, Zenon
        <3>3. QED BY <3>1, <3>2
    <2>16. written' = written + n
        BY <2>1 DEF Move
    <2>17. Queue!Write
        BY <2>1, <2>11, <2>13, <2>15, <2>16 DEF Queue!Write
    <2>18. QED BY <2>17 DEF Queue!Next
<1>2. CASE SockWriteMore
    <2>1. ~failed /\ armed /\ failed' = failed
        BY <1>2, WritingMore
    <2>2. PICK m \in Nat : m <= ring.datalen /\ Move(0, m) /\ armed' = (ring'.datalen > 0)
        BY <1>2, WritingMore
    <2>3. /\ Run(Contents, Len(got)) /\ Len(Contents) = ring.datalen /\ ring.datalen \in Nat
          /\ written \in Nat
        BY <2>1, Contains
    <2>4. PICK q : q = Contents
        OBVIOUS
    <2>5. Run(q, Len(got)) /\ Len(q) = ring.datalen + 0
        BY <2>3, <2>4
    <2>6. Queue!Sends(q, m) /\ Len(Contents') = ring'.datalen
        BY <2>1, <2>2, <2>5, QueueSends
    <2>7. written' = written
        <3>1. written' = written + 0
            BY <2>2 DEF Move
        <3>2. QED BY <2>3, <3>1
    <2>8. (ring'.datalen > 0) = (Contents' # <<>>)
        <3>1. Holds(ring', Len(got')) /\ Len(got') \in Nat
            BY <2>2 DEF Move, Run
        <3>2. ring'.datalen \in Nat
            BY <3>1, Shape DEF Holds
        <3>3. Contents' \in Seq(Nat)
            <4>1. ring'.datalen \in 0..ring'.datalen
                BY <3>2
            <4>2. QED BY <3>1, <4>1, Reading DEF Contents, Run
        <3>4. QED BY <2>6, <3>2, <3>3
    <2>9. armed' = (Contents' # <<>>)
        BY <2>2, <2>8, Zenon
    <2>10. m \in 0..Len(Contents)
        BY <2>2, <2>3
    <2>11. Queue!WriteMore
        BY <2>1, <2>4, <2>6, <2>7, <2>9, <2>10 DEF Queue!WriteMore
    <2>12. QED BY <2>11 DEF Queue!Next
<1>3. CASE SendFails
    <2>1. PICK n \in 0..MaxWrite :
             /\ written' = written + n
             /\ \E k \in 0..(ring.datalen + n) : got' = got \o SubSeq(Contents \o New(n), 1, k)
        BY <1>3 DEF SendFails, Contents
    <2>2. ~failed /\ failed' = TRUE /\ ring' = ring /\ armed' = armed
        BY <1>3 DEF SendFails
    <2>3. Len(Contents) = ring.datalen
        BY <2>2, Contains
    <2>4. Contents' = Contents
        BY <2>2 DEF Contents
    <2>5. Queue!New(n) = New(n)
        BY DEF Queue!New, New
    <2>6. \E k \in 0..(Len(Contents) + n) : got' = got \o SubSeq(Contents \o Queue!New(n), 1, k)
        BY <2>1, <2>3, <2>5
    <2>7. Queue!Fail
        BY <2>1, <2>2, <2>4, <2>6 DEF Queue!Fail
    <2>8. QED BY <2>7 DEF Queue!Next
<1>4. CASE UNCHANGED vars
    BY <1>4 DEF vars, Queue!vars, Contents
<1>5. QED BY <1>1, <1>2, <1>3, <1>4 DEF Next

\* The ring buffer of util.c is the queue fwd.c takes it for: what SshChannel
\* assumes of it is what it does, whatever its size.
THEOREM Implements == Spec => ImplementsQueue
<1>1. Init => Queue!Init
    BY QueueInit
<1>2. Inv /\ [Next]_vars => [Queue!Next]_<<written, Contents, got, armed, failed>>
    BY QueueNext
<1>3. QED BY <1>1, <1>2, Invariance, PTL DEF Spec, ImplementsQueue, Queue!Spec, Queue!vars

-----------------------------------------------------------------------------
(* The tables: entries, requests that count theirs, and what the server and   *)
(* the slots know of a connection.                                          *)

SrvType ==
    [st : {"none", "asked", "open", "failed", "closed"}, peer : Slots \cup {None},
     confirms : Nat, failures : Nat, eofs : Nat]
Thread == [handle : Nat, request : Requests, done : BOOLEAN]

\* Every request q counts the FWDChannels of f that are for it.
Users(f, r) == {n \in Nums : f[n].request = r}
Tabled(q, f) ==
    /\ q \in [Requests -> RequestType] /\ f \in [Nums -> FwdType]
    /\ \A r \in Requests : q[r].num_channels = Cardinality(Users(f, r))

\* An FWDChannel: in use for a connection that was not refused, or free.  What waits
\* for its host's name has a request with a lookup, as long as the user keeps it.
Waits(q, e) ==
    e.status = {"REMOTE_CONNECTED"} /\ e.sock = None =>
       /\ e.request \in Requests
       /\ ~q[e.request].deleted => q[e.request].lookup # 0
Live(s, nc, e) ==
    e.conn # 0 =>
       /\ e.status # {} /\ e.conn \in 1..nc
       /\ s[e.conn].failures = 0
       /\ s[e.conn].st = "none" => "LOCAL_CONNECTED" \in e.status
EntryOK(q, s, nc, e) ==
    /\ e.conn # 0 <=> e.request # None
    /\ e.status = {} => e.sock = None
    /\ Live(s, nc, e) /\ Waits(q, e)
Entered(q, f, s, nc) ==
    /\ \A n \in Nums : EntryOK(q, s, nc, f[n])
    /\ \A n, p \in Nums : f[n].conn # 0 /\ f[p].conn = f[n].conn => p = n

\* The server has heard nothing of a connection that is still to come, and no refusal twice.
Fresh(e) == e.st = "none" /\ e.failures = 0 /\ e.peer = None
Served(s, nc) ==
    /\ s \in [1..MaxConns -> SrvType] /\ nc \in 0..MaxConns
    /\ \A k \in 1..MaxConns :
         s[k].failures <= 1 /\ (k > nc => Fresh(s[k]))

\* A lookup is on its way, and is one request's.
Coming(h, res, w) ==
    \/ \E t \in res : t.handle = h
    \/ \E m \in w : m.type = "GOTNAME" /\ m.id = h
Looked(q, nc, res, w) ==
    /\ res \subseteq Thread
    /\ \A r \in Requests :
         /\ q[r].lookup <= nc
         /\ ~q[r].deleted /\ q[r].lookup # 0 => Coming(q[r].lookup, res, w)
         /\ \A p \in Requests : q[r].lookup # 0 /\ q[p].lookup = q[r].lookup => p = r

\* A slot that the server answers to is the connection's own.
OwnSlot(c, k, i) ==
    i \in Slots /\ c[i].used /\ c[i].forward /\ c[i].conn = k /\ c[i].local_num \in Nums
Peered(c, s) ==
    /\ c \in [Slots -> SlotType]
    /\ \A k \in 1..MaxConns :
         /\ s[k].st = "open" => OwnSlot(c, k, s[k].peer)
         /\ s[k].st = "asked" /\ s[k].peer # None => OwnSlot(c, k, s[k].peer)
    /\ \A i \in Slots :
         /\ c[i].remote \in 1..MaxConns => c[i].used /\ c[i].forward /\ c[i].conn = c[i].remote
         /\ ~c[i].used => c[i] = FreeSlot

Bounded(ns, ed, su) == ns \in 0..MaxSocks /\ ed \in 0..su.edits /\ su \in Setups
Asked(q, su) == \A r \in Requests : q[r].spec \in su.specs

TableInv ==
    /\ Tabled(requests, fwd) /\ Entered(requests, fwd, srv, nconn)
    /\ Served(srv, nconn) /\ Looked(requests, nconn, resolving, wm)
    /\ Peered(channels, srv)
    /\ Bounded(nsock, edits, setup) /\ Asked(requests, setup)

-----------------------------------------------------------------------------
(* Numbers and counts.                                                      *)

LEMMA LeastIs ==
    ASSUME NEW S \in SUBSET Nat, S # {}
    PROVE  Least(S) \in S /\ \A y \in S : Least(S) <= y
<1> DEFINE less == {p \in Nat \X Nat : p[1] < p[2]}
<1>1. IsWellFoundedOn(less, Nat)
    BY NatLessThanWellFounded DEF OpToRel
<1>2. PICK x \in S : \A y \in S : ~ (<<y, x>> \in less)
    BY <1>1, WFMin
<1>3. ASSUME NEW y \in S PROVE x <= y
    <2>1. x \in Nat /\ y \in Nat /\ ~ (<<y, x>> \in less)
        BY <1>2
    <2>2. y < x => <<y, x>> \in less
        BY <2>1
    <2> QED BY <2>1, <2>2
<1> HIDE DEF less
<1> QED BY <1>3 DEF Least

LEMMA Numbers ==
    /\ Nums \in SUBSET Nat /\ IsFiniteSet(Nums)
    /\ Slots \in SUBSET Nat /\ 0 \in Slots
    /\ Requests \in SUBSET Nat /\ None \notin Nat
<1>1. FwdMax \in Nat \ {0} /\ ChannelMax \in Nat \ {0} /\ Requests \subseteq Nat
    BY TableAssumption
<1>2. IsFiniteSet(0..(FwdMax - 1))
    BY <1>1, FS_Interval
<1> QED BY <1>1, <1>2 DEF Nums, Slots, None

LEMMA UsersFinite ==
    ASSUME NEW f, NEW r
    PROVE  Users(f, r) \in SUBSET Nums /\ IsFiniteSet(Users(f, r)) /\ Cardinality(Users(f, r)) \in Nat
<1>1. Users(f, r) \in SUBSET Nums
    BY DEF Users
<1> QED BY <1>1, Numbers, FS_Subset, FS_CardinalityType

\* An FWDChannel that was nobody's is now for the request r.
LEMMA Taken ==
    ASSUME NEW q, NEW f, Tabled(q, f), NEW n \in Nums, f[n].request = None,
           NEW r \in Requests, NEW e \in FwdType, e.request = r
    PROVE  Tabled([q EXCEPT ![r].num_channels = @ + 1], [f EXCEPT ![n] = e])
<1> DEFINE p == [q EXCEPT ![r].num_channels = @ + 1]
           g == [f EXCEPT ![n] = e]
<1>1. q \in [Requests -> RequestType] /\ f \in [Nums -> FwdType]
    BY DEF Tabled
<1>2. g \in [Nums -> FwdType]
    BY <1>1
<1>3. ASSUME NEW t \in Requests
      PROVE  p[t] \in RequestType /\ p[t].num_channels = Cardinality(Users(g, t))
    <2>1. t # None /\ Users(f, t) \in SUBSET Nums /\ IsFiniteSet(Users(f, t))
        BY UsersFinite, Numbers
    <2>2. q[t] \in RequestType /\ q[t].num_channels = Cardinality(Users(f, t))
        BY <1>1 DEF Tabled
    <2>3. CASE t = r
        <3>1. Users(g, t) = Users(f, t) \cup {n} /\ n \notin Users(f, t)
            BY <1>1, <2>1, <2>3 DEF Users
        <3>2. Cardinality(Users(g, t)) = Cardinality(Users(f, t)) + 1
            BY <2>1, <3>1, FS_AddElement
        <3>3. p[t] = [q[t] EXCEPT !.num_channels = @ + 1]
            BY <1>1, <2>3
        <3> QED BY <2>2, <3>2, <3>3 DEF RequestType
    <2>4. CASE t # r
        <3>1. Users(g, t) = Users(f, t)
            BY <1>1, <2>1, <2>4 DEF Users
        <3> QED BY <1>1, <2>2, <2>4, <3>1
    <2> QED BY <2>3, <2>4
<1>4. p \in [Requests -> RequestType]
    BY <1>1, <1>3
<1> QED BY <1>2, <1>3, <1>4 DEF Tabled

\* The FWDChannels of N are given back (FWD_free_channel).
LEMMA GivenBack ==
    ASSUME NEW q, NEW f, Tabled(q, f), NEW N \in SUBSET Nums
    PROVE  Tabled(Released(q, f, N), Freed(f, N))
<1> DEFINE p == Released(q, f, N)
           g == Freed(f, N)
<1>1. q \in [Requests -> RequestType] /\ f \in [Nums -> FwdType]
    BY DEF Tabled
<1>2. FreeFwdEntry \in FwdType
    BY TableAssumption DEF FreeFwdEntry, FwdType
<1>3. g \in [Nums -> FwdType] /\ \A n \in Nums : g[n] = IF n \in N THEN FreeFwdEntry ELSE f[n]
    BY <1>1, <1>2 DEF Freed
<1>4. ASSUME NEW t \in Requests
      PROVE  p[t] \in RequestType /\ p[t].num_channels = Cardinality(Users(g, t))
    <2> DEFINE gone == {n \in N : f[n].request = t}
    <2>1. t # None /\ IsFiniteSet(Users(f, t)) /\ Cardinality(Users(f, t)) \in Nat
        BY UsersFinite, Numbers
    <2>2. q[t] \in RequestType /\ q[t].num_channels = Cardinality(Users(f, t))
        BY <1>1 DEF Tabled
    <2>3. Users(g, t) \cup gone = Users(f, t) /\ Users(g, t) \cap gone = {}
        BY <1>3, <2>1 DEF Users, FreeFwdEntry
    <2>4. IsFiniteSet(Users(g, t)) /\ IsFiniteSet(gone)
        BY <2>1, <2>3, FS_Subset
    <2>5. /\ Cardinality(Users(f, t)) = Cardinality(Users(g, t)) + Cardinality(gone) - Cardinality({})
          /\ Cardinality({}) = 0
        BY <2>3, <2>4, FS_Union, FS_EmptySet
    <2>6. Cardinality(Users(g, t)) \in Nat /\ Cardinality(gone) \in Nat
        BY <2>4, FS_CardinalityType
    <2>7. ReleasedBy(f, N, t) = Cardinality(gone)
        BY DEF ReleasedBy
    <2> HIDE DEF gone, g
    <2>8. q[t].num_channels - ReleasedBy(f, N, t) = Cardinality(Users(g, t))
        BY <2>2, <2>5, <2>6, <2>7
    <2>9. PICK h \in {0, q[t].lookup} :
             p[t] = [q[t] EXCEPT !.num_channels = q[t].num_channels - ReleasedBy(f, N, t), !.lookup = h]
        <3> DEFINE left == q[t].num_channels - ReleasedBy(f, N, t)
        <3>1. p[t] = [q[t] EXCEPT !.num_channels = left,
                         !.lookup = IF left = 0 /\ q[t].deleted /\ ReleasedBy(f, N, t) > 0 THEN 0 ELSE @]
            BY DEF Released
        <3>2. CASE left = 0 /\ q[t].deleted /\ ReleasedBy(f, N, t) > 0
            BY <3>1, <3>2
        <3>3. CASE ~(left = 0 /\ q[t].deleted /\ ReleasedBy(f, N, t) > 0)
            BY <3>1, <3>3, <2>2 DEF RequestType
        <3> QED BY <3>2, <3>3
    <2>10. q[t].lookup \in 0..MaxConns /\ MaxConns \in Nat
        BY <2>2, TableAssumption DEF RequestType
    <2> HIDE DEF p
    <2>11. PICK c \in Nat : c = Cardinality(Users(g, t))
        BY <2>6
    <2>12. p[t] = [q[t] EXCEPT !.num_channels = c, !.lookup = h]
        BY <2>8, <2>9, <2>11
    <2>13. h \in 0..MaxConns
        BY <2>9, <2>10
    <2>14. p[t] \in RequestType /\ p[t].num_channels = c
        BY <2>2, <2>11, <2>12, <2>13 DEF RequestType
    <2> QED BY <2>11, <2>14
<1>5. p \in [Requests -> RequestType]
    BY <1>4 DEF Released
<1> HIDE DEF p, g
<1> QED BY <1>3, <1>4, <1>5 DEF Tabled, p, g

\* Nothing is taken or given back.
LEMMA SameUsers ==
    ASSUME NEW q, NEW f, Tabled(q, f), NEW g \in [Nums -> FwdType],
           \A n \in Nums : g[n].request = f[n].request
    PROVE  Tabled(q, g)
<1>1. \A r \in Requests : Users(g, r) = Users(f, r)
    BY DEF Users
<1> QED BY <1>1 DEF Tabled

LEMMA SameCounts ==
    ASSUME NEW q, NEW f, Tabled(q, f), NEW p \in [Requests -> RequestType],
           \A r \in Requests : p[r].num_channels = q[r].num_channels
    PROVE  Tabled(p, f)
BY DEF Tabled

-----------------------------------------------------------------------------
(* The FWDChannels.                                                         *)

\* A request that is in use and kept is still kept, and keeps its lookup.
Keeps(q, p, f) ==
    \A r \in Requests :
       Users(f, r) # {} /\ ~p[r].deleted =>
          ~q[r].deleted /\ (q[r].lookup # 0 => p[r].lookup # 0)
\* The server's view of a connection has lost no refusal and no question.
Follows(s, t, K) ==
    \A k \in K \ {0} : t[k].failures = s[k].failures /\ (t[k].st = "none" => s[k].st = "none")

LEMMA EntryKept ==
    ASSUME NEW q, NEW p, NEW f, NEW s, NEW t, NEW nc \in Nat, NEW nd \in Nat, nc <= nd,
           NEW n \in Nums, EntryOK(q, s, nc, f[n]), Keeps(q, p, f),
           Follows(s, t, {f[n].conn})
    PROVE  EntryOK(p, t, nd, f[n])
<1> DEFINE e == f[n]
<1>1. Live(t, nd, e)
    BY DEF EntryOK, Live, Follows
<1>2. Waits(p, e)
    <2> SUFFICES ASSUME e.status = {"REMOTE_CONNECTED"}, e.sock = None
                 PROVE  e.request \in Requests /\ (~p[e.request].deleted => p[e.request].lookup # 0)
        BY DEF Waits
    <2>1. e.request \in Requests /\ (~q[e.request].deleted => q[e.request].lookup # 0)
        BY DEF EntryOK, Waits
    <2>2. n \in Users(f, e.request)
        BY DEF Users
    <2> QED BY <2>1, <2>2 DEF Keeps
<1> QED BY <1>1, <1>2 DEF EntryOK

LEMMA EntriesKept ==
    ASSUME NEW q, NEW p, NEW f, NEW s, NEW t, NEW nc \in Nat, NEW nd \in Nat, nc <= nd,
           Entered(q, f, s, nc), Keeps(q, p, f), Follows(s, t, {f[n].conn : n \in Nums})
    PROVE  Entered(p, f, t, nd)
<1>1. ASSUME NEW n \in Nums PROVE EntryOK(p, t, nd, f[n])
    <2>1. EntryOK(q, s, nc, f[n]) /\ Follows(s, t, {f[n].conn})
        BY DEF Entered, Follows
    <2> QED BY <2>1, EntryKept
<1> QED BY <1>1 DEF Entered

\* One entry is another's, or has changed.
LEMMA EntryPut ==
    ASSUME NEW q, NEW f \in [Nums -> FwdType], NEW s, NEW nc, Entered(q, f, s, nc),
           NEW n \in Nums, NEW e, EntryOK(q, s, nc, e),
           \A m \in Nums : m # n /\ e.conn # 0 => f[m].conn # e.conn
    PROVE  Entered(q, [f EXCEPT ![n] = e], s, nc)
<1> DEFINE g == [f EXCEPT ![n] = e]
<1>1. \A m \in Nums : g[m] = IF m = n THEN e ELSE f[m]
    OBVIOUS
<1> HIDE DEF g
<1>2. \A m \in Nums : EntryOK(q, s, nc, g[m])
    BY <1>1 DEF Entered
<1>3. ASSUME NEW m \in Nums, NEW l \in Nums, g[m].conn # 0, g[l].conn = g[m].conn PROVE l = m
    BY <1>1, <1>3 DEF Entered
<1>4. Entered(q, g, s, nc)
    BY <1>2, <1>3 DEF Entered
<1> QED BY <1>4 DEF g

LEMMA FreeOK ==
    ASSUME NEW q, NEW s, NEW nc
    PROVE  EntryOK(q, s, nc, FreeFwdEntry)
BY DEF EntryOK, Live, Waits, FreeFwdEntry, None

\* The requests whose FWDChannels are given back keep what the others need.
LEMMA ReleasedIs ==
    ASSUME NEW q, NEW f, Tabled(q, f), NEW N, NEW r \in Requests
    PROVE  /\ Released(q, f, N)[r].deleted = q[r].deleted /\ Released(q, f, N)[r].spec = q[r].spec
           /\ \/ Released(q, f, N)[r].lookup = q[r].lookup
              \/ Released(q, f, N)[r].lookup = 0 /\ q[r].deleted
<1> DEFINE p == Released(q, f, N)
           left == q[r].num_channels - ReleasedBy(f, N, r)
           over == left = 0 /\ q[r].deleted /\ ReleasedBy(f, N, r) > 0
<1>1. q[r] \in RequestType
    BY DEF Tabled
<1>2. p[r] = [q[r] EXCEPT !.num_channels = left, !.lookup = IF over THEN 0 ELSE @]
    BY DEF Released
<1>3. over => q[r].deleted
    OBVIOUS
<1> HIDE DEF p, left, over
<1>4. p[r].deleted = q[r].deleted /\ p[r].spec = q[r].spec
      /\ (p[r].lookup = q[r].lookup \/ (p[r].lookup = 0 /\ q[r].deleted))
    BY <1>1, <1>2, <1>3 DEF RequestType
<1> QED BY <1>4 DEF p

LEMMA ReleasedKeeps ==
    ASSUME NEW q, NEW f, Tabled(q, f), NEW N, NEW g
    PROVE  Keeps(q, Released(q, f, N), g)
<1>1. \A r \in Requests :
         /\ Released(q, f, N)[r].deleted = q[r].deleted
         /\ \/ Released(q, f, N)[r].lookup = q[r].lookup
            \/ Released(q, f, N)[r].lookup = 0 /\ q[r].deleted
    BY ReleasedIs
<1> QED BY <1>1 DEF Keeps

\* FWDChannels that are given back leave the others as they were; the server may be told.
LEMMA EntriesFreed ==
    ASSUME NEW q, NEW f, NEW s, NEW nc \in Nat, Tabled(q, f), Entered(q, f, s, nc),
           NEW N \in SUBSET Nums, NEW t,
           Follows(s, t, {f[n].conn : n \in Nums \ N})
    PROVE  Entered(Released(q, f, N), Freed(f, N), t, nc)
<1> DEFINE p == Released(q, f, N)
           g == Freed(f, N)
<1>1. \A n \in Nums : g[n] = IF n \in N THEN FreeFwdEntry ELSE f[n]
    BY DEF Freed
<1>2. Keeps(q, p, f)
    BY ReleasedKeeps
<1> HIDE DEF p, g
<1>3. ASSUME NEW n \in Nums PROVE EntryOK(p, t, nc, g[n])
    <2>1. CASE n \in N
        BY <1>1, <2>1, FreeOK
    <2>2. CASE n \notin N
        <3>1. EntryOK(q, s, nc, f[n]) /\ Follows(s, t, {f[n].conn})
            BY <2>2 DEF Entered, Follows
        <3>2. EntryOK(p, t, nc, f[n])
            BY <3>1, <1>2, EntryKept
        <3> QED BY <1>1, <2>2, <3>2
    <2> QED BY <2>1, <2>2
<1>4. ASSUME NEW n \in Nums, NEW m \in Nums, g[n].conn # 0, g[m].conn = g[n].conn PROVE m = n
    <2>1. n \notin N /\ m \notin N
        BY <1>1, <1>4 DEF FreeFwdEntry
    <2> QED BY <1>1, <1>4, <2>1 DEF Entered
<1>5. Entered(p, g, t, nc)
    BY <1>3, <1>4 DEF Entered
<1> QED BY <1>5 DEF p, g

-----------------------------------------------------------------------------
(* What the server has been told.                                           *)

LEMMA FailedIs ==
    ASSUME NEW s, NEW nc, Served(s, nc), NEW K, NEW t, t = Failed(s, K)
    PROVE  /\ t \in [1..MaxConns -> SrvType]
           /\ \A k \in 1..MaxConns :
                /\ t[k].failures = IF k \in K THEN s[k].failures + 1 ELSE s[k].failures
                /\ t[k].peer = s[k].peer
                /\ t[k].st = s[k].st \/ (s[k].st = "asked" /\ t[k].st = "failed")
<1>1. s \in [1..MaxConns -> SrvType]
    BY DEF Served
<1>2. ASSUME NEW k \in 1..MaxConns
      PROVE  /\ t[k] \in SrvType
             /\ t[k].failures = IF k \in K THEN s[k].failures + 1 ELSE s[k].failures
             /\ t[k].peer = s[k].peer
             /\ t[k].st = s[k].st \/ (s[k].st = "asked" /\ t[k].st = "failed")
    <2>1. s[k] \in SrvType
        BY <1>1
    <2>2. CASE k \notin K
        BY <1>1, <2>1, <2>2 DEF Failed
    <2>3. CASE k \in K
        <3>1. t[k] = [s[k] EXCEPT !.failures = @ + 1, !.st = IF @ = "asked" THEN "failed" ELSE @]
            BY <1>1, <2>3 DEF Failed
        <3>2. PICK c \in Nat : c = s[k].failures + 1
            BY <2>1 DEF SrvType
        <3>3. CASE s[k].st = "asked"
            <4>1. t[k] = [s[k] EXCEPT !.failures = c, !.st = "failed"]
                BY <3>1, <3>2, <3>3, <2>1 DEF SrvType
            <4> QED BY <4>1, <3>2, <3>3, <2>1, <2>3 DEF SrvType
        <3>4. CASE s[k].st # "asked"
            <4>1. t[k] = [s[k] EXCEPT !.failures = c]
                BY <3>1, <3>2, <3>4, <2>1 DEF SrvType
            <4> QED BY <4>1, <3>2, <3>4, <2>1, <2>3 DEF SrvType
        <3> QED BY <3>3, <3>4
    <2> QED BY <2>2, <2>3
<1>3. t \in [1..MaxConns -> SrvType]
    BY <1>1, <1>2 DEF Failed
<1> QED BY <1>2, <1>3

LEMMA ServedFailed ==
    ASSUME NEW s, NEW nc, Served(s, nc), NEW K,
           \A k \in K \cap (1..MaxConns) : s[k].failures = 0 /\ k <= nc
    PROVE  Served(Failed(s, K), nc)
<1> DEFINE t == Failed(s, K)
<1>1. /\ t \in [1..MaxConns -> SrvType]
      /\ \A k \in 1..MaxConns :
           /\ t[k].failures = IF k \in K THEN s[k].failures + 1 ELSE s[k].failures
           /\ t[k].peer = s[k].peer
           /\ t[k].st = s[k].st \/ (s[k].st = "asked" /\ t[k].st = "failed")
    BY FailedIs
<1> HIDE DEF t
<1>2. nc \in 0..MaxConns /\ MaxConns \in Nat
    BY TableAssumption DEF Served
<1>3. ASSUME NEW k \in 1..MaxConns
      PROVE  t[k].failures <= 1 /\ (k > nc => Fresh(t[k]))
    <2>1. /\ s[k].failures <= 1 /\ (k > nc => Fresh(s[k]))
          /\ k \in K => s[k].failures = 0 /\ k <= nc
        BY DEF Served
    <2>2. t[k].failures = (IF k \in K THEN s[k].failures + 1 ELSE s[k].failures)
        BY <1>1
    <2>3. k > nc => k \notin K
        BY <1>2, <2>1
    <2> QED BY <1>1, <2>1, <2>2, <2>3 DEF Fresh
<1>4. Served(t, nc)
    BY <1>1, <1>2, <1>3 DEF Served
<1> QED BY <1>4 DEF t

LEMMA PeeredFailed ==
    ASSUME NEW s, NEW nc, Served(s, nc), NEW K, NEW c, Peered(c, s)
    PROVE  Peered(c, Failed(s, K))
<1> DEFINE t == Failed(s, K)
<1>1. \A k \in 1..MaxConns :
           /\ t[k].peer = s[k].peer
           /\ t[k].st = s[k].st \/ (s[k].st = "asked" /\ t[k].st = "failed")
    BY FailedIs
<1> HIDE DEF t
<1>2. Peered(c, t)
    BY <1>1 DEF Peered
<1> QED BY <1>2 DEF t

\* One connection is asked for, answered or ended.
LEMMA ServedPut ==
    ASSUME NEW s, NEW nc, Served(s, nc), NEW k \in 1..MaxConns, k <= nc,
           NEW e \in SrvType, e.failures <= 1
    PROVE  Served([s EXCEPT ![k] = e], nc)
<1>1. s \in [1..MaxConns -> SrvType] /\ nc \in 0..MaxConns /\ MaxConns \in Nat
    BY TableAssumption DEF Served
<1> QED BY <1>1 DEF Served

LEMMA ServedMore ==
    ASSUME NEW s, NEW nc, Served(s, nc), nc < MaxConns
    PROVE  Served(s, nc + 1) /\ nc + 1 \in 1..MaxConns /\ Fresh(s[nc + 1]) /\ nc \in Nat
<1>1. nc \in 0..MaxConns /\ MaxConns \in Nat
    BY TableAssumption DEF Served
<1>2. nc + 1 \in 1..MaxConns /\ nc + 1 > nc /\ nc \in Nat
    BY <1>1
<1> QED BY <1>1, <1>2 DEF Served

-----------------------------------------------------------------------------
(* Lookups.                                                                 *)

LEMMA LookupsKept ==
    ASSUME NEW q, NEW p, NEW nc \in Nat, NEW nd \in Nat, nc <= nd, NEW res, NEW rest, NEW w, NEW u,
           Looked(q, nc, res, w), q \in [Requests -> RequestType],
           \A r \in Requests :
              p[r].lookup = 0 \/ (p[r].lookup = q[r].lookup /\ (q[r].deleted => p[r].deleted)),
           rest \subseteq Thread,
           \A r \in Requests :
              p[r].lookup # 0 /\ ~p[r].deleted /\ Coming(p[r].lookup, res, w) => Coming(p[r].lookup, rest, u)
    PROVE  Looked(p, nd, rest, u)
<1>1. ASSUME NEW r \in Requests
      PROVE  /\ p[r].lookup <= nd
             /\ ~p[r].deleted /\ p[r].lookup # 0 => Coming(p[r].lookup, rest, u)
             /\ \A l \in Requests : p[r].lookup # 0 /\ p[l].lookup = p[r].lookup => l = r
    <2>1. q[r].lookup \in Nat /\ q[r].lookup <= nc
        BY DEF Looked, RequestType
    <2> QED BY <2>1 DEF Looked
<1> QED BY <1>1 DEF Looked

\* A thread, its message and a socket that is closed leave the other lookups alone.
LEMMA DrainedKeeps ==
    ASSUME NEW S
    PROVE  \A h : Coming(h, resolving, wm) => Coming(h, resolving, Drained(S))
BY DEF Drained, Coming

-----------------------------------------------------------------------------
(* Slots.                                                                   *)

LEMMA SlotFree ==
    ASSUME FreeSlots # {}
    PROVE  NewSlot \in Slots /\ ~channels[NewSlot].used
<1>1. FreeSlots \in SUBSET Nat
    BY Numbers DEF FreeSlots
<1>2. NewSlot \in FreeSlots
    BY <1>1, LeastIs DEF NewSlot
<1> QED BY <1>2 DEF FreeSlots

LEMMA EntryFree ==
    ASSUME NEW n, Allocated(n)
    PROVE  n \in Nums /\ fwd[n].status = {} /\ \A m \in Nums : m < n => fwd[m].status # {}
<1>1. FreeNums \in SUBSET Nat /\ FreeNums # {}
    BY Numbers DEF FreeNums, Allocated
<1>2. n \in FreeNums /\ \A m \in FreeNums : n <= m
    BY <1>1, LeastIs DEF Allocated
<1>3. \A m \in Nums : m < n => ~(n <= m)
    BY <1>1, <1>2, Numbers DEF FreeNums
<1> QED BY <1>2, <1>3 DEF FreeNums

\* A slot that was free is registered for a connection.
Turns(s, t, k, i, n) ==
    /\ \A j \in 1..MaxConns : j # k => t[j].st = s[j].st /\ t[j].peer = s[j].peer
    /\ t[k].st \in {"asked", "failed"}
    /\ t[k].st = "asked" => t[k].peer = None \/ (t[k].peer = i /\ n # None)
SlotFor(n, m, k) ==
    [used |-> TRUE, forward |-> TRUE, local_num |-> n, remote |-> m, conn |-> k]
LEMMA SlotTaken ==
    ASSUME NEW c, NEW s, Peered(c, s), NEW i \in Slots, ~c[i].used,
           NEW k \in 1..MaxConns, NEW n \in Nums \cup {None}, NEW m \in {None, k},
           NEW t, Turns(s, t, k, i, n),
           NEW d, d = [c EXCEPT ![i] = SlotFor(n, m, k)]
    PROVE  Peered(d, t)
<1> DEFINE e == SlotFor(n, m, k)
<1>1. c \in [Slots -> SlotType] /\ MaxConns \in Nat /\ k \in 0..MaxConns /\ None \notin Nat
    BY TableAssumption, Numbers DEF Peered
<1>2. e \in SlotType
    BY <1>1 DEF SlotType, SlotFor
<1>3. d \in [Slots -> SlotType] /\ \A j \in Slots : d[j] = IF j = i THEN e ELSE c[j]
    BY <1>1, <1>2
<1>4. e.used /\ e.forward /\ e.conn = k /\ e.local_num = n /\ e.remote = m
    BY DEF SlotFor
<1> HIDE DEF e
<1>5. ASSUME NEW j \in 1..MaxConns, t[j].st = "open" \/ (t[j].st = "asked" /\ t[j].peer # None)
      PROVE  OwnSlot(d, j, t[j].peer)
    <2>1. CASE j = k
        BY <1>3, <1>4, <1>5, <2>1 DEF OwnSlot, Turns
    <2>2. CASE j # k
        <3>1. OwnSlot(c, j, t[j].peer)
            BY <1>5, <2>2 DEF Peered, Turns
        <3> QED BY <3>1, <1>3 DEF OwnSlot
    <2> QED BY <2>1, <2>2
<1>6. ASSUME NEW j \in Slots
      PROVE  /\ d[j].remote \in 1..MaxConns => d[j].used /\ d[j].forward /\ d[j].conn = d[j].remote
             /\ ~d[j].used => d[j] = FreeSlot
    BY <1>1, <1>3, <1>4 DEF Peered
<1> QED BY <1>3, <1>5, <1>6 DEF Peered

\* A slot is freed that the server answers to no more.
Leaves(s, t, c, i) ==
    \A j \in 1..MaxConns :
       /\ \/ t[j].st = s[j].st /\ t[j].peer = s[j].peer
          \/ t[j].st \in {"failed", "closed"}
       /\ t[j].st \in {"asked", "open"} => ~OwnSlot(c, j, i)
LEMMA SlotFreed ==
    ASSUME NEW c, NEW s, Peered(c, s), NEW i \in Slots, NEW t, Leaves(s, t, c, i),
           NEW d, d = [c EXCEPT ![i] = FreeSlot]
    PROVE  Peered(d, t)
<1>1. c \in [Slots -> SlotType] /\ MaxConns \in Nat
    BY TableAssumption DEF Peered
<1>2. FreeSlot \in SlotType
    BY <1>1, TableAssumption DEF SlotType, FreeSlot, Nums
<1>3. d \in [Slots -> SlotType] /\ \A j \in Slots : d[j] = IF j = i THEN FreeSlot ELSE c[j]
    BY <1>1, <1>2
<1>4. FreeSlot.remote \notin 1..MaxConns
    BY DEF FreeSlot
<1>5. ASSUME NEW j \in 1..MaxConns, t[j].st = "open" \/ (t[j].st = "asked" /\ t[j].peer # None)
      PROVE  OwnSlot(d, j, t[j].peer)
    <2>1. OwnSlot(c, j, t[j].peer)
        BY <1>5 DEF Peered, Leaves
    <2>2. t[j].peer # i
        BY <1>5, <2>1 DEF Leaves
    <2> QED BY <2>1, <2>2, <1>3 DEF OwnSlot
<1> QED BY <1>3, <1>4, <1>5 DEF Peered

-----------------------------------------------------------------------------
(* The steps.                                                               *)

LEMMA Sorts ==
    ASSUME TableInv
    PROVE  /\ requests \in [Requests -> RequestType] /\ fwd \in [Nums -> FwdType]
           /\ channels \in [Slots -> SlotType] /\ srv \in [1..MaxConns -> SrvType]
           /\ nconn \in 0..MaxConns /\ nconn \in Nat /\ MaxConns \in Nat
           /\ nsock \in Nat /\ nsock \in 0..MaxSocks /\ MaxSocks \in Nat
           /\ resolving \subseteq Thread
           /\ setup \in Setups /\ setup.specs \subseteq Forward
<1>1. MaxConns \in Nat /\ MaxSocks \in Nat
    BY TableAssumption
<1>2. setup \in Setups /\ setup.specs \subseteq Forward
    BY TableAssumption DEF TableInv, Bounded, Setup
<1> QED BY <1>1, <1>2 DEF TableInv, Tabled, Peered, Served, Looked, Bounded

\* SSH_open_channel for an FWDChannel whose connection the server knows nothing of.
LEMMA Opening ==
    ASSUME NEW q, NEW f, NEW nc \in Nat, Tabled(q, f), Entered(q, f, srv, nc), Served(srv, nc),
           Peered(channels, srv), NEW n \in Nums, NEW k \in 1..MaxConns, k <= nc,
           f[n].conn = k, OpenChannel(q, f, n, k)
    PROVE  /\ Tabled(requests', fwd') /\ Entered(requests', fwd', srv', nc)
           /\ Served(srv', nc) /\ Peered(channels', srv')
           /\ \A r \in Requests :
                /\ requests'[r].deleted = q[r].deleted /\ requests'[r].spec = q[r].spec
                /\ requests'[r].lookup \in {0, q[r].lookup}
<1>1. CASE FreeSlots # {}
    <2> DEFINE i == NewSlot
               t == [srv EXCEPT ![k].st = "asked", ![k].peer = i]
    <2>1. /\ channels' = [channels EXCEPT ![i] = SlotFor(n, None, k)]
          /\ srv' = t /\ requests' = q /\ fwd' = f
        BY <1>1 DEF OpenChannel, SlotFor
    <2>2. i \in Slots /\ ~channels[i].used
        BY <1>1, SlotFree
    <2> HIDE DEF i
    <2>3. srv \in [1..MaxConns -> SrvType] /\ srv[k].failures <= 1
        BY DEF Served
    <2>4. t = [srv EXCEPT ![k] = [srv[k] EXCEPT !.st = "asked", !.peer = i]]
        BY <2>3
    <2>5. [srv[k] EXCEPT !.st = "asked", !.peer = i] \in SrvType
          /\ [srv[k] EXCEPT !.st = "asked", !.peer = i].failures <= 1
        BY <2>2, <2>3 DEF SrvType
    <2>6. Served(t, nc)
        <3>1. PICK e \in SrvType : e = [srv[k] EXCEPT !.st = "asked", !.peer = i] /\ e.failures <= 1
            BY <2>5
        <3>2. Served([srv EXCEPT ![k] = e], nc)
            BY <3>1, ServedPut
        <3> QED BY <2>4, <3>1, <3>2
    <2>7. /\ t[k].st = "asked" /\ t[k].peer = i /\ t[k].failures = srv[k].failures
          /\ \A j \in 1..MaxConns : j # k => t[j] = srv[j]
        BY <2>3 DEF SrvType
    <2> HIDE DEF t
    <2>8. Follows(srv, t, {f[m].conn : m \in Nums})
        <3>1. \A m \in Nums : f[m].conn # 0 => f[m].conn \in 1..MaxConns
            BY DEF Tabled, FwdType
        <3> QED BY <2>7, <3>1 DEF Follows
    <2>9. Keeps(q, q, f)
        BY DEF Keeps
    <2>10. Entered(q, f, t, nc)
        BY <2>8, <2>9, EntriesKept
    <2>11. n \in Nums \cup {None} /\ n # None /\ None \in {None, k}
        BY Numbers
    <2>12. Peered(channels', t)
        <3>1. Turns(srv, t, k, i, n)
            BY <2>7, <2>11 DEF Turns
        <3>2. PICK m \in {None, k} : m = None
            OBVIOUS
        <3>3. Peered(channels', t)
            <4>1. /\ Peered(channels, srv) /\ i \in Slots /\ ~channels[i].used /\ k \in 1..MaxConns
                  /\ n \in Nums \cup {None} /\ m \in {None, k}
                  /\ channels' = [channels EXCEPT ![i] = SlotFor(n, m, k)]
                BY <2>1, <2>2, <2>11, <3>2
            <4> QED BY <3>1, <4>1, SlotTaken
        <3> QED BY <3>3
    <2> QED BY <2>1, <2>6, <2>10, <2>12
<1>2. CASE FreeSlots = {}
    <2>1. requests' = Released(q, f, {n}) /\ fwd' = Freed(f, {n}) /\ srv' = srv /\ channels' = channels
        BY <1>2 DEF OpenChannel
    <2>2. Tabled(Released(q, f, {n}), Freed(f, {n}))
        BY GivenBack
    <2>3. Follows(srv, srv, {f[m].conn : m \in Nums \ {n}})
        BY DEF Follows
    <2>4. Entered(Released(q, f, {n}), Freed(f, {n}), srv, nc)
        BY <2>3, EntriesFreed
    <2>6. \A r \in Requests :
             /\ requests'[r].deleted = q[r].deleted /\ requests'[r].spec = q[r].spec
             /\ requests'[r].lookup \in {0, q[r].lookup}
        BY <2>1, ReleasedIs
    <2>7. Tabled(requests', fwd') /\ Entered(requests', fwd', srv', nc) /\ Served(srv', nc)
        BY <2>1, <2>2, <2>4
    <2>8. Peered(channels', srv')
        BY <2>1
    <2> QED BY <2>6, <2>7, <2>8
<1> QED BY <1>1, <1>2

LEMMA CountedIs ==
    ASSUME TableInv, NEW r \in Requests
    PROVE  /\ Counted(r) = [requests EXCEPT ![r].num_channels = @ + 1]
           /\ \A p \in Requests :
                /\ Counted(r)[p].deleted = requests[p].deleted /\ Counted(r)[p].lookup = requests[p].lookup
                /\ Counted(r)[p].spec = requests[p].spec /\ Counted(r)[p].addrs = requests[p].addrs
<1>1. requests \in [Requests -> RequestType]
    BY Sorts
<1> QED BY <1>1 DEF Counted, RequestType

\* The server is told of a new connection, or of its refusal as well; the connections
\* there were are not touched.
Others(t, k) == \A j \in 1..MaxConns : j # k => t[j] = srv[j]

LEMMA NewConn ==
    ASSUME TableInv, nconn < MaxConns, NEW k, k = nconn + 1
    PROVE  /\ k \in 1..MaxConns /\ k \in Nat /\ nconn \in Nat /\ nconn <= k /\ k # 0 /\ k \in 1..k
           /\ Served(srv, k) /\ Fresh(srv[k])
           /\ \A n \in Nums : fwd[n].conn # k
           /\ \A t : Others(t, k) => Follows(srv, t, {fwd[n].conn : n \in Nums})
<1>1. nconn \in Nat /\ nconn \in 0..MaxConns /\ MaxConns \in Nat /\ fwd \in [Nums -> FwdType]
    BY Sorts
<1>2. k \in 1..MaxConns /\ k \in Nat /\ nconn <= k /\ k # 0 /\ k \in 1..k
    BY <1>1
<1>3. Served(srv, k) /\ Fresh(srv[k])
    BY ServedMore DEF TableInv
<1>4. \A n \in Nums : fwd[n].conn # 0 => fwd[n].conn \in 1..nconn
    BY DEF TableInv, Entered, EntryOK, Live
<1>5. \A n \in Nums : fwd[n].conn # k /\ (fwd[n].conn # 0 => fwd[n].conn \in 1..MaxConns)
    BY <1>1, <1>2, <1>4
<1>6. ASSUME NEW t, Others(t, k) PROVE Follows(srv, t, {fwd[n].conn : n \in Nums})
    BY <1>5, <1>6 DEF Others, Follows
<1> QED BY <1>1, <1>2, <1>3, <1>5, <1>6

LEMMA RefusedIs ==
    ASSUME NEW s, NEW nc, Served(s, nc), NEW k \in 1..MaxConns, NEW t, t = Failed(s, {k})
    PROVE  /\ t[k].peer = s[k].peer
           /\ t[k].st = s[k].st \/ t[k].st = "failed"
<1>1. PICK K : K = {k}
    OBVIOUS
<1> QED BY <1>1, FailedIs

LEMMA AskedIs ==
    ASSUME TableInv, nconn < MaxConns, NEW k, k = nconn + 1,
           NEW s, s = [srv EXCEPT ![k].st = "asked"]
    PROVE  /\ Served(s, k) /\ Others(s, k)
           /\ s[k].st = "asked" /\ s[k].peer = None /\ s[k].failures = 0
<1>1. srv \in [1..MaxConns -> SrvType] /\ k \in 1..MaxConns /\ k \in Nat /\ k <= k
      /\ Served(srv, k) /\ Fresh(srv[k])
    BY NewConn, Sorts
<1>2. PICK e \in SrvType : /\ s = [srv EXCEPT ![k] = e] /\ e.st = "asked"
                           /\ e.peer = None /\ e.failures = 0 /\ e.failures <= 1
    <2> DEFINE e == [srv[k] EXCEPT !.st = "asked"]
    <2>1. s = [srv EXCEPT ![k] = e]
        BY <1>1
    <2>2. e \in SrvType /\ e.st = "asked" /\ e.peer = None /\ e.failures = 0
        BY <1>1 DEF SrvType, Fresh
    <2> HIDE DEF e
    <2>3. e.failures <= 1
        BY <2>2
    <2> QED BY <2>1, <2>2, <2>3
<1>3. Served(s, k)
    <2>1. Served([srv EXCEPT ![k] = e], k)
        BY <1>1, <1>2, ServedPut
    <2> QED BY <1>2, <2>1
<1>4. \A j \in 1..MaxConns : s[j] = IF j = k THEN e ELSE srv[j]
    BY <1>1, <1>2
<1> QED BY <1>1, <1>2, <1>3, <1>4 DEF Others

LEMMA Asking ==
    ASSUME NEW k \in 1..MaxConns, k \in Nat, NEW s, Served(s, k), Others(s, k),
           s[k].st = "asked", s[k].peer = None, s[k].failures = 0, NEW t, t = Failed(s, {k})
    PROVE  /\ Served(t, k) /\ Others(t, k)
           /\ t[k].st \in {"asked", "failed"} /\ t[k].peer = None
<1>1. Served(t, k)
    <2>1. \A j \in {k} \cap (1..MaxConns) : s[j].failures = 0 /\ j <= k
        OBVIOUS
    <2>2. Served(Failed(s, {k}), k)
        BY <2>1, ServedFailed
    <2> QED BY <2>2
<1>2. Others(t, k)
    <2>1. s \in [1..MaxConns -> SrvType]
        BY DEF Served
    <2> QED BY <2>1 DEF Failed, Others
<1>3. t[k].peer = s[k].peer /\ (t[k].st = s[k].st \/ t[k].st = "failed")
    BY RefusedIs
<1> QED BY <1>1, <1>2, <1>3

\* A request counts one FWDChannel more and may have a lookup more.
More(p, r, k) ==
    /\ p \in [Requests -> RequestType]
    /\ \A x \in Requests :
         /\ p[x].num_channels = Counted(r)[x].num_channels /\ p[x].deleted = requests[x].deleted
         /\ p[x].spec = requests[x].spec
         /\ p[x].lookup = requests[x].lookup \/ p[x].lookup = k

LEMMA Counting ==
    ASSUME TableInv, NEW n, Allocated(n), NEW r \in Requests, NEW e \in FwdType, e.request = r
    PROVE  /\ n \in Nums /\ fwd[n] = FreeFwdEntry /\ n \in Nums
           /\ Tabled(Counted(r), [fwd EXCEPT ![n] = e]) /\ \A k : More(Counted(r), r, k)
<1>1. n \in Nums /\ fwd[n].status = {} /\ fwd \in [Nums -> FwdType]
    BY EntryFree, Sorts
<1>2. EntryOK(requests, srv, nconn, fwd[n]) /\ fwd[n] \in FwdType
    BY <1>1 DEF TableInv, Entered
<1>3. fwd[n].conn = 0 /\ fwd[n].request = None /\ fwd[n].sock = None
    BY <1>1, <1>2 DEF EntryOK, Live
<1>4. fwd[n] = FreeFwdEntry
    BY <1>1, <1>2, <1>3 DEF FwdType, FreeFwdEntry
<1>5. Tabled(requests, fwd) /\ Counted(r) = [requests EXCEPT ![r].num_channels = @ + 1]
    BY CountedIs DEF TableInv
<1>6. Tabled([requests EXCEPT ![r].num_channels = @ + 1], [fwd EXCEPT ![n] = e])
    BY <1>1, <1>3, <1>5, Taken
<1>7. Counted(r) \in [Requests -> RequestType]
    BY <1>5, <1>6 DEF Tabled
<1> QED BY <1>1, <1>4, <1>5, <1>6, <1>7, CountedIs DEF More

\* A new connection's FWDChannel.
LEMMA Entering ==
    ASSUME TableInv, nconn < MaxConns, NEW n, Allocated(n), NEW r \in Requests, NEW k, k = nconn + 1,
           NEW e \in FwdType, e.request = r, e.conn = k, e.status # {},
           NEW p, More(p, r, k), NEW t, Others(t, k), t[k].failures = 0,
           t[k].st = "none" => "LOCAL_CONNECTED" \in e.status,
           "LOCAL_CONNECTED" \in e.status \/ e.sock # None \/ p[r].lookup # 0
    PROVE  Tabled(p, [fwd EXCEPT ![n] = e]) /\ Entered(p, [fwd EXCEPT ![n] = e], t, k)
<1> DEFINE f == [fwd EXCEPT ![n] = e]
<1>1. /\ fwd \in [Nums -> FwdType] /\ k \in Nat /\ nconn \in Nat /\ nconn <= k /\ k # 0 /\ k \in 1..k
      /\ Follows(srv, t, {fwd[m].conn : m \in Nums}) /\ \A m \in Nums : fwd[m].conn # k
    BY NewConn, Sorts
<1>2. n \in Nums /\ Tabled(Counted(r), f)
    BY Counting
<1>3. Tabled(p, f)
    BY <1>2, SameCounts DEF More
<1>4. Entered(p, fwd, t, k)
    <2>1. Keeps(requests, p, fwd)
        BY <1>1 DEF Keeps, More
    <2> QED BY <1>1, <2>1, EntriesKept DEF TableInv
<1>5. EntryOK(p, t, k, e)
    <2>1. r # None
        BY Numbers
    <2>2. Live(t, k, e) /\ Waits(p, e)
        BY <1>1 DEF Live, Waits
    <2> QED BY <1>1, <2>1, <2>2 DEF EntryOK
<1>6. \A m \in Nums : m # n /\ e.conn # 0 => fwd[m].conn # e.conn
    BY <1>1
<1>7. Entered(p, f, t, k)
    BY <1>1, <1>2, <1>4, <1>5, <1>6, EntryPut
<1> QED BY <1>3, <1>7

LEMMA Acceptance ==
    ASSUME TableInv, NEW r \in Requests, AcceptLocalConnection(r)
    PROVE  TableInv'
<1> DEFINE k == nconn + 1
           dynamic == requests[r].spec.type = "LOCAL_DYNAMIC"
           e == [status |-> IF dynamic THEN Both ELSE {"LOCAL_CONNECTED"},
                 sock |-> nsock + 1, request |-> r, conn |-> k]
<1>1. PICK n \in Nums :
         /\ Allocated(n)
         /\ dynamic => requests' = Counted(r) /\ fwd' = [fwd EXCEPT ![n] = e] /\ channels' = channels /\ srv' = srv
         /\ ~dynamic => OpenChannel(Counted(r), [fwd EXCEPT ![n] = e], n, k)
    BY DEF AcceptLocalConnection
<1>2. /\ nconn < MaxConns /\ nconn' = k /\ nsock' = nsock + 1 /\ nsock < MaxSocks
      /\ wm' = wm /\ resolving' = resolving /\ edits' = edits /\ setup' = setup
    BY DEF AcceptLocalConnection
<1>3. Served(srv, k) /\ k \in 1..MaxConns /\ Fresh(srv[k]) /\ nconn \in Nat /\ k \in Nat
    BY <1>2, ServedMore DEF TableInv
<1>4. e \in FwdType /\ e.request = r /\ e.conn = k /\ "LOCAL_CONNECTED" \in e.status /\ e.status # {}
    <2>1. PICK st \in SUBSET Both : /\ st = IF dynamic THEN Both ELSE {"LOCAL_CONNECTED"}
                                    /\ "LOCAL_CONNECTED" \in st
        <3>1. {"LOCAL_CONNECTED"} \in SUBSET Both /\ Both \in SUBSET Both /\ "LOCAL_CONNECTED" \in Both
            BY DEF Both
        <3>2. CASE dynamic
            BY <3>1, <3>2
        <3>3. CASE ~dynamic
            BY <3>1, <3>3
        <3> QED BY <3>2, <3>3
    <2>2. e = [status |-> st, sock |-> nsock + 1, request |-> r, conn |-> k]
        BY <2>1
    <2>3. nsock + 1 \in Nat /\ k \in 0..MaxConns /\ st \in SUBSET (Both \cup {"CLOSED_LOCAL"})
        BY <1>3, Sorts
    <2> HIDE DEF e, dynamic, k
    <2> QED BY <2>1, <2>2, <2>3 DEF FwdType
<1> HIDE DEF e, dynamic
<1>5. Tabled(Counted(r), [fwd EXCEPT ![n] = e]) /\ Entered(Counted(r), [fwd EXCEPT ![n] = e], srv, k)
    <2>1. More(Counted(r), r, k) /\ Others(srv, k) /\ srv[k].failures = 0
        BY <1>1, <1>3, <1>4, Counting DEF Others, Fresh
    <2>2. PICK p : p = Counted(r)
        OBVIOUS
    <2>3. PICK l : l = k
        OBVIOUS
    <2> HIDE DEF k
    <2> QED BY <1>1, <1>2, <1>4, <2>1, <2>2, <2>3, Entering DEF k
<1>6. /\ Tabled(requests', fwd') /\ Entered(requests', fwd', srv', k)
      /\ Served(srv', k) /\ Peered(channels', srv')
      /\ \A p \in Requests :
           /\ requests'[p].deleted = Counted(r)[p].deleted /\ requests'[p].spec = Counted(r)[p].spec
           /\ requests'[p].lookup \in {0, Counted(r)[p].lookup}
    <2>1. CASE dynamic
        BY <1>1, <1>3, <1>5, <2>1 DEF TableInv
    <2>2. CASE ~dynamic
        <3>1. [fwd EXCEPT ![n] = e][n].conn = k
            BY <1>1, <1>4, Sorts
        <3>2. k <= k /\ Peered(channels, srv)
            BY <1>3 DEF TableInv
        <3> HIDE DEF k
        <3> QED BY <1>1, <1>3, <1>5, <2>2, <3>1, <3>2, Opening
    <2> QED BY <2>1, <2>2
<1>7. \A p \in Requests :
         /\ requests'[p].deleted = requests[p].deleted /\ requests'[p].spec = requests[p].spec
         /\ requests'[p].lookup \in {0, requests[p].lookup}
    BY <1>6, CountedIs
<1>8. Looked(requests', k, resolving', wm')
    <2>1. nconn <= k /\ requests \in [Requests -> RequestType] /\ resolving \subseteq Thread
        BY <1>3, Sorts
    <2> HIDE DEF k
    <2> QED BY <1>2, <1>3, <1>7, <2>1, LookupsKept DEF TableInv
<1>9. Bounded(nsock', edits', setup') /\ Asked(requests', setup')
    BY <1>2, <1>7, Sorts DEF TableInv, Bounded, Asked
<1> QED BY <1>2, <1>6, <1>8, <1>9 DEF TableInv

\* Nothing is asked, told, counted or looked up.
LEMMA EntriesChange ==
    ASSUME TableInv, NEW n \in Nums, NEW e \in FwdType,
           e.conn = fwd[n].conn, e.request = fwd[n].request, e.status = {} => e.sock = None,
           fwd[n].conn # 0 => e.status # {},
           "LOCAL_CONNECTED" \in fwd[n].status => "LOCAL_CONNECTED" \in e.status,
           e.status = {"REMOTE_CONNECTED"} => e.sock # None
    PROVE  /\ Tabled(requests, [fwd EXCEPT ![n] = e])
           /\ Entered(requests, [fwd EXCEPT ![n] = e], srv, nconn)
<1>1. fwd \in [Nums -> FwdType] /\ [fwd EXCEPT ![n] = e] \in [Nums -> FwdType]
    BY Sorts
<1>2. \A m \in Nums : [fwd EXCEPT ![n] = e][m].request = fwd[m].request
    BY <1>1
<1>3. Tabled(requests, [fwd EXCEPT ![n] = e])
    BY <1>1, <1>2, SameUsers DEF TableInv
<1>4. EntryOK(requests, srv, nconn, e)
    BY DEF TableInv, Entered, EntryOK, Live, Waits
<1>5. \A m \in Nums : m # n /\ e.conn # 0 => fwd[m].conn # e.conn
    BY DEF TableInv, Entered
<1>6. Entered(requests, [fwd EXCEPT ![n] = e], srv, nconn)
    BY <1>1, <1>4, <1>5, EntryPut DEF TableInv
<1> QED BY <1>3, <1>6

LEMMA ClosedLocally ==
    ASSUME TableInv, NEW n \in Nums, ClosedLocalConnection(n)
    PROVE  TableInv'
<1> DEFINE e == [fwd[n] EXCEPT !.sock = None,
                               !.status = IF Both \subseteq @ THEN @ \cup {"CLOSED_LOCAL"} ELSE @]
<1>1. /\ fwd' = [fwd EXCEPT ![n] = e] /\ wm' = Drained({fwd[n].sock})
      /\ srv' = IF Both \subseteq fwd[n].status /\ EofTarget(n) \in DOMAIN srv
                  THEN [srv EXCEPT ![EofTarget(n)].eofs = @ + 1] ELSE srv
      /\ "LOCAL_CONNECTED" \in fwd[n].status
      /\ requests' = requests /\ channels' = channels /\ resolving' = resolving
      /\ nconn' = nconn /\ nsock' = nsock /\ edits' = edits /\ setup' = setup
    <2>1. fwd \in [Nums -> FwdType]
        BY Sorts
    <2> QED BY <2>1 DEF ClosedLocalConnection, FwdType
<1>2. /\ e \in FwdType /\ e.conn = fwd[n].conn /\ e.request = fwd[n].request
      /\ "LOCAL_CONNECTED" \in e.status
    <2>1. fwd[n] \in FwdType
        BY Sorts
    <2> QED BY <1>1, <2>1 DEF FwdType
<1> HIDE DEF e
<1>3. Tabled(requests, fwd') /\ Entered(requests, fwd', srv, nconn)
    <2>1. /\ Tabled(requests, [fwd EXCEPT ![n] = e])
          /\ Entered(requests, [fwd EXCEPT ![n] = e], srv, nconn)
        BY <1>2, EntriesChange
    <2> QED BY <1>1, <2>1
<1>4. /\ srv' \in [1..MaxConns -> SrvType]
      /\ \A k \in 1..MaxConns : srv'[k].st = srv[k].st /\ srv'[k].peer = srv[k].peer
                                /\ srv'[k].failures = srv[k].failures
    <2>1. srv \in [1..MaxConns -> SrvType]
        BY Sorts
    <2>2. CASE srv' = srv
        BY <2>1, <2>2
    <2>3. CASE srv' # srv
        <3>1. PICK k \in 1..MaxConns : srv' = [srv EXCEPT ![k].eofs = @ + 1]
            BY <1>1, <2>1, <2>3
        <3> QED BY <2>1, <3>1 DEF SrvType
    <2> QED BY <2>2, <2>3
<1>5. Served(srv', nconn) /\ Peered(channels, srv')
    BY <1>4 DEF TableInv, Served, Peered, Fresh
<1>6. Entered(requests, fwd', srv', nconn)
    <2>1. Keeps(requests, requests, fwd') /\ nconn \in Nat /\ nconn <= nconn
        BY Sorts DEF Keeps
    <2>2. Follows(srv, srv', {fwd'[m].conn : m \in Nums})
        <3>1. \A m \in Nums : fwd'[m].conn # 0 => fwd'[m].conn \in 1..MaxConns
            BY <1>3, Sorts DEF Tabled, FwdType
        <3> QED BY <1>4, <3>1 DEF Follows
    <2> QED BY <1>3, <2>1, <2>2, EntriesKept
<1>7. Looked(requests, nconn, resolving, wm')
    <2>1. nconn \in Nat /\ nconn <= nconn /\ requests \in [Requests -> RequestType]
          /\ resolving \subseteq Thread
        BY Sorts
    <2>2. \A h : Coming(h, resolving, wm) => Coming(h, resolving, wm')
        BY <1>1, <2>1, DrainedKeeps
    <2> QED BY <2>1, <2>2, LookupsKept DEF TableInv
<1> QED BY <1>1, <1>3, <1>5, <1>6, <1>7 DEF TableInv

LEMMA Socks ==
    ASSUME TableInv, NEW n \in Nums, SocksRequest(n) \/ SocksRefused(n)
    PROVE  TableInv'
<1> DEFINE k == fwd[n].conn
           f == [fwd EXCEPT ![n].status = @ \ {"REMOTE_CONNECTED"}]
<1>1. fwd \in [Nums -> FwdType] /\ requests \in [Requests -> RequestType] /\ nconn \in Nat
    BY Sorts
<1>2. k # 0 /\ srv[k].st = "none" /\ EntryOK(requests, srv, nconn, fwd[n])
    BY DEF TableInv, Entered, SocksRequest, SocksRefused, Undialled
<1>3. "LOCAL_CONNECTED" \in fwd[n].status /\ k \in 1..nconn
    BY <1>2 DEF EntryOK, Live
<1>4. k \in 1..MaxConns /\ k <= nconn
    BY <1>3, Sorts
<1>5. CASE SocksRequest(n)
    <2> DEFINE e == [fwd[n] EXCEPT !.status = @ \ {"REMOTE_CONNECTED"}]
    <2>1. f = [fwd EXCEPT ![n] = e]
        BY <1>1
    <2>2. e \in FwdType /\ e.conn = k /\ e.request = fwd[n].request /\ "LOCAL_CONNECTED" \in e.status
        BY <1>1, <1>3 DEF FwdType
    <2> HIDE DEF e
    <2>3. Tabled(requests, f) /\ Entered(requests, f, srv, nconn)
        BY <2>1, <2>2, EntriesChange
    <2>4. f[n].conn = k
        BY <1>1, <2>1, <2>2
    <2>5. /\ OpenChannel(requests, f, n, k) /\ wm' = wm /\ resolving' = resolving
          /\ nconn' = nconn /\ nsock' = nsock /\ edits' = edits /\ setup' = setup
        BY <1>5 DEF SocksRequest
    <2> HIDE DEF f, k
    <2>6. /\ Tabled(requests', fwd') /\ Entered(requests', fwd', srv', nconn)
          /\ Served(srv', nconn) /\ Peered(channels', srv')
          /\ \A r \in Requests :
               /\ requests'[r].deleted = requests[r].deleted /\ requests'[r].spec = requests[r].spec
               /\ requests'[r].lookup \in {0, requests[r].lookup}
        BY <1>1, <1>4, <2>3, <2>4, <2>5, Opening DEF TableInv
    <2>7. Looked(requests', nconn, resolving, wm)
        <3>1. nconn <= nconn /\ resolving \subseteq Thread
            BY Sorts
        <3> QED BY <1>1, <2>6, <3>1, LookupsKept DEF TableInv
    <2>8. Asked(requests', setup)
        BY <2>6 DEF TableInv, Asked
    <2> QED BY <2>5, <2>6, <2>7, <2>8 DEF TableInv
<1>6. CASE SocksRefused(n)
    <2> DEFINE e == [fwd[n] EXCEPT !.sock = None, !.status = @ \ {"REMOTE_CONNECTED"}]
    <2>1. /\ fwd' = [fwd EXCEPT ![n] = e]
          /\ UNCHANGED <<requests, channels, wm, resolving, srv, nconn, nsock, edits, setup>>
        BY <1>1, <1>6 DEF SocksRefused
    <2>2. e \in FwdType /\ e.conn = k /\ e.request = fwd[n].request /\ "LOCAL_CONNECTED" \in e.status
        BY <1>1, <1>3 DEF FwdType
    <2> HIDE DEF e
    <2>3. Tabled(requests, fwd') /\ Entered(requests, fwd', srv, nconn)
        <3>1. /\ Tabled(requests, [fwd EXCEPT ![n] = e])
              /\ Entered(requests, [fwd EXCEPT ![n] = e], srv, nconn)
            BY <2>2, EntriesChange
        <3> QED BY <2>1, <3>1
    <2> QED BY <2>1, <2>3 DEF TableInv
<1> QED BY <1>5, <1>6

\* A slot that the server answers to no more is deleted, with its FWDChannel.
LEMMA Deleting ==
    ASSUME TableInv, NEW i \in Slots, DeleteChannel(i), NEW t, Served(t, nconn),
           Follows(srv, t, 1..MaxConns),
           Peered([channels EXCEPT ![i] = FreeSlot], t)
    PROVE  /\ Tabled(requests', fwd') /\ Entered(requests', fwd', t, nconn)
           /\ Looked(requests', nconn, resolving, wm') /\ Peered(channels', t)
           /\ Asked(requests', setup)
<1>1. PICK N \in SUBSET Nums :
         /\ requests' = Released(requests, fwd, N) /\ fwd' = Freed(fwd, N)
         /\ wm' = Drained(Sockets(fwd, N)) /\ channels' = [channels EXCEPT ![i] = FreeSlot]
    BY DEF DeleteChannel
<1>2. Tabled(requests, fwd) /\ Entered(requests, fwd, srv, nconn) /\ nconn \in Nat
      /\ fwd \in [Nums -> FwdType] /\ requests \in [Requests -> RequestType]
      /\ resolving \subseteq Thread /\ nconn <= nconn
    BY Sorts DEF TableInv
<1>3. Follows(srv, t, {fwd[n].conn : n \in Nums \ N})
    <2>1. \A n \in Nums : fwd[n].conn # 0 => fwd[n].conn \in 1..MaxConns
        BY <1>2 DEF FwdType
    <2> QED BY <2>1 DEF Follows
<1>4. Tabled(Released(requests, fwd, N), Freed(fwd, N))
    BY <1>2, GivenBack
<1>5. Entered(Released(requests, fwd, N), Freed(fwd, N), t, nconn)
    BY <1>2, <1>3, EntriesFreed
<1>6. \A r \in Requests :
         /\ requests'[r].deleted = requests[r].deleted /\ requests'[r].spec = requests[r].spec
         /\ requests'[r].lookup \in {0, requests[r].lookup}
    BY <1>1, <1>2, ReleasedIs
<1>7. \A h : Coming(h, resolving, wm) => Coming(h, resolving, wm')
    BY <1>1, <1>2, DrainedKeeps
<1>8. Looked(requests', nconn, resolving, wm')
    BY <1>2, <1>6, <1>7, LookupsKept DEF TableInv
<1>9. Asked(requests', setup)
    BY <1>6 DEF TableInv, Asked
<1> QED BY <1>1, <1>4, <1>5, <1>8, <1>9

\* What the server knows of one connection goes on.
Answered(s, t, k, x) ==
    \A j \in 1..MaxConns :
       /\ t[j].failures = s[j].failures /\ (t[j].st = "none" => s[j].st = "none")
       /\ t[j].peer = s[j].peer
       /\ t[j].st = IF j = k THEN x ELSE s[j].st
LEMMA Answering ==
    ASSUME TableInv, NEW k \in 1..MaxConns, k <= nconn, NEW e \in SrvType,
           e.failures = srv[k].failures, e.peer = srv[k].peer, e.st # "none",
           NEW t, t = [srv EXCEPT ![k] = e]
    PROVE  Served(t, nconn) /\ Answered(srv, t, k, e.st)
<1>1. srv \in [1..MaxConns -> SrvType] /\ srv[k].failures <= 1
    BY Sorts DEF TableInv, Served
<1>2. Served([srv EXCEPT ![k] = e], nconn)
    BY <1>1, ServedPut DEF TableInv
<1>3. \A j \in 1..MaxConns : t[j] = IF j = k THEN e ELSE srv[j]
    BY <1>1
<1> QED BY <1>2, <1>3 DEF Answered

LEMMA Ending ==
    ASSUME TableInv, NEW k \in Conns, ServerFails(k) \/ ServerCloses(k)
    PROVE  TableInv'
<1>1. k \in 1..MaxConns /\ k <= nconn /\ srv \in [1..MaxConns -> SrvType] /\ srv[k].eofs \in Nat
    BY Sorts DEF Conns, SrvType
<1>2. PICK x \in {"failed", "closed"} :
         /\ srv' = [srv EXCEPT ![k].st = x]
         /\ srv[k].st = "open" \/ (srv[k].st = "asked" /\ srv[k].peer # None)
    BY DEF ServerFails, ServerCloses
<1> DEFINE i == srv[k].peer
<1>3. OwnSlot(channels, k, i)
    BY <1>1, <1>2 DEF TableInv, Peered
<1>4. /\ i \in Slots /\ DeleteChannel(i)
      /\ UNCHANGED <<resolving, connecting, nconn, nsock, edits, setup>>
    BY <1>3 DEF ServerFails, ServerCloses, OwnSlot
<1>5. PICK e \in SrvType :
         /\ srv' = [srv EXCEPT ![k] = e]
         /\ e.failures = srv[k].failures /\ e.peer = srv[k].peer /\ e.st = x /\ e.st # "none"
    <2>1. srv[k] \in SrvType
        BY <1>1
    <2>2. [srv[k] EXCEPT !.st = x] \in SrvType
        BY <2>1 DEF SrvType
    <2>3. srv' = [srv EXCEPT ![k] = [srv[k] EXCEPT !.st = x]]
        BY <1>1, <1>2
    <2> QED BY <2>1, <2>2, <2>3 DEF SrvType
<1>6. Served(srv', nconn) /\ Answered(srv, srv', k, x)
    BY <1>1, <1>5, Answering
<1> HIDE DEF i
<1>7. Peered([channels EXCEPT ![i] = FreeSlot], srv')
    <2>1. Leaves(srv, srv', channels, i)
        BY <1>3, <1>6 DEF Answered, Leaves, OwnSlot
    <2> QED BY <1>4, <2>1, SlotFreed DEF TableInv
<1>8. Follows(srv, srv', 1..MaxConns)
    BY <1>6 DEF Follows, Answered
<1>9. /\ Tabled(requests', fwd') /\ Entered(requests', fwd', srv', nconn)
      /\ Looked(requests', nconn, resolving, wm') /\ Peered(channels', srv')
      /\ Asked(requests', setup)
    BY <1>4, <1>6, <1>7, <1>8, Deleting
<1> QED BY <1>4, <1>6, <1>9 DEF TableInv

LEMMA OtherClosing ==
    ASSUME TableInv, NEW i \in Slots, OtherCloses(i)
    PROVE  TableInv'
<1>1. /\ channels[i] = Shell /\ DeleteChannel(i)
      /\ UNCHANGED <<resolving, connecting, srv, nconn, nsock, edits, setup>>
    BY DEF OtherCloses
<1>2. Served(srv, nconn)
    BY DEF TableInv
<1>3. Peered([channels EXCEPT ![i] = FreeSlot], srv)
    <2>1. \A j : ~OwnSlot(channels, j, i)
        BY <1>1 DEF OwnSlot, Shell
    <2>2. Leaves(srv, srv, channels, i)
        BY <2>1 DEF Leaves
    <2> QED BY <2>2, SlotFreed DEF TableInv
<1>4. /\ Tabled(requests', fwd') /\ Entered(requests', fwd', srv, nconn)
      /\ Looked(requests', nconn, resolving, wm') /\ Peered(channels', srv)
      /\ Asked(requests', setup)
    <2>1. Follows(srv, srv, 1..MaxConns)
        BY DEF Follows
    <2> QED BY <1>1, <1>2, <1>3, <2>1, Deleting
<1> QED BY <1>1, <1>2, <1>4 DEF TableInv

LEMMA OtherOpening ==
    ASSUME TableInv, OtherOpens
    PROVE  TableInv'
<1> DEFINE i == NewSlot
<1>1. /\ channels' = [channels EXCEPT ![i] = Shell]
      /\ UNCHANGED <<requests, fwd, wm, resolving, connecting, srv, nconn, nsock, edits, setup>>
    BY DEF OtherOpens
<1>2. i \in Slots /\ ~channels[i].used
    BY SlotFree DEF OtherOpens
<1> HIDE DEF i
<1>3. Shell \in SlotType /\ Shell.used /\ Shell.remote \notin 1..MaxConns
    BY Sorts DEF Shell, SlotType, None
<1>4. channels' \in [Slots -> SlotType] /\ \A j \in Slots : channels'[j] = IF j = i THEN Shell ELSE channels[j]
    BY <1>1, <1>3, Sorts
<1>5. Peered(channels', srv)
    BY <1>2, <1>3, <1>4 DEF TableInv, Peered, OwnSlot
<1> QED BY <1>1, <1>5 DEF TableInv

LEMMA Confirming ==
    ASSUME TableInv, NEW k \in Conns, ServerConfirms(k)
    PROVE  TableInv'
<1> DEFINE i == srv[k].peer
           n == channels[i].local_num
<1>1. /\ k \in 1..MaxConns /\ k <= nconn /\ srv \in [1..MaxConns -> SrvType] /\ srv[k].eofs \in Nat
      /\ channels \in [Slots -> SlotType] /\ fwd \in [Nums -> FwdType]
    BY Sorts DEF Conns, SrvType
<1>2. OwnSlot(channels, k, i) /\ srv[k].st = "asked" /\ n \in Nums /\ i \in Slots
    BY <1>1 DEF ServerConfirms, TableInv, Peered, OwnSlot
<1>3. /\ channels' = [channels EXCEPT ![i].remote = k]
      /\ UNCHANGED <<requests, wm, resolving, connecting, nconn, nsock, edits, setup>>
      /\ \/ /\ fwd[n].sock # None
            /\ fwd' = [fwd EXCEPT ![n].status = @ \cup {"REMOTE_CONNECTED"}]
            /\ srv' = [srv EXCEPT ![k].st = "open"]
         \/ /\ fwd[n].sock = None
            /\ fwd' = [fwd EXCEPT ![n].status = @ \cup {"CLOSED_LOCAL"}]
            /\ srv' = [srv EXCEPT ![k].st = "open", ![k].eofs = @ + 1]
    BY <1>2 DEF ServerConfirms, OwnSlot
<1>4. PICK e \in SrvType :
         /\ srv' = [srv EXCEPT ![k] = e]
         /\ e.failures = srv[k].failures /\ e.peer = srv[k].peer /\ e.st = "open" /\ e.st # "none"
    <2>1. srv[k] \in SrvType
        BY <1>1
    <2>2. CASE fwd[n].sock # None
        <3>1. srv' = [srv EXCEPT ![k] = [srv[k] EXCEPT !.st = "open"]]
            BY <1>1, <1>3, <2>2
        <3>2. [srv[k] EXCEPT !.st = "open"] \in SrvType
            BY <2>1 DEF SrvType
        <3> QED BY <2>1, <3>1, <3>2 DEF SrvType
    <2>3. CASE fwd[n].sock = None
        <3>1. PICK c \in Nat : c = srv[k].eofs + 1
            BY <1>1
        <3>2. srv' = [srv EXCEPT ![k] = [srv[k] EXCEPT !.st = "open", !.eofs = c]]
            BY <1>1, <1>3, <2>3, <2>1, <3>1 DEF SrvType
        <3>3. [srv[k] EXCEPT !.st = "open", !.eofs = c] \in SrvType
            BY <2>1 DEF SrvType
        <3> QED BY <2>1, <3>2, <3>3 DEF SrvType
    <2> QED BY <2>2, <2>3
<1>5. Served(srv', nconn) /\ Answered(srv, srv', k, "open")
    BY <1>1, <1>4, Answering
<1>6. /\ channels' \in [Slots -> SlotType]
      /\ \A j \in Slots : j # i => channels'[j] = channels[j]
      /\ channels'[i].used /\ channels'[i].forward /\ channels'[i].conn = k
      /\ channels'[i].remote = k /\ channels'[i].local_num = n
    <2>1. channels[i] \in SlotType /\ k \in 0..MaxConns
        BY <1>1, <1>2, Sorts
    <2> QED BY <1>1, <1>2, <1>3, <2>1 DEF SlotType, OwnSlot
<1> HIDE DEF i, n
<1>7. Peered(channels', srv')
    <2>1. ASSUME NEW j \in 1..MaxConns, srv'[j].st = "open" \/ (srv'[j].st = "asked" /\ srv'[j].peer # None)
          PROVE  OwnSlot(channels', j, srv'[j].peer)
        <3>1. OwnSlot(channels, j, srv'[j].peer)
            BY <1>2, <1>5, <2>1 DEF TableInv, Peered, Answered, i
        <3>2. CASE srv'[j].peer = i
            BY <1>2, <1>6, <3>1, <3>2 DEF OwnSlot, n
        <3>3. CASE srv'[j].peer # i
            BY <1>6, <3>1, <3>3 DEF OwnSlot
        <3> QED BY <3>2, <3>3
    <2>2. ASSUME NEW j \in Slots
          PROVE  /\ channels'[j].remote \in 1..MaxConns =>
                        channels'[j].used /\ channels'[j].forward /\ channels'[j].conn = channels'[j].remote
                 /\ ~channels'[j].used => channels'[j] = FreeSlot
        BY <1>6 DEF TableInv, Peered
    <2> QED BY <1>6, <2>1, <2>2 DEF Peered
<1>8. PICK st \in SUBSET (Both \cup {"CLOSED_LOCAL"}) :
         /\ fwd' = [fwd EXCEPT ![n] = [fwd[n] EXCEPT !.status = st]]
         /\ st # {} /\ (st = {"REMOTE_CONNECTED"} => fwd[n].sock # None)
         /\ "LOCAL_CONNECTED" \in fwd[n].status => "LOCAL_CONNECTED" \in st
    <2>1. fwd[n] \in FwdType
        BY <1>1, <1>2 DEF n
    <2>2. CASE fwd[n].sock # None
        <3>1. fwd' = [fwd EXCEPT ![n] = [fwd[n] EXCEPT !.status = fwd[n].status \cup {"REMOTE_CONNECTED"}]]
            BY <1>1, <1>3, <2>2 DEF n, i
        <3>2. fwd[n].status \cup {"REMOTE_CONNECTED"} \in SUBSET (Both \cup {"CLOSED_LOCAL"})
            BY <2>1 DEF FwdType, Both
        <3> QED BY <2>2, <3>1, <3>2
    <2>3. CASE fwd[n].sock = None
        <3>1. fwd' = [fwd EXCEPT ![n] = [fwd[n] EXCEPT !.status = fwd[n].status \cup {"CLOSED_LOCAL"}]]
            BY <1>1, <1>3, <2>3 DEF n, i
        <3>2. fwd[n].status \cup {"CLOSED_LOCAL"} \in SUBSET (Both \cup {"CLOSED_LOCAL"})
            BY <2>1 DEF FwdType, Both
        <3> QED BY <2>3, <3>1, <3>2
    <2> QED BY <2>2, <2>3
<1>9. Tabled(requests, fwd') /\ Entered(requests, fwd', srv, nconn)
    <2> DEFINE g == [fwd[n] EXCEPT !.status = st]
    <2>1. fwd[n] \in FwdType /\ n \in Nums
        BY <1>1, <1>2
    <2>2. /\ g \in FwdType /\ g.conn = fwd[n].conn /\ g.request = fwd[n].request /\ g.status = st
          /\ g.sock = fwd[n].sock
        BY <2>1 DEF FwdType
    <2> HIDE DEF g
    <2>3. /\ Tabled(requests, [fwd EXCEPT ![n] = g])
          /\ Entered(requests, [fwd EXCEPT ![n] = g], srv, nconn)
        BY <1>8, <2>1, <2>2, EntriesChange
    <2> QED BY <1>8, <2>3 DEF g
<1>10. Entered(requests, fwd', srv', nconn)
    <2>1. Keeps(requests, requests, fwd') /\ nconn \in Nat /\ nconn <= nconn
        BY Sorts DEF Keeps
    <2>2. Follows(srv, srv', {fwd'[m].conn : m \in Nums})
        <3>1. \A m \in Nums : fwd'[m].conn # 0 => fwd'[m].conn \in 1..MaxConns
            BY <1>9, Sorts DEF Tabled, FwdType
        <3> QED BY <1>5, <3>1 DEF Follows, Answered
    <2> QED BY <1>9, <2>1, <2>2, EntriesKept
<1> QED BY <1>3, <1>5, <1>7, <1>9, <1>10 DEF TableInv

LEMMA Looking ==
    ASSUME TableInv, Threads
    PROVE  TableInv'
<1>1. PICK t \in resolving : Resolved(t) \/ \E ok \in BOOLEAN : PostName(t, ok)
    BY DEF Threads
<1>2. /\ t \in Thread /\ requests \in [Requests -> RequestType] /\ nconn \in Nat /\ nconn <= nconn
      /\ resolving \subseteq Thread
    BY Sorts
<1>3. CASE Resolved(t)
    <2>1. /\ requests' = [requests EXCEPT ![t.request].addrs = TRUE]
          /\ resolving' = (resolving \ {t}) \cup {[t EXCEPT !.done = TRUE]}
          /\ UNCHANGED <<fwd, channels, wm, connecting, srv, nconn, nsock, edits, setup>>
        BY <1>3 DEF Resolved
    <2>2. /\ requests' \in [Requests -> RequestType]
          /\ \A r \in Requests :
               /\ requests'[r].num_channels = requests[r].num_channels
               /\ requests'[r].deleted = requests[r].deleted /\ requests'[r].spec = requests[r].spec
               /\ requests'[r].lookup = requests[r].lookup
        BY <1>2, <2>1 DEF RequestType
    <2>3. Tabled(requests', fwd)
        BY <2>2, SameCounts DEF TableInv
    <2>4. Entered(requests', fwd, srv, nconn)
        <3>1. Keeps(requests, requests', fwd) /\ Follows(srv, srv, {fwd[n].conn : n \in Nums})
            BY <2>2 DEF Keeps, Follows
        <3> QED BY <1>2, <3>1, EntriesKept DEF TableInv
    <2>5. resolving' \subseteq Thread /\ \A h : Coming(h, resolving, wm) => Coming(h, resolving', wm)
        <3>1. [t EXCEPT !.done = TRUE] \in Thread /\ [t EXCEPT !.done = TRUE].handle = t.handle
            BY <1>2 DEF Thread
        <3> QED BY <1>2, <2>1, <3>1 DEF Coming
    <2>6. Looked(requests', nconn, resolving', wm)
        BY <1>2, <2>2, <2>5, LookupsKept DEF TableInv
    <2>7. Asked(requests', setup)
        BY <2>2 DEF TableInv, Asked
    <2> QED BY <2>1, <2>3, <2>4, <2>6, <2>7 DEF TableInv
<1>4. CASE \E ok \in BOOLEAN : PostName(t, ok)
    <2>1. PICK ok \in BOOLEAN :
             /\ resolving' = resolving \ {t}
             /\ wm' = wm \cup {[type |-> "GOTNAME", id |-> t.handle, ok |-> ok]}
             /\ UNCHANGED <<tables, connecting, srv, nconn, nsock, edits, setup>>
        BY <1>4 DEF PostName
    <2> DEFINE m == [type |-> "GOTNAME", id |-> t.handle, ok |-> ok]
    <2>2. m.type = "GOTNAME" /\ m.id = t.handle /\ wm' = wm \cup {m}
        BY <1>2, <2>1 DEF Thread
    <2> HIDE DEF m
    <2>3. /\ resolving' \subseteq Thread
          /\ \A h : Coming(h, resolving, wm) => Coming(h, resolving', wm')
        BY <1>2, <2>1, <2>2 DEF Coming
    <2>4. Looked(requests, nconn, resolving', wm')
        BY <1>2, <2>3, LookupsKept DEF TableInv
    <2> QED BY <2>1, <2>4 DEF TableInv, tables
<1> QED BY <1>1, <1>3, <1>4

LEMMA Connecting ==
    ASSUME TableInv, NEW s, NEW ok \in BOOLEAN, ConnectEnds(s, ok)
    PROVE  TableInv'
<1> DEFINE m == [type |-> "CONNECT", id |-> s, ok |-> ok]
<1>1. /\ wm' = wm \cup {m}
      /\ UNCHANGED <<tables, resolving, srv, nconn, nsock, edits, setup>>
    BY DEF ConnectEnds
<1> HIDE DEF m
<1>2. /\ requests \in [Requests -> RequestType] /\ nconn \in Nat /\ nconn <= nconn
      /\ resolving \subseteq Thread
    BY <1>1, Sorts
<1>3. \A h : Coming(h, resolving, wm) => Coming(h, resolving, wm')
    BY <1>1 DEF Coming
<1>4. Looked(requests, nconn, resolving, wm')
    BY <1>2, <1>3, LookupsKept DEF TableInv
<1> QED BY <1>1, <1>4 DEF TableInv, tables

\* The connections of N are refused, their FWDChannels given back.
LEMMA Refusing ==
    ASSUME TableInv, NEW N \in SUBSET Nums, NEW K, K = {fwd[n].conn : n \in N},
           NEW t, t = Failed(srv, K)
    PROVE  /\ Tabled(Released(requests, fwd, N), Freed(fwd, N))
           /\ Entered(Released(requests, fwd, N), Freed(fwd, N), t, nconn)
           /\ Served(t, nconn) /\ Peered(channels, t)
<1>1. fwd \in [Nums -> FwdType] /\ nconn \in Nat
    BY Sorts
<1>2. Tabled(Released(requests, fwd, N), Freed(fwd, N))
    BY GivenBack DEF TableInv
<1>3. \A n \in Nums \ N : fwd[n].conn # 0 => fwd[n].conn \notin K /\ fwd[n].conn \in 1..MaxConns
    BY <1>1 DEF TableInv, Entered, FwdType
<1>4. \A k \in 1..MaxConns :
         /\ t[k].failures = IF k \in K THEN srv[k].failures + 1 ELSE srv[k].failures
         /\ t[k].st = srv[k].st \/ (srv[k].st = "asked" /\ t[k].st = "failed")
    BY FailedIs DEF TableInv
<1>5. Follows(srv, t, {fwd[n].conn : n \in Nums \ N})
    BY <1>3, <1>4 DEF Follows
<1>6. Entered(Released(requests, fwd, N), Freed(fwd, N), t, nconn)
    BY <1>1, <1>5, EntriesFreed DEF TableInv
<1>7. Served(Failed(srv, K), nconn)
    <2>1. ASSUME NEW k \in K \cap (1..MaxConns) PROVE srv[k].failures = 0 /\ k <= nconn
        <3>1. PICK n \in N : fwd[n].conn = k
            OBVIOUS
        <3>2. Live(srv, nconn, fwd[n]) /\ k # 0
            BY DEF TableInv, Entered, EntryOK
        <3> QED BY <1>1, <3>1, <3>2 DEF Live
    <2> QED BY <2>1, ServedFailed DEF TableInv
<1>8. Peered(channels, Failed(srv, K))
    BY PeeredFailed DEF TableInv
<1> QED BY <1>2, <1>6, <1>7, <1>8

LEMMA GotTheName ==
    ASSUME TableInv, NEW m \in wm, GotName(m)
    PROVE  TableInv'
<1> DEFINE r == Least(Named(m.id))
<1>1. /\ requests \in [Requests -> RequestType] /\ fwd \in [Nums -> FwdType] /\ nconn \in Nat /\ nconn <= nconn
      /\ resolving \subseteq Thread /\ nsock \in Nat /\ MaxSocks \in Nat
     
    BY Sorts
<1>2. /\ m.type = "GOTNAME" /\ wm' = wm \ {m}
      /\ UNCHANGED <<channels, resolving, nconn, edits, setup>>
    BY DEF GotName
<1>3. \A h : h # m.id /\ Coming(h, resolving, wm) => Coming(h, resolving, wm')
    BY <1>1, <1>2 DEF Coming
<1>4. CASE Named(m.id) = {}
    <2>1. UNCHANGED <<requests, fwd, srv, nsock>>
        BY <1>4 DEF GotName
    <2>2. \A p \in Requests : ~requests[p].deleted => requests[p].lookup # m.id
        BY <1>4 DEF Named
    <2>3. Looked(requests, nconn, resolving, wm')
        BY <1>1, <1>3, <2>2, LookupsKept DEF TableInv
    <2> QED BY <1>2, <2>1, <2>3 DEF TableInv
<1>5. CASE Named(m.id) # {}
    <2>1. r \in Requests /\ ~requests[r].deleted /\ requests[r].lookup = m.id
        <3>1. Named(m.id) \in SUBSET Nat
            BY Numbers DEF Named
        <3>2. r \in Named(m.id)
            BY <1>5, <3>1, LeastIs
        <3> QED BY <3>2 DEF Named
    <2>2. PICK bad \in SUBSET Waiting(r) :
             LET good == Waiting(r) \ bad
                 id(n) == nsock + Cardinality({p \in good : p <= n})
             IN /\ nsock + Cardinality(good) <= MaxSocks
                /\ nsock' = nsock + Cardinality(good)
                /\ requests' = Forget(Released(requests, fwd, bad), r)
                /\ fwd' = [n \in Nums |-> IF n \in bad THEN FreeFwdEntry
                                          ELSE IF n \in good THEN [fwd[n] EXCEPT !.sock = id(n)]
                                          ELSE fwd[n]]
                /\ srv' = Failed(srv, {fwd[n].conn : n \in bad})
        BY <1>5 DEF GotName
    <2> DEFINE good == Waiting(r) \ bad
               K == {fwd[n].conn : n \in bad}
               q == Released(requests, fwd, bad)
               f == Freed(fwd, bad)
    <2> HIDE DEF r
    <2>3. Waiting(r) \in SUBSET Nums /\ bad \in SUBSET Nums /\ good \in SUBSET Nums
        BY DEF Waiting
    <2>4. Cardinality(good) \in Nat
        BY <2>3, Numbers, FS_Subset, FS_CardinalityType
    <2>7. srv' = Failed(srv, K)
        BY <2>2
    <2>9. Tabled(q, f) /\ Entered(q, f, srv', nconn) /\ Served(srv', nconn) /\ Peered(channels, srv')
        BY <2>3, <2>7, Refusing
    <2>11. /\ requests' \in [Requests -> RequestType]
           /\ \A p \in Requests :
                /\ requests'[p].num_channels = q[p].num_channels /\ requests'[p].deleted = q[p].deleted
                /\ requests'[p].spec = q[p].spec
                /\ requests'[p].lookup = IF p = r THEN 0 ELSE q[p].lookup
        <3>1. q \in [Requests -> RequestType] /\ 0 \in 0..MaxConns
            BY <2>9, Sorts DEF Tabled
        <3>2. requests' = [q EXCEPT ![r].lookup = 0]
            BY <2>2 DEF Forget
        <3> HIDE DEF q
        <3> QED BY <2>1, <3>1, <3>2 DEF RequestType
    <2>12. ASSUME NEW n \in Nums
           PROVE  /\ fwd'[n] \in FwdType /\ fwd'[n].request = f[n].request /\ fwd'[n].conn = f[n].conn
                  /\ fwd'[n].status = f[n].status
                  /\ fwd'[n] = f[n] \/ (fwd'[n].sock # None /\ f[n].request = r)
                  /\ f[n].request = r => fwd'[n].sock # None
        <3>1. f[n] \in FwdType /\ f[n] = IF n \in bad THEN FreeFwdEntry ELSE fwd[n]
            BY <2>9 DEF Tabled, Freed
        <3>2. CASE n \in good
            <4>1. {p \in good : p <= n} \in SUBSET Nums
                BY <2>3
            <4>2. Cardinality({p \in good : p <= n}) \in Nat
                BY <4>1, Numbers, FS_Subset, FS_CardinalityType
            <4>3. PICK c \in Nat : c = Cardinality({p \in good : p <= n})
                BY <4>2
            <4>6. fwd'[n] = [fwd[n] EXCEPT !.sock = nsock + c] /\ f[n] = fwd[n]
                BY <2>2, <3>1, <3>2, <4>3
            <4>7. PICK id \in Nat : id = nsock + c
                BY <1>1
            <4>4. fwd'[n] = [fwd[n] EXCEPT !.sock = id] /\ f[n] = fwd[n]
                BY <4>6, <4>7
            <4>5. f[n].request = r
                BY <3>2, <4>4 DEF Waiting
            <4> QED BY <3>1, <4>4, <4>5, Numbers DEF FwdType
        <3>3. CASE n \notin good
            <4>1. fwd'[n] = f[n]
                BY <2>2, <3>1, <3>3
            <4>2. f[n].request # r
                BY <2>1, <3>1, <3>3, Numbers DEF Waiting, FreeFwdEntry
            <4> QED BY <3>1, <4>1, <4>2
        <3> QED BY <3>2, <3>3
    <2>13. fwd' \in [Nums -> FwdType]
        BY <2>2, <2>12
    <2> HIDE DEF q, f, K, good
    <2>14. Tabled(requests', fwd')
        <3>1. Tabled(requests', f)
            BY <2>9, <2>11, SameCounts
        <3> QED BY <2>12, <2>13, <3>1, SameUsers
    <2>15. Entered(requests', fwd', srv', nconn)
        <3>1. ASSUME NEW n \in Nums PROVE EntryOK(requests', srv', nconn, fwd'[n])
            <4>1. EntryOK(q, srv', nconn, f[n])
                BY <2>9 DEF Entered
            <4>2. Waits(requests', fwd'[n])
                BY <2>11, <2>12, <4>1 DEF EntryOK, Waits
            <4>3. fwd'[n].status = {} => fwd'[n].sock = None
                <5>1. fwd'[n].status = {} => f[n].conn = 0 /\ f[n].request = None /\ f[n].sock = None
                    BY <2>12, <4>1 DEF EntryOK, Live
                <5>2. r # None
                    BY <2>1, Numbers
                <5>3. fwd'[n] = f[n] \/ f[n].request = r
                    BY <2>12
                <5> QED BY <5>1, <5>2, <5>3
            <4> QED BY <2>12, <4>1, <4>2, <4>3 DEF EntryOK, Live
        <3>2. \A n, p \in Nums : fwd'[n].conn # 0 /\ fwd'[p].conn = fwd'[n].conn => p = n
            BY <2>9, <2>12 DEF Entered
        <3> QED BY <3>1, <3>2 DEF Entered
    <2>16. \A p \in Requests :
              /\ requests'[p].deleted = requests[p].deleted /\ requests'[p].spec = requests[p].spec
              /\ requests'[p].lookup = 0 \/ (requests'[p].lookup = requests[p].lookup /\ p # r)
        BY <2>11, ReleasedIs DEF TableInv, q
    <2>17. Looked(requests', nconn, resolving, wm')
        <3>1. \A p \in Requests : requests'[p].lookup # 0 => requests'[p].lookup # m.id
            BY <2>1, <2>16 DEF TableInv, Looked
        <3> QED BY <1>1, <1>3, <2>16, <3>1, LookupsKept DEF TableInv
    <2>18. Bounded(nsock', edits', setup') /\ Asked(requests', setup')
        <3>1. nsock' \in 0..MaxSocks
            BY <1>1, <2>2, <2>4 DEF good
        <3> QED BY <1>2, <2>16, <3>1 DEF TableInv, Bounded, Asked
    <2> QED BY <1>2, <2>9, <2>14, <2>15, <2>17, <2>18 DEF TableInv
<1> QED BY <1>4, <1>5

\* What the server is told of a success is told of the slot's connection.
LEMMA ConfirmedIs ==
    ASSUME TableInv, NEW i \in Slots, channels[i].local_num \in Nums,
           NEW t, t = Confirmed(srv, i)
    PROVE  /\ Served(t, nconn) /\ Peered(channels, t)
           /\ Follows(srv, t, 1..MaxConns)
<1> DEFINE k == channels[i].remote
<1>1. srv \in [1..MaxConns -> SrvType]
    BY Sorts
<1>2. CASE k \notin 1..MaxConns
    <2>1. t = srv
        BY <1>1, <1>2 DEF Confirmed
    <2> QED BY <2>1 DEF TableInv, Follows
<1>3. CASE k \in 1..MaxConns
    <2>1. srv[k] \in SrvType /\ OwnSlot(channels, k, i)
        BY <1>1, <1>3 DEF TableInv, Peered, OwnSlot
    <2>2. PICK c \in Nat : c = srv[k].confirms + 1
        BY <2>1 DEF SrvType
    <2>3. t = [srv EXCEPT ![k].confirms = c,
                          ![k].peer = IF srv[k].st = "asked" THEN i ELSE @,
                          ![k].st = IF @ = "asked" THEN "open" ELSE @]
        BY <1>1, <1>3, <2>2 DEF Confirmed
    <2> HIDE DEF k
    <2>4. PICK e \in SrvType :
             /\ t = [srv EXCEPT ![k] = e] /\ e.failures = srv[k].failures
             /\ \/ srv[k].st = "asked" /\ e.st = "open" /\ e.peer = i
                \/ srv[k].st # "asked" /\ e.st = srv[k].st /\ e.peer = srv[k].peer
        <3>1. CASE srv[k].st = "asked"
            <4> DEFINE e == [srv[k] EXCEPT !.confirms = c, !.peer = i, !.st = "open"]
            <4>1. t = [srv EXCEPT ![k] = e]
                BY <1>1, <1>3, <2>1, <2>3, <3>1 DEF SrvType
            <4>2. e \in SrvType /\ e.failures = srv[k].failures /\ e.st = "open" /\ e.peer = i
                BY <2>1 DEF SrvType
            <4> QED BY <3>1, <4>1, <4>2
        <3>2. CASE srv[k].st # "asked"
            <4> DEFINE e == [srv[k] EXCEPT !.confirms = c]
            <4>1. t = [srv EXCEPT ![k] = e]
                BY <1>1, <1>3, <2>1, <2>3, <3>2 DEF SrvType
            <4>2. e \in SrvType /\ e.failures = srv[k].failures /\ e.st = srv[k].st /\ e.peer = srv[k].peer
                BY <2>1 DEF SrvType
            <4> QED BY <3>2, <4>1, <4>2
        <3> QED BY <3>1, <3>2
    <2>5. \A j \in 1..MaxConns : t[j] = IF j = k THEN e ELSE srv[j]
        BY <1>1, <2>4
    <2>6. t \in [1..MaxConns -> SrvType]
        BY <1>1, <2>4
    <2>7. Served(t, nconn)
        BY <2>4, <2>5, <2>6 DEF TableInv, Served, Fresh
    <2>8. Peered(channels, t)
        BY <2>1, <2>4, <2>5 DEF TableInv, Peered, k
    <2>9. Follows(srv, t, 1..MaxConns)
        BY <2>4, <2>5 DEF Follows
    <2> QED BY <2>7, <2>8, <2>9
<1> QED BY <1>2, <1>3

LEMMA LookupIs ==
    ASSUME NEW n, Lookup(n) # None
    PROVE  Lookup(n) \in Slots /\ channels[Lookup(n)].local_num = n
<1>1. LookupSet(n) \in SUBSET Nat /\ LookupSet(n) # {}
    BY Numbers DEF Lookup, LookupSet
<1>2. Lookup(n) \in LookupSet(n)
    BY <1>1, LeastIs DEF Lookup
<1> QED BY <1>2 DEF LookupSet

LEMMA HearingConnect ==
    ASSUME TableInv, NEW m \in wm, OnFdConnect(m)
    PROVE  TableInv'
<1>1. /\ requests \in [Requests -> RequestType] /\ fwd \in [Nums -> FwdType]
      /\ nconn \in Nat /\ nconn <= nconn /\ resolving \subseteq Thread
    BY Sorts
<1>2. /\ m.type = "CONNECT" /\ wm' = wm \ {m}
      /\ UNCHANGED <<channels, resolving, nconn, nsock, edits, setup>>
    BY DEF OnFdConnect
<1>3. \A h : Coming(h, resolving, wm) => Coming(h, resolving, wm')
    BY <1>2 DEF Coming
<1>4. ASSUME \A r \in Requests :
                /\ requests'[r].deleted = requests[r].deleted /\ requests'[r].spec = requests[r].spec
                /\ requests'[r].lookup \in {0, requests[r].lookup}
      PROVE  Looked(requests', nconn, resolving, wm') /\ Asked(requests', setup)
    <2>1. Looked(requests', nconn, resolving, wm')
        BY <1>1, <1>3, <1>4, LookupsKept DEF TableInv
    <2> QED BY <1>4, <2>1 DEF TableInv, Asked
<1>5. CASE UNCHANGED <<requests, fwd, srv>>
    BY <1>2, <1>4, <1>5 DEF TableInv
<1>6. ASSUME NEW n \in Nums,
             srv' = IF Lookup(n) = None THEN srv ELSE Confirmed(srv, Lookup(n)),
             fwd' = [fwd EXCEPT ![n].status = @ \cup {"LOCAL_CONNECTED"}],
             requests' = requests
      PROVE  TableInv'
    <2> DEFINE e == [fwd[n] EXCEPT !.status = @ \cup {"LOCAL_CONNECTED"}]
    <2>1. fwd' = [fwd EXCEPT ![n] = e]
        BY <1>1, <1>6
    <2>2. /\ e \in FwdType /\ e.conn = fwd[n].conn /\ e.request = fwd[n].request
          /\ "LOCAL_CONNECTED" \in e.status
        BY <1>1 DEF FwdType, Both
    <2> HIDE DEF e
    <2>3. Tabled(requests, fwd') /\ Entered(requests, fwd', srv, nconn)
        <3>1. /\ Tabled(requests, [fwd EXCEPT ![n] = e])
              /\ Entered(requests, [fwd EXCEPT ![n] = e], srv, nconn)
            BY <2>2, EntriesChange
        <3> QED BY <2>1, <3>1
    <2>4. Served(srv', nconn) /\ Peered(channels, srv') /\ Follows(srv, srv', 1..MaxConns)
        <3>1. CASE Lookup(n) = None
            BY <1>6, <3>1 DEF TableInv, Follows
        <3>2. CASE Lookup(n) # None
            BY <1>6, <3>2, LookupIs, ConfirmedIs
        <3> QED BY <3>1, <3>2
    <2>5. Entered(requests, fwd', srv', nconn)
        <3>1. Keeps(requests, requests, fwd')
            BY DEF Keeps
        <3>2. Follows(srv, srv', {fwd'[p].conn : p \in Nums})
            <4>1. \A p \in Nums : fwd'[p].conn # 0 => fwd'[p].conn \in 1..MaxConns
                BY <2>3, Sorts DEF Tabled, FwdType
            <4> QED BY <2>4, <4>1 DEF Follows
        <3> QED BY <1>1, <2>3, <3>1, <3>2, EntriesKept
    <2> QED BY <1>2, <1>4, <1>6, <2>3, <2>4, <2>5 DEF TableInv
<1>7. ASSUME NEW n \in Nums, OpeningError(n)
      PROVE  TableInv'
    <2>1. {n} \in SUBSET Nums /\ {fwd[n].conn} = {fwd[p].conn : p \in {n}}
        OBVIOUS
    <2>2. PICK K : K = {fwd[n].conn}
        OBVIOUS
    <2>3. /\ srv' = Failed(srv, K) /\ requests' = Released(requests, fwd, {n})
          /\ fwd' = Freed(fwd, {n})
        BY <1>7, <2>2 DEF OpeningError
    <2>4. /\ Tabled(requests', fwd') /\ Entered(requests', fwd', srv', nconn)
          /\ Served(srv', nconn) /\ Peered(channels, srv')
        BY <2>1, <2>2, <2>3, Refusing
    <2>5. \A r \in Requests :
             /\ requests'[r].deleted = requests[r].deleted /\ requests'[r].spec = requests[r].spec
             /\ requests'[r].lookup \in {0, requests[r].lookup}
        BY <2>3, ReleasedIs DEF TableInv
    <2> QED BY <1>2, <1>4, <2>4, <2>5 DEF TableInv
<1> QED BY <1>5, <1>6, <1>7 DEF OnFdConnect, Holder

LEMMA SlotRegistered ==
    ASSUME TableInv, FreeSlots # {}, NEW k \in 1..MaxConns, NEW n \in Nums \cup {None},
           Registered(n, k), NEW t, Others(t, k),
           t[k].st \in {"asked", "failed"}, t[k].peer = None
    PROVE  Peered(channels', t)
<1>1. PICK i \in Slots : /\ ~channels[i].used
                          /\ channels' = [channels EXCEPT ![i] = SlotFor(n, k, k)]
    BY SlotFree DEF Registered, SlotFor
<1>2. Turns(srv, t, k, i, n)
    BY DEF Turns, Others
<1>3. PICK m \in {None, k} : m = k
    OBVIOUS
<1>4. /\ Peered(channels, srv) /\ i \in Slots /\ ~channels[i].used /\ k \in 1..MaxConns
      /\ n \in Nums \cup {None} /\ m \in {None, k}
      /\ channels' = [channels EXCEPT ![i] = SlotFor(n, m, k)]
    BY <1>1, <1>3 DEF TableInv
<1> QED BY <1>2, <1>4, SlotTaken

\* The server's connection has its FWDChannel; the lookups are those there were.
LEMMA Admitting ==
    ASSUME TableInv, nconn < MaxConns, NEW n, Allocated(n), NEW r \in Requests, NEW k, k = nconn + 1,
           NEW e \in FwdType, e.request = r, e.conn = k, e.status # {},
           e.sock # None \/ requests[r].lookup # 0,
           NEW t, Served(t, k), Others(t, k), t[k].st = "asked", t[k].failures = 0
    PROVE  /\ Tabled(Counted(r), [fwd EXCEPT ![n] = e])
           /\ Entered(Counted(r), [fwd EXCEPT ![n] = e], t, k)
           /\ Looked(Counted(r), k, resolving, wm) /\ Asked(Counted(r), setup)
<1>1. PICK p : p = Counted(r)
    OBVIOUS
<1>2. /\ More(p, r, k)
      /\ \A x \in Requests : /\ p[x].lookup = requests[x].lookup /\ p[x].deleted = requests[x].deleted
                              /\ p[x].spec = requests[x].spec
    BY <1>1, Counting, CountedIs
<1>3. Tabled(p, [fwd EXCEPT ![n] = e]) /\ Entered(p, [fwd EXCEPT ![n] = e], t, k)
    BY <1>2, Entering
<1>4. Looked(p, k, resolving, wm)
    <2>1. k \in Nat /\ nconn \in Nat /\ nconn <= k /\ requests \in [Requests -> RequestType]
          /\ resolving \subseteq Thread
        BY NewConn, Sorts
    <2> QED BY <1>2, <2>1, LookupsKept DEF TableInv
<1>5. Asked(p, setup)
    BY <1>2 DEF TableInv, Asked
<1> QED BY <1>1, <1>3, <1>4, <1>5

\* It starts a lookup of its own.
LEMMA AdmittingFirst ==
    ASSUME TableInv, nconn < MaxConns, NEW n, Allocated(n), NEW r \in Requests, ~requests[r].deleted,
           NEW k, k = nconn + 1,
           NEW e \in FwdType, e.request = r, e.conn = k, e.status # {},
           NEW t, Served(t, k), Others(t, k), t[k].st = "asked", t[k].failures = 0,
           NEW p, p = [Counted(r) EXCEPT ![r].lookup = k],
           NEW res, res = resolving \cup {[handle |-> k, request |-> r, done |-> FALSE]}
    PROVE  /\ Tabled(p, [fwd EXCEPT ![n] = e]) /\ Entered(p, [fwd EXCEPT ![n] = e], t, k)
           /\ Looked(p, k, res, wm) /\ Asked(p, setup)
<1>1. /\ k \in Nat /\ nconn \in Nat /\ nconn <= k /\ k # 0 /\ k \in 0..MaxConns
      /\ requests \in [Requests -> RequestType] /\ resolving \subseteq Thread
    BY NewConn, Sorts
<1>2. Counted(r) \in [Requests -> RequestType]
    BY Counting DEF Tabled
<1>3. /\ p \in [Requests -> RequestType]
      /\ \A x \in Requests :
           /\ p[x].num_channels = Counted(r)[x].num_channels /\ p[x].deleted = requests[x].deleted
           /\ p[x].spec = requests[x].spec
           /\ p[x].lookup = IF x = r THEN k ELSE requests[x].lookup
    BY <1>1, <1>2, CountedIs DEF RequestType
<1>4. More(p, r, k) /\ p[r].lookup # 0
    BY <1>1, <1>3 DEF More
<1>5. Tabled(p, [fwd EXCEPT ![n] = e]) /\ Entered(p, [fwd EXCEPT ![n] = e], t, k)
    <2>1. PICK q : q = p
        OBVIOUS
    <2>2. Tabled(q, [fwd EXCEPT ![n] = e]) /\ Entered(q, [fwd EXCEPT ![n] = e], t, k)
        BY <1>4, <2>1, Entering
    <2> QED BY <2>1, <2>2
<1>6. Looked(p, k, res, wm)
    <2>1. PICK x \in Thread : res = resolving \cup {x} /\ x.handle = k
        <3> DEFINE x == [handle |-> k, request |-> r, done |-> FALSE]
        <3>1. x \in Thread /\ x.handle = k /\ res = resolving \cup {x}
            BY <1>1 DEF Thread
        <3> HIDE DEF x
        <3> QED BY <3>1
    <2>2. \A h : h = k \/ Coming(h, resolving, wm) => Coming(h, res, wm)
        BY <2>1 DEF Coming
    <2>3. \A y \in Requests : requests[y].lookup \in Nat /\ requests[y].lookup <= nconn
        BY <1>1 DEF TableInv, Looked, RequestType
    <2>4. \A y \in Requests : requests[y].lookup # k
        BY <1>1, <2>3
    <2>5. ASSUME NEW y \in Requests
          PROVE  /\ p[y].lookup <= k
                 /\ ~p[y].deleted /\ p[y].lookup # 0 => Coming(p[y].lookup, res, wm)
                 /\ \A z \in Requests : p[y].lookup # 0 /\ p[z].lookup = p[y].lookup => z = y
        <3>1. p[y].lookup <= k
            BY <1>1, <1>3, <2>3
        <3>2. ~p[y].deleted /\ p[y].lookup # 0 => Coming(p[y].lookup, res, wm)
            BY <1>3, <2>2 DEF TableInv, Looked
        <3>3. \A z \in Requests : p[y].lookup # 0 /\ p[z].lookup = p[y].lookup => z = y
            BY <1>3, <2>4 DEF TableInv, Looked
        <3> QED BY <3>1, <3>2, <3>3
    <2> QED BY <1>1, <2>1, <2>5 DEF Looked
<1>7. Asked(p, setup)
    BY <1>3 DEF TableInv, Asked
<1> QED BY <1>5, <1>6, <1>7

LEMMA OneReleased ==
    ASSUME NEW q, NEW f, Tabled(q, f), NEW n \in Nums,
           NEW p, p = Released(q, f, {n}), NEW g, g = Freed(f, {n})
    PROVE  /\ Tabled(p, g)
           /\ \A x \in Requests :
                /\ p[x].deleted = q[x].deleted /\ p[x].spec = q[x].spec
                /\ \/ p[x].lookup = q[x].lookup
                   \/ p[x].lookup = 0 /\ q[x].deleted
<1>1. PICK N \in SUBSET Nums : N = {n}
    OBVIOUS
<1>2. Tabled(Released(q, f, N), Freed(f, N))
    BY GivenBack
<1>3. \A x \in Requests :
         /\ Released(q, f, N)[x].deleted = q[x].deleted /\ Released(q, f, N)[x].spec = q[x].spec
         /\ \/ Released(q, f, N)[x].lookup = q[x].lookup
            \/ Released(q, f, N)[x].lookup = 0 /\ q[x].deleted
    BY ReleasedIs
<1> QED BY <1>1, <1>2, <1>3

\* Its connect fails at once: the FWDChannel is given back, and the table is as it was.
Alike(p) ==
    \A x \in Requests :
       /\ p[x].deleted = requests[x].deleted /\ p[x].spec = requests[x].spec
       /\ \/ p[x].lookup = requests[x].lookup
          \/ p[x].lookup = 0 /\ requests[x].deleted
LEMMA Rejecting ==
    ASSUME TableInv, nconn < MaxConns, NEW k, k = nconn + 1, NEW t, Others(t, k),
           NEW q, Alike(q), NEW f, Tabled(q, f), NEW n \in Nums,
           NEW p, p = Released(q, f, {n}), NEW g, g = Freed(f, {n})
    PROVE  /\ Tabled(p, g) /\ Entered(p, fwd, t, k)
           /\ Looked(p, k, resolving, wm) /\ Asked(p, setup)
<1>1. /\ k \in Nat /\ nconn \in Nat /\ nconn <= k
      /\ requests \in [Requests -> RequestType] /\ resolving \subseteq Thread
      /\ fwd \in [Nums -> FwdType] /\ Follows(srv, t, {fwd[m].conn : m \in Nums})
    BY NewConn, Sorts
<1>2. Tabled(p, g) /\ \A x \in Requests :
         /\ p[x].deleted = q[x].deleted /\ p[x].spec = q[x].spec
         /\ \/ p[x].lookup = q[x].lookup
            \/ p[x].lookup = 0 /\ q[x].deleted
    BY OneReleased
<1>3. Alike(p)
    BY <1>2 DEF Alike
<1>4. Entered(p, fwd, t, k)
    <2>1. Keeps(requests, p, fwd)
        BY <1>3 DEF Alike, Keeps
    <2> QED BY <1>1, <2>1, EntriesKept DEF TableInv
<1>5. Looked(p, k, resolving, wm)
    <2>1. \A x \in Requests :
             /\ p[x].lookup = 0 \/ (p[x].lookup = requests[x].lookup /\ (requests[x].deleted => p[x].deleted))
             /\ p[x].lookup # 0 /\ ~p[x].deleted /\ Coming(p[x].lookup, resolving, wm)
                    => Coming(p[x].lookup, resolving, wm)
        BY <1>3 DEF Alike
    <2> QED BY <1>1, <2>1, LookupsKept DEF TableInv
<1>6. Asked(p, setup)
    BY <1>3 DEF TableInv, Asked, Alike
<1> QED BY <1>2, <1>4, <1>5, <1>6

LEMMA ServerOpening ==
    ASSUME TableInv, NEW port, ServerOpens(port)
    PROVE  TableInv'
<1>1. PICK k : k = nconn + 1
    OBVIOUS
<1>2. PICK s : s = [srv EXCEPT ![k].st = "asked"]
    OBVIOUS
<1>3. nconn < MaxConns /\ nconn' = k /\ FreeSlots # {} /\ edits' = edits /\ setup' = setup
    BY <1>1 DEF ServerOpens
<1>4. /\ k \in 1..MaxConns /\ k \in Nat /\ nconn \in Nat /\ nconn <= k /\ k # 0
      /\ \A t : Others(t, k) => Follows(srv, t, {fwd[n].conn : n \in Nums})
      /\ requests \in [Requests -> RequestType] /\ resolving \subseteq Thread
      /\ nsock \in 0..MaxSocks /\ MaxSocks \in Nat
    BY <1>1, <1>3, NewConn, Sorts
<1>5. /\ Served(s, k) /\ Others(s, k)
      /\ s[k].st = "asked" /\ s[k].peer = None /\ s[k].failures = 0
    BY <1>1, <1>2, <1>3, AskedIs
<1>6. ASSUME NEW t, t = s \/ t = Failed(s, {k})
      PROVE  /\ Served(t, k) /\ Others(t, k)
             /\ t[k].st \in {"asked", "failed"} /\ t[k].peer = None
    BY <1>4, <1>5, <1>6, Asking
<1>7. ASSUME NEW n \in Nums \cup {None}, Registered(n, k), NEW t, t = s \/ t = Failed(s, {k})
      PROVE  Peered(channels', t)
    BY <1>3, <1>4, <1>6, <1>7, SlotRegistered
<1>8. CASE /\ srv' = Failed(s, {k}) /\ Registered(None, k)
           /\ UNCHANGED <<requests, fwd, wm, resolving, connecting, nsock>>
    <2>1. PICK t : t = srv'
        OBVIOUS
    <2>2. Served(t, k) /\ Others(t, k) /\ Peered(channels', t)
        BY <1>6, <1>7, <1>8, <2>1
    <2>3. Entered(requests, fwd, t, k)
        <3>1. Keeps(requests, requests, fwd) /\ Follows(srv, t, {fwd[n].conn : n \in Nums})
            BY <1>4, <2>2 DEF Keeps
        <3> QED BY <1>4, <3>1, EntriesKept DEF TableInv
    <2>4. Looked(requests, k, resolving, wm)
        BY <1>4, LookupsKept DEF TableInv
    <2> QED BY <1>3, <1>8, <2>1, <2>2, <2>3, <2>4 DEF TableInv
<1>9. ASSUME NEW n \in Nums, NEW r, r = Least(Matches(port)), Matches(port) # {},
             Allocated(n), Registered(n, k),
             NEW e, e = [status |-> {"REMOTE_CONNECTED"}, sock |-> None, request |-> r, conn |-> k]
      PROVE  /\ r \in Requests /\ ~requests[r].deleted
             /\ e \in FwdType /\ e.request = r /\ e.conn = k /\ e.status # {} /\ e.sock = None
             /\ [e EXCEPT !.sock = nsock + 1] \in FwdType /\ [e EXCEPT !.sock = nsock + 1].request = r
             /\ [e EXCEPT !.sock = nsock + 1].conn = k /\ [e EXCEPT !.sock = nsock + 1].status # {}
             /\ [e EXCEPT !.sock = nsock + 1].sock # None
    <2>1. Matches(port) \in SUBSET Nat
        BY Numbers DEF Matches
    <2>2. r \in Matches(port)
        BY <1>9, <2>1, LeastIs
    <2>3. nsock + 1 \in Nat /\ nsock + 1 # None /\ {"REMOTE_CONNECTED"} \in SUBSET (Both \cup {"CLOSED_LOCAL"})
        BY <1>4, Numbers DEF Both
    <2>4. k \in 0..MaxConns
        BY <1>4
    <2> QED BY <1>9, <2>2, <2>3, <2>4 DEF Matches, FwdType
<1>10. ASSUME NEW n \in Nums, NEW r \in Requests, ~requests[r].deleted,
              Allocated(n), Registered(n, k), NEW e \in FwdType,
              e.request = r, e.conn = k, e.status # {}, e.sock # None \/ requests[r].lookup # 0,
              fwd' = [fwd EXCEPT ![n] = e], requests' = Counted(r), srv' = s,
              UNCHANGED <<wm, resolving>>, nsock' \in 0..MaxSocks
       PROVE  TableInv'
    <2>1. /\ Tabled(Counted(r), [fwd EXCEPT ![n] = e])
          /\ Entered(Counted(r), [fwd EXCEPT ![n] = e], s, k)
          /\ Looked(Counted(r), k, resolving, wm) /\ Asked(Counted(r), setup)
        BY <1>1, <1>3, <1>5, <1>10, Admitting
    <2>2. Peered(channels', s)
        BY <1>7, <1>10
    <2> QED BY <1>3, <1>5, <1>10, <2>1, <2>2 DEF TableInv, Bounded
<1>11. CASE /\ Matches(port) # {}
             /\ \E n \in Nums :
                  LET r == Least(Matches(port))
                      q == Counted(r)
                      e == [status |-> {"REMOTE_CONNECTED"}, sock |-> None,
                                request |-> r, conn |-> k]
                      f == [fwd EXCEPT ![n] = e]
                  IN /\ Allocated(n)
                     /\ Registered(n, k)
                     /\ \/ /\ requests[r].lookup # 0
                           /\ requests' = q /\ fwd' = f /\ srv' = s
                           /\ UNCHANGED <<wm, resolving, nsock>>
                        \/ /\ requests' = [q EXCEPT ![r].lookup = k]
                           /\ resolving' = resolving \cup {[handle |-> k, request |-> r, done |-> FALSE]}
                           /\ fwd' = f /\ srv' = s
                           /\ UNCHANGED <<wm, nsock>>
                        \/ /\ nsock < MaxSocks
                           /\ nsock' = nsock + 1
                           /\ fwd' = [f EXCEPT ![n].sock = nsock + 1]
                           /\ requests' = q /\ srv' = s
                           /\ UNCHANGED <<wm, resolving>>
                        \/ /\ srv' = Failed(s, {k})
                           /\ requests' = Released(q, f, {n})
                           /\ fwd' = Freed(f, {n})
                           /\ UNCHANGED <<wm, resolving, nsock>>
    <2> DEFINE r == Least(Matches(port))
               e == [status |-> {"REMOTE_CONNECTED"}, sock |-> None, request |-> r, conn |-> k]
    <2>1. PICK n \in Nums :
             /\ Allocated(n) /\ Registered(n, k)
             /\ \/ /\ requests[r].lookup # 0
                   /\ requests' = Counted(r) /\ fwd' = [fwd EXCEPT ![n] = e] /\ srv' = s
                   /\ UNCHANGED <<wm, resolving, nsock>>
                \/ /\ requests' = [Counted(r) EXCEPT ![r].lookup = k]
                   /\ resolving' = resolving \cup {[handle |-> k, request |-> r, done |-> FALSE]}
                   /\ fwd' = [fwd EXCEPT ![n] = e] /\ srv' = s
                   /\ UNCHANGED <<wm, nsock>>
                \/ /\ nsock < MaxSocks
                   /\ nsock' = nsock + 1
                   /\ fwd' = [[fwd EXCEPT ![n] = e] EXCEPT ![n].sock = nsock + 1]
                   /\ requests' = Counted(r) /\ srv' = s
                   /\ UNCHANGED <<wm, resolving>>
                \/ /\ srv' = Failed(s, {k})
                   /\ requests' = Released(Counted(r), [fwd EXCEPT ![n] = e], {n})
                   /\ fwd' = Freed([fwd EXCEPT ![n] = e], {n})
                   /\ UNCHANGED <<wm, resolving, nsock>>
        BY <1>11
    <2>2. /\ r \in Requests /\ ~requests[r].deleted
          /\ e \in FwdType /\ e.request = r /\ e.conn = k /\ e.status # {} /\ e.sock = None
          /\ [e EXCEPT !.sock = nsock + 1] \in FwdType /\ [e EXCEPT !.sock = nsock + 1].request = r
          /\ [e EXCEPT !.sock = nsock + 1].conn = k /\ [e EXCEPT !.sock = nsock + 1].status # {}
          /\ [e EXCEPT !.sock = nsock + 1].sock # None
        BY <1>9, <1>11, <2>1
    <2> HIDE DEF r, e
    <2>3. Peered(channels', srv')
        BY <1>7, <2>1
    <2>4. CASE /\ requests[r].lookup # 0
               /\ requests' = Counted(r) /\ fwd' = [fwd EXCEPT ![n] = e] /\ srv' = s
               /\ UNCHANGED <<wm, resolving, nsock>>
        BY <1>4, <1>10, <2>1, <2>2, <2>4
    <2>5. CASE /\ nsock < MaxSocks
               /\ nsock' = nsock + 1
               /\ fwd' = [[fwd EXCEPT ![n] = e] EXCEPT ![n].sock = nsock + 1]
               /\ requests' = Counted(r) /\ srv' = s
               /\ UNCHANGED <<wm, resolving>>
        <3>1. PICK x \in FwdType : x = [e EXCEPT !.sock = nsock + 1]
            BY <2>2
        <3>2. fwd' = [fwd EXCEPT ![n] = x]
            <4>1. fwd \in [Nums -> FwdType]
                BY Sorts
            <4> QED BY <2>2, <2>5, <3>1, <4>1
        <3>3. nsock' \in 0..MaxSocks
            BY <1>4, <2>5
        <3>4. x.request = r /\ x.conn = k /\ x.status # {} /\ x.sock # None
            BY <2>2, <3>1
        <3> QED BY <1>10, <2>1, <2>2, <2>5, <3>2, <3>3, <3>4
    <2>6. CASE /\ requests' = [Counted(r) EXCEPT ![r].lookup = k]
               /\ resolving' = resolving \cup {[handle |-> k, request |-> r, done |-> FALSE]}
               /\ fwd' = [fwd EXCEPT ![n] = e] /\ srv' = s
               /\ UNCHANGED <<wm, nsock>>
        <3>1. /\ Tabled(requests', [fwd EXCEPT ![n] = e]) /\ Entered(requests', [fwd EXCEPT ![n] = e], s, k)
              /\ Looked(requests', k, resolving', wm) /\ Asked(requests', setup)
            BY <1>1, <1>3, <1>5, <2>1, <2>2, <2>6, AdmittingFirst
        <3> QED BY <1>3, <1>5, <2>3, <2>6, <3>1 DEF TableInv
    <2>7. CASE /\ srv' = Failed(s, {k})
               /\ requests' = Released(Counted(r), [fwd EXCEPT ![n] = e], {n})
               /\ fwd' = Freed([fwd EXCEPT ![n] = e], {n})
               /\ UNCHANGED <<wm, resolving, nsock>>
        <3>1. PICK t : t = srv'
            OBVIOUS
        <3>2. PICK f : f = [fwd EXCEPT ![n] = e]
            OBVIOUS
        <3>3. requests' = Released(Counted(r), f, {n}) /\ fwd' = Freed(f, {n})
            BY <2>7, <3>2
        <3>4. Served(t, k) /\ Others(t, k)
            BY <1>6, <2>7, <3>1
        <3>5. PICK q : q = Counted(r)
            OBVIOUS
        <3>6. Tabled(q, f) /\ fwd[n] = FreeFwdEntry
            BY <2>1, <2>2, <3>2, <3>5, Counting
        <3>7. Alike(q)
            BY <2>2, <3>5, CountedIs DEF Alike
        <3>8. requests' = Released(q, f, {n})
            BY <3>3, <3>5
        <3>9. /\ Tabled(requests', fwd') /\ Entered(requests', fwd, t, k)
              /\ Looked(requests', k, resolving, wm) /\ Asked(requests', setup)
            BY <1>1, <1>3, <3>3, <3>4, <3>6, <3>7, <3>8, Rejecting
        <3>10. fwd' = fwd
            <4>1. fwd \in [Nums -> FwdType]
                BY Sorts
            <4> QED BY <3>2, <3>3, <3>6, <4>1 DEF Freed
        <3> QED BY <1>3, <2>3, <2>7, <3>1, <3>4, <3>9, <3>10 DEF TableInv
    <2> QED BY <2>1, <2>4, <2>5, <2>6, <2>7
<1> QED BY <1>1, <1>2, <1>8, <1>11 DEF ServerOpens

\* The user's edit: requests are kept, deleted or, having no FWDChannel, used again.
LEMMA DeletedIs ==
    ASSUME NEW e \in RequestType
    PROVE  /\ Deleted(e) \in RequestType /\ Deleted(e).num_channels = e.num_channels
           /\ Deleted(e).deleted /\ Deleted(e).spec = e.spec
           /\ Deleted(e).lookup = 0 \/ Deleted(e).lookup = e.lookup
<1>0. 0 \in 0..MaxConns
    BY TableAssumption
<1>1. CASE e.num_channels = 0
    <2>1. Deleted(e) = [e EXCEPT !.deleted = TRUE, !.lookup = 0]
        BY <1>1 DEF Deleted
    <2> QED BY <1>0, <2>1 DEF RequestType
<1>2. CASE e.num_channels # 0
    <2>1. Deleted(e) = [e EXCEPT !.deleted = TRUE, !.lookup = e.lookup]
        BY <1>2 DEF Deleted, RequestType
    <2> QED BY <2>1 DEF RequestType
<1> QED BY <1>1, <1>2

LEMMA EditIs ==
    ASSUME TableInv, SetRequestSpecs
    PROVE  /\ requests' \in [Requests -> RequestType]
           /\ \A r \in Requests :
                /\ requests'[r].num_channels = requests[r].num_channels
                /\ requests'[r].spec \in setup.specs
                /\ \/ requests'[r].lookup = 0
                   \/ requests'[r].lookup = requests[r].lookup /\ (requests[r].deleted => requests'[r].deleted)
                /\ requests[r].num_channels # 0 /\ ~requests'[r].deleted => requests'[r] = requests[r]
<1>1. requests \in [Requests -> RequestType] /\ setup.specs \subseteq Forward
    BY Sorts
<1>3. PICK first, q, a :
         /\ first \in SUBSET Requests
         /\ \A r \in Requests : q[r] = requests[r] \/ q[r] = Deleted(requests[r])
         /\ \A r \in first : Reusable(q[r]) /\ a[r] \in setup.specs
         /\ requests' = [r \in Requests |->
                IF r \in first THEN [Request(a[r]) EXCEPT !.num_channels = q[r].num_channels]
                ELSE q[r]]
    <2>1. PICK S \in Editable :
             LET kept  == {r \in Requests : ~requests[r].deleted /\ requests[r].spec \in S}
                 q     == [r \in Requests |-> IF r \in kept \/ requests[r].deleted
                                                THEN requests[r] ELSE Deleted(requests[r])]
                 new   == S \ {requests[r].spec : r \in kept}
                 room  == {r \in Requests : Reusable(q[r])}
                 first == {r \in room : Cardinality({p \in room : p < r}) < Cardinality(new)}
             IN \E a \in [first -> new] :
                    requests' = [r \in Requests |->
                       IF r \in first
                         THEN [Request(a[r]) EXCEPT !.num_channels = q[r].num_channels]
                         ELSE q[r]]
        BY DEF SetRequestSpecs
    <2> DEFINE kept  == {r \in Requests : ~requests[r].deleted /\ requests[r].spec \in S}
               q     == [r \in Requests |-> IF r \in kept \/ requests[r].deleted
                                              THEN requests[r] ELSE Deleted(requests[r])]
               new   == S \ {requests[r].spec : r \in kept}
               room  == {r \in Requests : Reusable(q[r])}
               first == {r \in room : Cardinality({p \in room : p < r}) < Cardinality(new)}
    <2>2. PICK a \in [first -> new] :
             requests' = [r \in Requests |->
                IF r \in first THEN [Request(a[r]) EXCEPT !.num_channels = q[r].num_channels]
                ELSE q[r]]
        BY <2>1
    <2>3. \A r \in Requests : q[r] = requests[r] \/ q[r] = Deleted(requests[r])
        OBVIOUS
    <2>4. first \in SUBSET Requests /\ \A r \in first : Reusable(q[r])
        OBVIOUS
    <2>5. \A r \in first : a[r] \in setup.specs
        <3>1. new \subseteq setup.specs
            BY DEF Editable
        <3> QED BY <3>1
    <2> HIDE DEF first, q, new, kept, room
    <2> QED BY <2>2, <2>3, <2>4, <2>5
<1>4. ASSUME NEW r \in Requests
      PROVE  /\ requests'[r] \in RequestType
             /\ requests'[r].num_channels = requests[r].num_channels
             /\ requests'[r].spec \in setup.specs
             /\ \/ requests'[r].lookup = 0
                \/ requests'[r].lookup = requests[r].lookup /\ (requests[r].deleted => requests'[r].deleted)
             /\ requests[r].num_channels # 0 /\ ~requests'[r].deleted => requests'[r] = requests[r]
    <2>1. requests[r] \in RequestType /\ requests[r].spec \in setup.specs
        BY <1>1 DEF TableInv, Asked
    <2>2. /\ q[r] \in RequestType /\ q[r].num_channels = requests[r].num_channels
          /\ q[r].spec = requests[r].spec
          /\ q[r].lookup = 0 \/ q[r].lookup = requests[r].lookup
          /\ q[r] = requests[r] \/ q[r].deleted
        BY <1>3, <2>1, DeletedIs
    <2>3. CASE r \in first
        <3>1. a[r] \in Forward /\ a[r] \in setup.specs /\ q[r].num_channels = 0 /\ 0 \in 0..MaxConns
            BY <1>1, <1>3, <2>3, TableAssumption DEF Reusable
        <3>2. requests'[r] = [deleted |-> FALSE, spec |-> a[r], num_channels |-> 0,
                              addrs |-> FALSE, lookup |-> 0]
            BY <1>3, <2>3, <3>1 DEF Request
        <3> QED BY <2>2, <3>1, <3>2 DEF RequestType
    <2>4. CASE r \notin first
        <3>1. requests'[r] = q[r]
            BY <1>3, <2>4
        <3> QED BY <2>1, <2>2, <3>1
    <2> QED BY <2>3, <2>4
<1>5. requests' \in [Requests -> RequestType]
    BY <1>3, <1>4
<1> QED BY <1>4, <1>5

LEMMA Editing ==
    ASSUME TableInv, SetRequestSpecs
    PROVE  TableInv'
<1>1. /\ requests \in [Requests -> RequestType] /\ fwd \in [Nums -> FwdType]
      /\ nconn \in Nat /\ nconn <= nconn /\ resolving \subseteq Thread
      /\ setup.edits \in Nat /\ edits \in 0..setup.edits
    BY Sorts, TableAssumption DEF Setup, TableInv, Bounded
<1>2. /\ edits < setup.edits /\ edits' = edits + 1
      /\ UNCHANGED <<fwd, channels, wm, resolving, connecting, srv, nconn, nsock, setup>>
    BY DEF SetRequestSpecs
<1>4. \A r \in Requests :
         /\ requests'[r].num_channels = requests[r].num_channels
         /\ requests'[r].spec \in setup.specs
         /\ \/ requests'[r].lookup = 0
            \/ requests'[r].lookup = requests[r].lookup /\ (requests[r].deleted => requests'[r].deleted)
         /\ requests[r].num_channels # 0 /\ ~requests'[r].deleted => requests'[r] = requests[r]
    BY EditIs
<1>5. requests' \in [Requests -> RequestType]
    BY EditIs
<1>6. Tabled(requests', fwd)
    BY <1>4, <1>5, SameCounts DEF TableInv
<1>7. Keeps(requests, requests', fwd)
    <2>1. ASSUME NEW r \in Requests, Users(fwd, r) # {} PROVE requests[r].num_channels # 0
        <3>1. Cardinality(Users(fwd, r)) # 0
            BY <2>1, UsersFinite, FS_EmptySet
        <3> QED BY <3>1 DEF TableInv, Tabled
    <2> QED BY <1>4, <2>1 DEF Keeps
<1>8. Entered(requests', fwd, srv, nconn)
    <2>1. Follows(srv, srv, {fwd[n].conn : n \in Nums})
        BY DEF Follows
    <2> QED BY <1>1, <1>7, <2>1, EntriesKept DEF TableInv
<1>9. Looked(requests', nconn, resolving, wm)
    BY <1>1, <1>4, LookupsKept DEF TableInv
<1>10. Bounded(nsock, edits', setup) /\ Asked(requests', setup)
    BY <1>1, <1>2, <1>4 DEF TableInv, Bounded, Asked
<1> QED BY <1>2, <1>6, <1>8, <1>9, <1>10 DEF TableInv

-----------------------------------------------------------------------------
(* The invariant of the tables, and what is told to the server.             *)

LEMMA TableStarts ==
    ASSUME TableInit
    PROVE  TableInv
<1>1. /\ MaxConns \in Nat /\ MaxSocks \in Nat /\ 0 \in 0..MaxConns /\ 0 \in 0..MaxSocks
      /\ setup \in Setups /\ setup.edits \in Nat /\ setup.specs \subseteq Forward
      /\ setup.init \in [Requests -> setup.specs]
    BY TableAssumption DEF TableInit, Setup
<1>2. \A r \in Requests : /\ requests[r] \in RequestType /\ requests[r].num_channels = 0
                          /\ requests[r].lookup = 0 /\ requests[r].spec \in setup.specs
    BY <1>1 DEF TableInit, Request, RequestType
<1>3. requests \in [Requests -> RequestType]
    BY <1>2 DEF TableInit
<1>4. FreeFwdEntry \in FwdType /\ FreeFwdEntry.request = None
    BY <1>1 DEF FreeFwdEntry, FwdType
<1>5. Tabled(requests, fwd)
    <2>1. \A r \in Requests : Users(fwd, r) = {}
        BY <1>4, Numbers DEF TableInit, Users
    <2>2. Cardinality({}) = 0
        BY FS_EmptySet
    <2> QED BY <1>2, <1>3, <1>4, <2>1, <2>2 DEF TableInit, Tabled
<1>6. Entered(requests, fwd, srv, nconn)
    <2>1. EntryOK(requests, srv, nconn, FreeFwdEntry) /\ FreeFwdEntry.conn = 0
        BY FreeOK DEF FreeFwdEntry
    <2> QED BY <2>1 DEF TableInit, Entered
<1>7. Served(srv, nconn)
    <2>1. [st |-> "none", peer |-> None, confirms |-> 0, failures |-> 0, eofs |-> 0] \in SrvType
        BY DEF SrvType
    <2> QED BY <1>1, <2>1 DEF TableInit, Served, Fresh
<1>8. Looked(requests, nconn, resolving, wm)
    BY <1>2 DEF TableInit, Looked
<1>9. Peered(channels, srv)
    <2>1. Shell \in SlotType /\ FreeSlot \in SlotType
        BY <1>1, TableAssumption DEF Shell, FreeSlot, SlotType, Nums
    <2>2. Shell.used /\ Shell.remote \notin 1..MaxConns /\ FreeSlot.remote \notin 1..MaxConns
        BY <1>1 DEF Shell, FreeSlot
    <2>3. \A k \in 1..MaxConns : srv[k].st = "none"
        BY DEF TableInit
    <2>4. channels \in [Slots -> SlotType]
        BY <2>1 DEF TableInit
    <2> QED BY <2>2, <2>3, <2>4 DEF TableInit, Peered
<1>10. Bounded(nsock, edits, setup) /\ Asked(requests, setup)
    BY <1>1, <1>2 DEF TableInit, Bounded, Asked
<1> QED BY <1>5, <1>6, <1>7, <1>8, <1>9, <1>10 DEF TableInv

LEMMA TableSteps ==
    ASSUME TableInv, [TableNext]_tableVars
    PROVE  TableInv'
<1>1. CASE UNCHANGED tableVars
    BY <1>1 DEF tableVars, tables, TableInv
<1>2. CASE \E r \in Requests : AcceptLocalConnection(r)
    BY <1>2, Acceptance
<1>3. CASE \E n \in Nums : SocksRequest(n) \/ SocksRefused(n) \/ ClosedLocalConnection(n)
    BY <1>3, Socks, ClosedLocally
<1>4. CASE \E p \in Ports : ServerOpens(p)
    BY <1>4, ServerOpening
<1>5. CASE Threads
    BY <1>5, Looking
<1>6. CASE Winsock
    BY <1>6, Connecting DEF Winsock
<1>7. CASE \E m \in wm : GotName(m) \/ OnFdConnect(m)
    BY <1>7, GotTheName, HearingConnect
<1>8. CASE \E k \in Conns : ServerConfirms(k) \/ ServerFails(k) \/ ServerCloses(k)
    BY <1>8, Confirming, Ending
<1>9. CASE OtherOpens
    BY <1>9, OtherOpening
<1>10. CASE \E i \in Slots : OtherCloses(i)
    BY <1>10, OtherClosing
<1>11. CASE SetRequestSpecs
    BY <1>11, Editing
<1> QED BY <1>1, <1>2, <1>3, <1>4, <1>5, <1>6, <1>7, <1>8, <1>9, <1>10, <1>11 DEF TableNext

\* The invariant of the tables holds in every state (fwd.c, handle_SSH2_channel_open).
LEMMA TablesHold == TableSpec => []TableInv
<1>1. TableInit => TableInv
    BY TableStarts
<1>2. TableInv /\ [TableNext]_tableVars => TableInv'
    BY TableSteps
<1> QED BY <1>1, <1>2, PTL DEF TableSpec

\* A connection from the server that waits for its host's name has a lookup under way whose
\* result will find it, for as long as the user keeps the forward, and no connection is
\* refused to the server twice: however lookups, connects, closes and edits overlap
\* (create_local_channel, channel_opening_error and delete_request, fwd.c).
THEOREM ConnectionsAnswered == TableSpec => []AnsweredOnce
<1>1. TableInv => AnsweredOnce
    <2> SUFFICES ASSUME TableInv PROVE AnsweredOnce
        OBVIOUS
    <2>1. ASSUME NEW n \in Nums, fwd[n].status = {"REMOTE_CONNECTED"}, fwd[n].sock = None,
                 ~requests[fwd[n].request].deleted
          PROVE  Coming(requests[fwd[n].request].lookup, resolving, wm)
        <3>1. Waits(requests, fwd[n])
            BY DEF TableInv, Entered, EntryOK
        <3> QED BY <2>1, <3>1 DEF Waits, TableInv, Looked
    <2>2. \A k \in Conns : srv[k].failures <= 1
        BY DEF TableInv, Served, Conns
    <2> QED BY <2>1, <2>2 DEF AnsweredOnce, Coming
<1> QED BY <1>1, TablesHold, PTL

-----------------------------------------------------------------------------
(* Local forwards alone: a slot and its FWDChannel belong to one connection,   *)
(* and slot n + 1 goes with FWDChannel n until the server is denied an OPEN.   *)

Owned(c, f, s) ==
    /\ \A i \in Slots : c[i].used /\ c[i].local_num # None =>
          /\ c[i].forward /\ c[i].conn \in 1..MaxConns /\ f[c[i].local_num].conn = c[i].conn
          /\ s[c[i].conn].st \in {"asked", "open"} /\ s[c[i].conn].peer = i
    /\ \A n \in Nums : f[n].conn = 0 => f[n].status = {}
    /\ c[0] = Shell /\ \A i \in Slots \ {0} : c[i] # Shell
Undenied(c) == \A i \in Slots : c[i].used /\ c[i].forward => c[i].local_num # None
Paired(c, f) ==
    /\ \A i \in Slots \ {0} :
         /\ c[i].used => c[i].forward /\ c[i].local_num = i - 1
         /\ ~c[i].used /\ i - 1 \in Nums => f[i - 1].conn = 0
    /\ \A n \in Nums : n + 1 \notin Slots => f[n].conn = 0
Unlooked == resolving = {} /\ connecting = {} /\ wm = {}
Local ==
    /\ \A r \in Requests : requests[r].lookup = 0
    /\ Unlooked /\ Owned(channels, fwd, srv)
    /\ Undenied(channels) => Paired(channels, fwd)

LEMMA LocalSpecs ==
    ASSUME TableInv, OnlyLocalForwards
    PROVE  /\ \A r \in Requests : requests[r].spec.type = "LOCAL_TO_REMOTE"
           /\ \A n \in Nums : ~Undialled(n)
           /\ \A p : Matches(p) = {}
<1>1. \A r \in Requests : requests[r].spec.type = "LOCAL_TO_REMOTE"
    BY DEF OnlyLocalForwards, TableInv, Asked
<1>2. ASSUME NEW n \in Nums, fwd[n].conn # 0 PROVE fwd[n].request \in Requests
    <2>1. EntryOK(requests, srv, nconn, fwd[n]) /\ fwd[n] \in FwdType
        BY Sorts DEF TableInv, Entered
    <2> QED BY <1>2, <2>1 DEF EntryOK, FwdType
<1>3. \A n \in Nums : ~Undialled(n)
    BY <1>1, <1>2 DEF Undialled
<1>4. \A p : Matches(p) = {}
    BY <1>1 DEF Matches
<1> QED BY <1>1, <1>3, <1>4

\* FWDChannels and connections keep what ties them to their slots.
Tied(f, g, s, t) ==
    /\ \A n \in Nums : g[n].conn = f[n].conn /\ (g[n].conn = 0 => g[n].status = f[n].status)
    /\ \A k \in 1..MaxConns : t[k].st = s[k].st /\ t[k].peer = s[k].peer
LEMMA OwnedTied ==
    ASSUME NEW c \in [Slots -> SlotType], NEW f, NEW g, NEW s, NEW t, Owned(c, f, s), Tied(f, g, s, t)
    PROVE  Owned(c, g, t) /\ (Paired(c, f) => Paired(c, g))
<1>1. \A i \in Slots : c[i].local_num # None => c[i].local_num \in Nums
    BY DEF SlotType
<1>2. Owned(c, g, t)
    BY <1>1 DEF Owned, Tied
<1>3. Paired(c, f) => Paired(c, g)
    BY DEF Paired, Tied
<1> QED BY <1>2, <1>3

LEMMA ClosingLocal ==
    ASSUME TableInv, Local, NEW n \in Nums, ClosedLocalConnection(n)
    PROVE  Local'
<1>1. fwd \in [Nums -> FwdType] /\ srv \in [1..MaxConns -> SrvType] /\ channels \in [Slots -> SlotType]
    BY Sorts
<1>2. /\ UNCHANGED <<requests, channels, resolving, connecting>>
      /\ "LOCAL_CONNECTED" \in fwd[n].status /\ wm' \subseteq wm
    BY DEF ClosedLocalConnection, Drained
<1>3. fwd[n].conn # 0
    BY <1>2 DEF Local, Owned
<1>4. \A m \in Nums : fwd'[m].conn = fwd[m].conn /\ (m # n => fwd'[m] = fwd[m])
    BY <1>1 DEF ClosedLocalConnection, FwdType
<1>5. \A k \in 1..MaxConns : srv'[k].st = srv[k].st /\ srv'[k].peer = srv[k].peer
    BY <1>1 DEF ClosedLocalConnection, SrvType
<1>6. Tied(fwd, fwd', srv, srv')
    BY <1>3, <1>4, <1>5 DEF Tied
<1>7. Owned(channels, fwd', srv') /\ (Paired(channels, fwd) => Paired(channels, fwd'))
    BY <1>1, <1>6, OwnedTied DEF Local
<1> QED BY <1>2, <1>7 DEF Local, Unlooked, Undenied

LEMMA EditingLocal ==
    ASSUME TableInv, Local, SetRequestSpecs
    PROVE  Local'
<1>1. UNCHANGED <<fwd, channels, wm, resolving, connecting, srv>>
    BY DEF SetRequestSpecs
<1>2. \A r \in Requests : requests'[r].lookup \in {0, requests[r].lookup}
    BY EditIs
<1> QED BY <1>1, <1>2 DEF Local, Unlooked, Owned, Undenied, Paired

LEMMA DenyingLocal ==
    ASSUME TableInv, Local, OnlyLocalForwards, NEW p, ServerOpens(p)
    PROVE  Local'
<1>1. PICK k : k = nconn + 1
    OBVIOUS
<1>2. PICK s : s = [srv EXCEPT ![k].st = "asked"]
    OBVIOUS
<1>3. /\ nconn < MaxConns /\ FreeSlots # {} /\ srv' = Failed(s, {k}) /\ Registered(None, k)
      /\ UNCHANGED <<requests, fwd, wm, resolving, connecting>>
    BY <1>1, <1>2, LocalSpecs DEF ServerOpens
<1>4. k \in 1..MaxConns /\ k \in Nat /\ \A n \in Nums : fwd[n].conn # k
    BY <1>1, <1>3, NewConn
<1>5. /\ Served(s, k) /\ Others(s, k)
      /\ s[k].st = "asked" /\ s[k].peer = None /\ s[k].failures = 0
    BY <1>1, <1>2, <1>3, AskedIs
<1>6. Others(srv', k)
    BY <1>3, <1>4, <1>5, Asking
<1>7. PICK i \in Slots : ~channels[i].used /\ channels' = [channels EXCEPT ![i] = SlotFor(None, k, k)]
    BY <1>3, SlotFree DEF Registered, SlotFor
<1>8. channels \in [Slots -> SlotType]
    BY Sorts
<1>9. i # 0 /\ \A j \in Slots : channels'[j] = IF j = i THEN SlotFor(None, k, k) ELSE channels[j]
    BY <1>7, <1>8 DEF Local, Owned, Shell
<1>10. /\ SlotFor(None, k, k).local_num = None /\ SlotFor(None, k, k) # Shell
       /\ SlotFor(None, k, k).used /\ SlotFor(None, k, k).forward
    BY DEF SlotFor, Shell
<1>11. ~Undenied(channels')
    BY <1>9, <1>10 DEF Undenied
<1>12. Owned(channels', fwd, srv')
    <2>1. \A j \in Slots : channels[j].local_num # None => channels[j].local_num \in Nums
        BY <1>8 DEF SlotType
    <2>2. \A j \in Slots : channels[j].used /\ channels[j].local_num # None => channels[j].conn # k
        BY <1>4, <2>1 DEF Local, Owned
    <2>3. 0 \in Slots
        BY Numbers
    <2> QED BY <1>6, <1>9, <1>10, <2>2, <2>3 DEF Local, Owned, Others
<1> QED BY <1>3, <1>11, <1>12 DEF Local, Unlooked

Stated(s, t, k, x) ==
    t = [s EXCEPT ![k].st = x] \/ t = [s EXCEPT ![k].st = x, ![k].eofs = @ + 1]
OnlyStateOf(s, t, k, x) ==
    \A j \in 1..MaxConns :
       /\ t[j].peer = s[j].peer /\ t[j].st = IF j = k THEN x ELSE s[j].st
       /\ j # k => t[j] = s[j]
LEMMA StateSet ==
    ASSUME NEW s, NEW nc, Served(s, nc), NEW k \in 1..MaxConns, NEW x, NEW t, Stated(s, t, k, x)
    PROVE  OnlyStateOf(s, t, k, x)
<1>1. s \in [1..MaxConns -> SrvType] /\ s[k] \in SrvType
    BY DEF Served
<1>2. t[k].peer = s[k].peer /\ t[k].st = x
    <2>1. CASE t = [s EXCEPT ![k].st = x]
        <3>1. t[k] = [s[k] EXCEPT !.st = x]
            BY <1>1, <2>1
        <3> QED BY <1>1, <3>1 DEF SrvType
    <2>2. CASE t = [s EXCEPT ![k].st = x, ![k].eofs = @ + 1]
        <3>1. PICK c : c = s[k].eofs + 1
            OBVIOUS
        <3>2. t[k] = [s[k] EXCEPT !.st = x, !.eofs = c]
            BY <1>1, <2>2, <3>1 DEF SrvType
        <3> QED BY <1>1, <3>2 DEF SrvType
    <2> QED BY <2>1, <2>2 DEF Stated
<1>3. \A j \in 1..MaxConns : j # k => t[j] = s[j]
    BY <1>1 DEF Stated
<1> QED BY <1>2, <1>3 DEF OnlyStateOf

LEMMA ConfirmingLocal ==
    ASSUME TableInv, Local, NEW k \in Conns, ServerConfirms(k)
    PROVE  Local'
<1> DEFINE i == srv[k].peer
           n == channels[i].local_num
<1>1. /\ k \in 1..MaxConns /\ srv \in [1..MaxConns -> SrvType]
      /\ channels \in [Slots -> SlotType] /\ fwd \in [Nums -> FwdType]
    BY Sorts DEF Conns
<1>2. OwnSlot(channels, k, i) /\ srv[k].st = "asked" /\ n \in Nums /\ i \in Slots /\ n # None
    BY <1>1, Numbers DEF ServerConfirms, TableInv, Peered, OwnSlot
<1>3. /\ channels' = [channels EXCEPT ![i].remote = k]
      /\ UNCHANGED <<requests, wm, resolving, connecting>>
      /\ fwd' = [fwd EXCEPT ![n].status = @ \cup {"REMOTE_CONNECTED"}]
         \/ fwd' = [fwd EXCEPT ![n].status = @ \cup {"CLOSED_LOCAL"}]
      /\ srv' = [srv EXCEPT ![k].st = "open"]
         \/ srv' = [srv EXCEPT ![k].st = "open", ![k].eofs = @ + 1]
    BY <1>2 DEF ServerConfirms, OwnSlot
<1>4. fwd[n].conn = k /\ k # 0 /\ i # 0 /\ channels[i] # Shell
    BY <1>1, <1>2 DEF Local, Owned, OwnSlot, Shell
<1> HIDE DEF i, n
<1>5. \A m \in Nums : fwd'[m].conn = fwd[m].conn /\ (m # n => fwd'[m] = fwd[m])
    BY <1>1, <1>3 DEF FwdType
<1>6. \A j \in 1..MaxConns : /\ srv'[j].peer = srv[j].peer
                             /\ srv'[j].st = IF j = k THEN "open" ELSE srv[j].st
    <2>1. Stated(srv, srv', k, "open")
        BY <1>3 DEF Stated
    <2>2. Served(srv, nconn)
        BY DEF TableInv
    <2>3. OnlyStateOf(srv, srv', k, "open")
        BY <1>1, <2>1, <2>2, StateSet
    <2> QED BY <2>3 DEF OnlyStateOf
<1>7. \A j \in Slots : /\ channels'[j].used = channels[j].used
                       /\ channels'[j].forward = channels[j].forward
                       /\ channels'[j].local_num = channels[j].local_num
                       /\ channels'[j].conn = channels[j].conn
                       /\ j # i => channels'[j] = channels[j]
    BY <1>1, <1>3 DEF SlotType
<1>8. channels'[i].forward
    BY <1>2, <1>7 DEF OwnSlot
<1>9. \A j \in Slots : channels[j].local_num # None => channels[j].local_num \in Nums
    BY <1>1 DEF SlotType
<1>10. Owned(channels', fwd', srv')
    <2>1. \A j \in Slots : channels'[j].used /\ channels'[j].local_num # None =>
             /\ channels'[j].forward /\ channels'[j].conn \in 1..MaxConns
             /\ fwd'[channels'[j].local_num].conn = channels'[j].conn
             /\ srv'[channels'[j].conn].st \in {"asked", "open"} /\ srv'[channels'[j].conn].peer = j
        BY <1>5, <1>6, <1>7, <1>9 DEF Local, Owned
    <2>2. \A m \in Nums : fwd'[m].conn = 0 => fwd'[m].status = {}
        BY <1>4, <1>5 DEF Local, Owned
    <2>3. channels'[0] = Shell /\ \A j \in Slots \ {0} : channels'[j] # Shell
        <3>1. ~Shell.forward /\ 0 \in Slots
            BY Numbers DEF Shell
        <3> QED BY <1>4, <1>7, <1>8, <3>1 DEF Local, Owned
    <2> QED BY <2>1, <2>2, <2>3 DEF Owned
<1>11. Undenied(channels') => Paired(channels', fwd')
    <2>1. Undenied(channels') => Undenied(channels)
        BY <1>7 DEF Undenied
    <2>2. Paired(channels, fwd) => Paired(channels', fwd')
        BY <1>5, <1>7 DEF Paired
    <2> QED BY <2>1, <2>2 DEF Local
<1> QED BY <1>3, <1>10, <1>11 DEF Local, Unlooked

LEMMA EndingLocal ==
    ASSUME TableInv, Local, NEW k \in Conns, ServerFails(k) \/ ServerCloses(k)
    PROVE  Local'
<1> DEFINE i == srv[k].peer
           n == channels[i].local_num
<1>1. /\ k \in 1..MaxConns /\ srv \in [1..MaxConns -> SrvType]
      /\ channels \in [Slots -> SlotType] /\ fwd \in [Nums -> FwdType]
    BY Sorts DEF Conns
<1>2. /\ srv' = [srv EXCEPT ![k].st = "failed"] \/ srv' = [srv EXCEPT ![k].st = "closed"]
      /\ srv[k].st = "open" \/ (srv[k].st = "asked" /\ srv[k].peer # None)
    BY DEF ServerFails, ServerCloses
<1>3. OwnSlot(channels, k, i) /\ i \in Slots /\ n \in Nums /\ n # None
    BY <1>1, <1>2, Numbers DEF TableInv, Peered, OwnSlot
<1>4. DeleteChannel(i) /\ UNCHANGED <<resolving, connecting>>
    BY <1>3 DEF ServerFails, ServerCloses, OwnSlot
<1>5. /\ requests' = Released(requests, fwd, {n}) /\ fwd' = Freed(fwd, {n})
      /\ wm' \subseteq wm /\ channels' = [channels EXCEPT ![i] = FreeSlot]
    <2>1. (IF channels[i].forward THEN {channels[i].local_num} \cap Nums ELSE {}) = {n}
        BY <1>3 DEF OwnSlot
    <2> QED BY <1>4, <2>1 DEF DeleteChannel, Drained
<1>6. fwd[n].conn = k /\ i # 0
    BY <1>1, <1>3 DEF Local, Owned, OwnSlot, Shell
<1> HIDE DEF i, n
<1>7. \A r \in Requests : requests'[r].lookup = 0
    <2>1. PICK N : N = {n}
        OBVIOUS
    <2>2. \A r \in Requests : Released(requests, fwd, N)[r].lookup \in {0, requests[r].lookup}
        BY ReleasedIs DEF TableInv
    <2> QED BY <1>5, <2>1, <2>2 DEF Local
<1>8. \A m \in Nums : fwd'[m] = IF m = n THEN FreeFwdEntry ELSE fwd[m]
    BY <1>1, <1>5 DEF Freed
<1>9. \A j \in Slots : channels'[j] = IF j = i THEN FreeSlot ELSE channels[j]
    BY <1>1, <1>5
<1>10. \A j \in 1..MaxConns : srv'[j].peer = srv[j].peer /\ (j # k => srv'[j] = srv[j])
    <2>1. Stated(srv, srv', k, "failed") \/ Stated(srv, srv', k, "closed")
        BY <1>2 DEF Stated
    <2>2. Served(srv, nconn)
        BY DEF TableInv
    <2>3. OnlyStateOf(srv, srv', k, "failed") \/ OnlyStateOf(srv, srv', k, "closed")
        BY <1>1, <2>1, <2>2, StateSet
    <2> QED BY <2>3 DEF OnlyStateOf
<1>11. /\ FreeFwdEntry.conn = 0 /\ FreeFwdEntry.status = {} /\ ~FreeSlot.used /\ FreeSlot # Shell
    BY DEF FreeFwdEntry, FreeSlot, Shell
<1>12. Owned(channels', fwd', srv')
    <2>1. ASSUME NEW j \in Slots, channels'[j].used, channels'[j].local_num # None
          PROVE  /\ channels'[j].forward /\ channels'[j].conn \in 1..MaxConns
                 /\ fwd'[channels'[j].local_num].conn = channels'[j].conn
                 /\ srv'[channels'[j].conn].st \in {"asked", "open"} /\ srv'[channels'[j].conn].peer = j
        <3>1. j # i /\ channels'[j] = channels[j] /\ channels[j].local_num \in Nums
            BY <1>1, <1>9, <1>11, <2>1 DEF SlotType
        <3>2. /\ channels[j].forward /\ channels[j].conn \in 1..MaxConns
              /\ fwd[channels[j].local_num].conn = channels[j].conn
              /\ srv[channels[j].conn].st \in {"asked", "open"} /\ srv[channels[j].conn].peer = j
            BY <2>1, <3>1 DEF Local, Owned
        <3>3. channels[j].conn # k
            BY <3>1, <3>2 DEF i
        <3>4. channels[j].local_num # n
            BY <1>6, <3>2, <3>3
        <3> QED BY <1>8, <1>10, <3>1, <3>2, <3>3, <3>4
    <2>2. \A m \in Nums : fwd'[m].conn = 0 => fwd'[m].status = {}
        BY <1>8, <1>11 DEF Local, Owned
    <2>3. channels'[0] = Shell /\ \A j \in Slots \ {0} : channels'[j] # Shell
        BY <1>6, <1>9, <1>11, Numbers DEF Local, Owned
    <2> QED BY <2>1, <2>2, <2>3 DEF Owned
<1>13. Undenied(channels') => Paired(channels', fwd')
    <2>1. Undenied(channels') => Undenied(channels)
        BY <1>3, <1>9 DEF Undenied, n
    <2>2. ASSUME Paired(channels, fwd) PROVE Paired(channels', fwd')
        <3>1. n = i - 1
            BY <1>3, <1>6, <2>2 DEF Paired, OwnSlot, n
        <3>2. ASSUME NEW j \in Slots \ {0}
              PROVE  /\ channels'[j].used => channels'[j].forward /\ channels'[j].local_num = j - 1
                     /\ ~channels'[j].used /\ j - 1 \in Nums => fwd'[j - 1].conn = 0
            <4>1. CASE j = i
                BY <1>8, <1>9, <1>11, <3>1, <4>1
            <4>2. CASE j # i
                BY <1>8, <1>9, <1>11, <2>2, <4>2 DEF Paired
            <4> QED BY <4>1, <4>2
        <3>3. \A m \in Nums : m + 1 \notin Slots => fwd'[m].conn = 0
            BY <1>8, <1>11, <2>2 DEF Paired
        <3> QED BY <3>2, <3>3 DEF Paired
    <2> QED BY <2>1, <2>2 DEF Local
<1> QED BY <1>4, <1>5, <1>7, <1>12, <1>13 DEF Local, Unlooked

\* ssh2_channel_new and alloc_channel keep in step.
LEMMA InStep ==
    ASSUME TableInv, Owned(channels, fwd, srv), Paired(channels, fwd), FreeSlots # {},
           NEW n, Allocated(n), NEW i, i = NewSlot
    PROVE  i \in Slots \ {0} /\ ~channels[i].used /\ n = i - 1
<1>1. FreeSlots \in SUBSET Nat /\ FreeNums \in SUBSET Nat /\ FreeNums # {}
    BY Numbers DEF FreeSlots, FreeNums, Allocated
<1>2. i \in FreeSlots /\ \A j \in FreeSlots : i <= j
    BY <1>1, LeastIs DEF NewSlot
<1>3. n \in FreeNums /\ \A m \in FreeNums : n <= m
    BY <1>1, LeastIs DEF Allocated
<1>4. i \in Slots \ {0} /\ ~channels[i].used /\ n \in Nums /\ fwd[n].status = {}
    BY <1>2, <1>3 DEF FreeSlots, FreeNums, Owned, Shell
<1>5. fwd[n].conn = 0
    BY <1>4 DEF TableInv, Entered, EntryOK, Live
<1>6. i \in Nat /\ i # 0 /\ n \in Nat
    BY <1>4, Numbers
<1>7. i <= n + 1
    <2> SUFFICES ASSUME n + 1 \in Slots PROVE i <= n + 1
        <3>1. n + 1 \notin Slots => i <= n + 1
            BY <1>4, <1>6, TableAssumption DEF Slots
        <3> QED BY <3>1
    <2>1. n + 1 \in Slots
        OBVIOUS
    <2>2. channels[n + 1].used => fwd[n].conn # 0
        <3> SUFFICES ASSUME channels[n + 1].used PROVE fwd[n].conn # 0
            OBVIOUS
        <3>1. n + 1 \in Slots \ {0} /\ (n + 1) - 1 = n
            BY <1>6, <2>1
        <3>2. channels[n + 1].local_num = n /\ n # None
            BY <1>6, <3>1, Numbers DEF Paired
        <3>3. channels[n + 1].conn \in 1..MaxConns /\ fwd[n].conn = channels[n + 1].conn
            BY <2>1, <3>2 DEF Owned
        <3> QED BY <3>3
    <2>3. n + 1 \in FreeSlots
        BY <1>5, <2>1, <2>2 DEF FreeSlots
    <2> QED BY <1>2, <2>3
<1>8. n <= i - 1
    <2>1. CASE i - 1 \in Nums
        <3>1. fwd[i - 1].conn = 0
            BY <1>4, <2>1 DEF Paired
        <3>2. fwd[i - 1].status = {}
            BY <2>1, <3>1 DEF Owned
        <3>3. i - 1 \in FreeNums
            BY <2>1, <3>2 DEF FreeNums
        <3> QED BY <1>3, <3>3
    <2>2. CASE i - 1 \notin Nums
        <3>1. i - 1 >= FwdMax /\ n <= FwdMax - 1 /\ FwdMax \in Nat
            BY <1>4, <1>6, <2>2, TableAssumption DEF Nums
        <3> QED BY <1>6, <3>1
    <2> QED BY <2>1, <2>2
<1> QED BY <1>4, <1>6, <1>7, <1>8

LEMMA AcceptingLocal ==
    ASSUME TableInv, Local, OnlyLocalForwards, NEW r \in Requests, AcceptLocalConnection(r)
    PROVE  Local'
<1>1. PICK k : k = nconn + 1
    OBVIOUS
<1>2. PICK e : e = [status |-> {"LOCAL_CONNECTED"}, sock |-> nsock + 1, request |-> r, conn |-> k]
    OBVIOUS
<1>3. PICK n \in Nums : Allocated(n) /\ OpenChannel(Counted(r), [fwd EXCEPT ![n] = e], n, k)
    <2>1. requests[r].spec.type = "LOCAL_TO_REMOTE"
        BY LocalSpecs
    <2> QED BY <1>1, <1>2, <2>1 DEF AcceptLocalConnection
<1>4. nconn < MaxConns /\ UNCHANGED <<wm, resolving, connecting>>
    BY DEF AcceptLocalConnection
<1>5. k \in 1..MaxConns /\ k # 0 /\ Fresh(srv[k]) /\ \A m \in Nums : fwd[m].conn # k
    BY <1>1, <1>4, NewConn
<1>6. /\ fwd \in [Nums -> FwdType] /\ channels \in [Slots -> SlotType]
      /\ srv \in [1..MaxConns -> SrvType] /\ nsock \in Nat
    BY Sorts
<1>7. e \in FwdType /\ e.request = r /\ e.conn = k
    <2>1. {"LOCAL_CONNECTED"} \in SUBSET (Both \cup {"CLOSED_LOCAL"}) /\ k \in 0..MaxConns
          /\ nsock + 1 \in Nat
        BY <1>5, <1>6 DEF Both
    <2> QED BY <1>2, <2>1 DEF FwdType
<1>8. fwd[n] = FreeFwdEntry /\ Tabled(Counted(r), [fwd EXCEPT ![n] = e])
    BY <1>3, <1>7, Counting
<1>9. \A x \in Requests : Counted(r)[x].lookup = 0
    BY CountedIs DEF Local
<1>10. CASE FreeSlots # {}
    <2> DEFINE i == NewSlot
    <2>1. /\ channels' = [channels EXCEPT ![i] = SlotFor(n, None, k)]
          /\ srv' = [srv EXCEPT ![k].st = "asked", ![k].peer = i]
          /\ requests' = Counted(r) /\ fwd' = [fwd EXCEPT ![n] = e]
        BY <1>3, <1>10 DEF OpenChannel, SlotFor
    <2>2. i \in Slots /\ ~channels[i].used /\ i # 0
        BY <1>10, SlotFree DEF Local, Owned, Shell
    <2>3. i \in Slots /\ (Paired(channels, fwd) => n = i - 1)
        <3>1. PICK j : j = i
            OBVIOUS
        <3>2. Paired(channels, fwd) => n = j - 1
            BY <1>3, <1>10, <3>1, InStep DEF Local
        <3> QED BY <2>2, <3>1, <3>2
    <2> HIDE DEF i
    <2>4. \A j \in Slots : channels'[j] = IF j = i THEN SlotFor(n, None, k) ELSE channels[j]
        BY <1>6, <2>1
    <2>5. \A m \in Nums : fwd'[m] = IF m = n THEN e ELSE fwd[m]
        BY <1>6, <2>1
    <2>6. /\ srv'[k].st = "asked" /\ srv'[k].peer = i
          /\ \A j \in 1..MaxConns : j # k => srv'[j] = srv[j]
        <3>1. srv[k] \in SrvType
            BY <1>5, <1>6
        <3> QED BY <1>5, <1>6, <2>1, <3>1 DEF SrvType
    <2>7. /\ SlotFor(n, None, k).used /\ SlotFor(n, None, k).forward /\ SlotFor(n, None, k).conn = k
          /\ SlotFor(n, None, k).local_num = n /\ SlotFor(n, None, k) # Shell /\ n # None
        BY <1>3, Numbers DEF SlotFor, Shell
    <2>8. Owned(channels', fwd', srv')
        <3>1. ASSUME NEW j \in Slots, channels'[j].used, channels'[j].local_num # None
              PROVE  /\ channels'[j].forward /\ channels'[j].conn \in 1..MaxConns
                     /\ fwd'[channels'[j].local_num].conn = channels'[j].conn
                     /\ srv'[channels'[j].conn].st \in {"asked", "open"} /\ srv'[channels'[j].conn].peer = j
            <4>1. CASE j = i
                BY <1>3, <1>5, <1>7, <2>4, <2>5, <2>6, <2>7, <4>1
            <4>2. CASE j # i
                <5>1. channels'[j] = channels[j] /\ channels[j].local_num \in Nums
                    BY <1>6, <2>4, <3>1, <4>2 DEF SlotType
                <5>2. /\ channels[j].forward /\ channels[j].conn \in 1..MaxConns
                      /\ fwd[channels[j].local_num].conn = channels[j].conn
                      /\ srv[channels[j].conn].st \in {"asked", "open"} /\ srv[channels[j].conn].peer = j
                    BY <3>1, <5>1 DEF Local, Owned
                <5>3. channels[j].local_num # n /\ channels[j].conn # k
                    BY <1>5, <1>8, <5>1, <5>2 DEF FreeFwdEntry
                <5> QED BY <2>5, <2>6, <5>1, <5>2, <5>3
            <4> QED BY <4>1, <4>2
        <3>2. \A m \in Nums : fwd'[m].conn = 0 => fwd'[m].status = {}
            BY <1>5, <1>7, <2>5 DEF Local, Owned
        <3>3. channels'[0] = Shell /\ \A j \in Slots \ {0} : channels'[j] # Shell
            BY <2>2, <2>4, <2>7, Numbers DEF Local, Owned
        <3> QED BY <3>1, <3>2, <3>3 DEF Owned
    <2>9. Undenied(channels') => Paired(channels', fwd')
        <3>1. Undenied(channels') => Undenied(channels)
            BY <2>2, <2>4 DEF Undenied
        <3>2. ASSUME Paired(channels, fwd) PROVE Paired(channels', fwd')
            <4>1. n = i - 1 /\ n + 1 \in Slots
                <5>1. i \in Nat
                    BY <2>2, Numbers
                <5> QED BY <2>3, <3>2, <5>1
            <4>2. ASSUME NEW j \in Slots \ {0}
                  PROVE  /\ channels'[j].used => channels'[j].forward /\ channels'[j].local_num = j - 1
                         /\ ~channels'[j].used /\ j - 1 \in Nums => fwd'[j - 1].conn = 0
                <5>1. CASE j = i
                    BY <2>4, <2>7, <4>1, <5>1
                <5>2. CASE j # i
                    <6>1. j - 1 # n
                        <7>1. i \in Nat /\ j \in Nat
                            BY <2>2, Numbers
                        <7> QED BY <4>1, <5>2, <7>1
                    <6> QED BY <2>4, <2>5, <3>2, <5>2, <6>1 DEF Paired
                <5> QED BY <5>1, <5>2
            <4>3. \A m \in Nums : m + 1 \notin Slots => fwd'[m].conn = 0
                BY <2>5, <3>2, <4>1 DEF Paired
            <4> QED BY <4>2, <4>3 DEF Paired
        <3> QED BY <3>1, <3>2 DEF Local
    <2> QED BY <1>4, <1>9, <2>1, <2>8, <2>9 DEF Local, Unlooked
<1>11. CASE FreeSlots = {}
    <2>1. PICK q : q = Counted(r)
        OBVIOUS
    <2>2. PICK f : f = [fwd EXCEPT ![n] = e]
        OBVIOUS
    <2>3. requests' = Released(q, f, {n}) /\ fwd' = Freed(f, {n}) /\ srv' = srv /\ channels' = channels
        BY <1>3, <1>11, <2>1, <2>2 DEF OpenChannel
    <2>4. Tabled(q, f) /\ \A x \in Requests : q[x].lookup = 0
        BY <1>8, <1>9, <2>1, <2>2
    <2>5. \A x \in Requests : requests'[x].lookup = 0
        <3>1. PICK N : N = {n}
            OBVIOUS
        <3>2. \A x \in Requests : Released(q, f, N)[x].lookup \in {0, q[x].lookup}
            BY <2>4, ReleasedIs
        <3> QED BY <2>3, <2>4, <3>1, <3>2
    <2>6. fwd' = fwd
        BY <1>6, <1>8, <2>2, <2>3 DEF Freed
    <2> QED BY <1>4, <2>3, <2>5, <2>6 DEF Local, Unlooked
<1> QED BY <1>10, <1>11

LEMMA SetupKept ==
    ASSUME [TableNext]_tableVars
    PROVE  setup' = setup
BY DEF TableNext, tableVars, AcceptLocalConnection, SocksRequest, SocksRefused, ClosedLocalConnection,
       ServerOpens, Threads, Resolved, PostName, Winsock, ConnectEnds, GotName, OnFdConnect,
       ServerConfirms, ServerFails, ServerCloses, OtherOpens, OtherCloses, SetRequestSpecs

LocalInv == OnlyLocalForwards => Local

LEMMA LocalStarts ==
    ASSUME TableInit
    PROVE  LocalInv
<1>1. \A r \in Requests : requests[r].lookup = 0
    BY DEF TableInit, Request
<1>2. Owned(channels, fwd, srv)
    BY Numbers DEF TableInit, Owned, FreeFwdEntry, FreeSlot, Shell
<1>3. Paired(channels, fwd)
    BY DEF TableInit, Paired, FreeFwdEntry, FreeSlot
<1>4. Unlooked
    BY DEF TableInit, Unlooked
<1> QED BY <1>1, <1>2, <1>3, <1>4 DEF LocalInv, Local

LEMMA LocalSteps ==
    ASSUME TableInv, LocalInv, [TableNext]_tableVars
    PROVE  LocalInv'
<1> SUFFICES ASSUME OnlyLocalForwards' PROVE Local'
    BY DEF LocalInv
<1>1. OnlyLocalForwards /\ Local /\ Unlooked
    <2>1. setup' = setup
        BY SetupKept
    <2> QED BY <2>1 DEF LocalInv, Local, OnlyLocalForwards
<1>2. CASE UNCHANGED tableVars
    BY <1>1, <1>2 DEF tableVars, tables, Local, Unlooked, Owned, Undenied, Paired
<1>3. CASE \E r \in Requests : AcceptLocalConnection(r)
    BY <1>1, <1>3, AcceptingLocal
<1>4. CASE \E n \in Nums : SocksRequest(n) \/ SocksRefused(n) \/ ClosedLocalConnection(n)
    BY <1>1, <1>4, ClosingLocal, LocalSpecs DEF SocksRequest, SocksRefused
<1>5. CASE \E p \in Ports : ServerOpens(p)
    BY <1>1, <1>5, DenyingLocal
<1>6. CASE Threads \/ Winsock \/ \E m \in wm : GotName(m) \/ OnFdConnect(m)
    BY <1>1, <1>6 DEF Threads, Winsock, Unlooked
<1>7. CASE \E k \in Conns : ServerConfirms(k) \/ ServerFails(k) \/ ServerCloses(k)
    BY <1>1, <1>7, ConfirmingLocal, EndingLocal
<1>8. CASE OtherOpens
    BY <1>1, <1>8 DEF OtherOpens, OnlyLocalForwards
<1>9. CASE \E i \in Slots : OtherCloses(i)
    BY <1>1, <1>9 DEF OtherCloses, Local, Owned
<1>10. CASE SetRequestSpecs
    BY <1>1, <1>10, EditingLocal
<1> QED BY <1>2, <1>3, <1>4, <1>5, <1>6, <1>7, <1>8, <1>9, <1>10 DEF TableNext

LEMMA LinksFollow ==
    ASSUME TableInv, LocalInv
    PROVE  EntriesLinked
<1> SUFFICES ASSUME OnlyLocalForwards PROVE EntriesLinked
    BY DEF EntriesLinked
<1>1. Owned(channels, fwd, srv) /\ (NoneDenied => Paired(channels, fwd))
    BY DEF LocalInv, Local, NoneDenied, Undenied
<1>2. ASSUME NEW k \in Conns, srv[k].st = "open"
      PROVE  /\ channels[srv[k].peer].used /\ channels[srv[k].peer].conn = k
             /\ fwd[channels[srv[k].peer].local_num].conn = k
    <2>1. OwnSlot(channels, k, srv[k].peer)
        BY <1>2 DEF TableInv, Peered, Conns
    <2> QED BY <1>1, <2>1, Numbers DEF OwnSlot, Owned
<1>3. ASSUME NoneDenied, NEW n \in Nums, fwd[n].status # {}
      PROVE  Lookup(n) # None /\ channels[Lookup(n)].conn = fwd[n].conn
    <2>1. n \in Nat /\ n # None /\ fwd[n].conn # 0 /\ Paired(channels, fwd)
        BY <1>1, <1>3, Numbers DEF Owned
    <2>2. PICK i : i = n + 1
        OBVIOUS
    <2>3. i \in Slots \ {0} /\ i - 1 = n /\ i \in Nat
        BY <2>1, <2>2 DEF Paired
    <2>4. channels[i].used /\ channels[i].local_num = n
        BY <2>1, <2>3 DEF Paired
    <2>5. fwd[n].conn = channels[i].conn
        BY <1>1, <2>1, <2>3, <2>4 DEF Owned
    <2>6. LookupSet(n) \in SUBSET Nat /\ i \in LookupSet(n)
        BY <2>3, <2>4, Numbers DEF LookupSet
    <2>7. PICK l : l = Lookup(n)
        OBVIOUS
    <2>8. l \in LookupSet(n) /\ l <= i
        BY <2>6, <2>7, LeastIs DEF Lookup
    <2>9. l \in Slots /\ l \in Nat /\ channels[l].local_num = n /\ l # 0
        BY <1>1, <2>1, <2>6, <2>8 DEF LookupSet, Owned, Shell
    <2>10. l = i
        <3>1. CASE channels[l].used
            BY <2>1, <2>3, <2>9, <3>1 DEF Paired
        <3>2. CASE ~channels[l].used
            <4>1. n = 0
                BY <2>9, <3>2 DEF TableInv, Peered, FreeSlot
            <4> QED BY <2>2, <2>8, <2>9, <4>1
        <3> QED BY <3>1, <3>2
    <2> QED BY <2>3, <2>5, <2>7, <2>10, Numbers
<1> QED BY <1>2, <1>3 DEF EntriesLinked

\* With local forwards alone an open channel's slot and FWDChannel are its own, and until an
\* OPEN of the server is denied ssh2_local_channel_lookup (ssh.c) finds from an FWDChannel in
\* use the slot set up for it, although it searches by a number that free slots have too.
THEOREM ForwardsLinked == TableSpec => []EntriesLinked
<1>1. TableInit => LocalInv
    BY LocalStarts
<1>2. TableInv /\ LocalInv /\ [TableNext]_tableVars => LocalInv'
    BY LocalSteps
<1>3. TableInv /\ LocalInv => EntriesLinked
    BY LinksFollow
<1> QED BY <1>1, <1>2, <1>3, TablesHold, PTL DEF TableSpec
=============================================================================
