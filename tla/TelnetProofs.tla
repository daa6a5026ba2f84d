---------------------------- MODULE TelnetProofs ----------------------------
(***************************************************************************)
(* Proofs about Telnet, for every set of options, every number of changes   *)
(* by the user and of changes of mind of the server.                        *)
(*                                                                         *)
(* Each option is a protocol of its own between two ends that are alike:    *)
(* what is on its way about it and what the two ends have in their tables   *)
(* fit (Agree).  The queues carry the commands of all options; Carries says *)
(* which of one option are in a queue, and in which order.                  *)
(***************************************************************************)
EXTENDS Telnet, SequenceTheorems, TLAPS

-----------------------------------------------------------------------------
(* Types.                                                                   *)

OptState == [Status : {"No", "Yes", "WantNo", "WantYes"}, Que : {"Empty", "Opposite"}]
SizeMsgs == [cmd : {"SB"}, opt : {"NAWS"}, size : Sizes]
HisCmds(yes, no) == [cmd : {yes, no}, opt : HisOptions]
MyCmds(yes, no) == [cmd : {yes, no}, opt : MyOptions]
ToServer == HisCmds("DO", "DONT") \cup MyCmds("WILL", "WONT") \cup SizeMsgs
ToClient == HisCmds("WILL", "WONT") \cup MyCmds("DO", "DONT")

TypeOK ==
    /\ MyOpt \in [MyOptions -> OptState] /\ HisOpt \in [HisOptions -> OptState]
    /\ TelEcho \in BOOLEAN /\ LocalEcho \in 0..1 /\ active \in BOOLEAN
    /\ TelBinRecv \in BOOLEAN /\ TelBinSend \in BOOLEAN /\ TelLineMode \in BOOLEAN
    /\ WinSize \in Sizes
    /\ toServer \in Seq(ToServer) /\ toClient \in Seq(ToClient)
    /\ srv \in [his : [HisOptions -> OptState], mine : [MyOptions -> OptState], size : Sizes \cup {0}]

-----------------------------------------------------------------------------
(* The inductive invariant.                                                 *)

\* The commands of one option in a queue, y for yes and n for no: none, one, or
\* two that differ; there are never more.
Free(q, S) == \A i \in DOMAIN q : q[i] \notin S
Single(q, S, m) == \E i \in DOMAIN q : q[i] = m /\ \A j \in DOMAIN q : q[j] \in S => j = i
Couple(q, S, m, k) ==
    \E i, j \in DOMAIN q : /\ i < j /\ q[i] = m /\ q[j] = k
                           /\ \A h \in DOMAIN q : q[h] \in S => h = i \/ h = j

Lines == {"nothing", "yes", "no", "yes no", "no yes"}
Carries(q, y, n, l) ==
    CASE l = "nothing" -> Free(q, {y, n})
      [] l = "yes"     -> Single(q, {y, n}, y)
      [] l = "no"      -> Single(q, {y, n}, n)
      [] l = "yes no"  -> Couple(q, {y, n}, y, n)
      [] l = "no yes"  -> Couple(q, {y, n}, n, y)
      [] OTHER         -> TRUE

\* What one end has of an option, o, and the other, s, with u on its way from the
\* first to the second and d on its way back; what is not here is the same with
\* the ends changed.
Half(o, s, u, d) ==
    \/ u = "nothing" /\ d = "nothing" /\ o.Status = s.Status /\ o.Status \in {"No", "Yes"}
    \/ u = "no" /\ d = "nothing" /\ \/ o.Status = "No" /\ s.Status \in {"WantNo", "WantYes"}
                                    \/ o.Status = "WantNo" /\ s.Status = "Yes"
    \/ u = "yes" /\ d = "nothing" /\ \/ o.Status = "WantYes" /\ s.Status = "No"
                                     \/ o.Status = "Yes" /\ s.Status = "WantYes"
    \/ u = "no" /\ d = "no" /\ o.Status = "WantNo" /\ s.Status = "WantNo"
    \/ u = "yes" /\ d = "yes" /\ o.Status = "WantYes" /\ s.Status = "WantYes"
    \/ u = "yes no" /\ d = "nothing" /\ o.Status = "WantNo" /\ s.Status = "WantYes"
    \/ u = "no yes" /\ d = "nothing" /\ o.Status = "WantYes" /\ s.Status \in {"WantNo", "WantYes"}

\* A wish is queued only behind a request.
Tidy(o) == o.Status \in {"No", "Yes"} => o.Que = "Empty"

Agree(o, s, u, d) == (Half(o, s, u, d) \/ Half(s, o, d, u)) /\ Tidy(o) /\ Tidy(s)

\* Two ends that say y and n to each other and yy and nn back.
Deal(up, down, y, n, yy, nn, o, s) ==
    \E u, d \in Lines : Carries(up, y, n, u) /\ Carries(down, yy, nn, d) /\ Agree(o, s, u, d)

\* Two ends of which the first, with the options in f, says yes and no to the other, with g,
\* which says them as yyes and nno.
Family(up, down, O, yes, no, yyes, nno, f, g) ==
    \A b \in O : Deal(up, down, Cmd(yes, b), Cmd(no, b), Cmd(yyes, b), Cmd(nno, b), f[b], g[b])

Deals ==
    /\ Family(toServer, toClient, HisOptions, "DO", "DONT", "WILL", "WONT", HisOpt, srv.his)
    /\ Family(toServer, toClient, MyOptions, "WILL", "WONT", "DO", "DONT", MyOpt, srv.mine)

\* The last size the server is told, on its way or known, is s.
Told(q, known, s) ==
    /\ \A i \in DOMAIN q : q[i].cmd = "SB" /\ (\A j \in DOMAIN q : j > i => q[j].cmd # "SB") => q[i].size = s
    /\ (\A i \in DOMAIN q : q[i].cmd # "SB") => known = s
Sized == MyOpt["NAWS"].Status = "Yes" => Told(toServer, srv.size, WinSize)

\* What this side will have of an option when its requests and wishes are granted.
Wish(o) == o.Status = "Yes" \/ o = [Status |-> "WantYes", Que |-> "Empty"] \/ o = [Status |-> "WantNo", Que |-> "Opposite"]

Follows(flag, o) == (o.Status = "Yes" => flag) /\ (o.Status = "No" => ~flag)

Modes ==
    /\ "BINARY" \in HisOptions => Follows(TelBinRecv, HisOpt["BINARY"])
    /\ "BINARY" \in MyOptions => Follows(TelBinSend, MyOpt["BINARY"])
    /\ active /\ TelEcho => (LocalEcho = 0 <=> Wish(HisOpt["ECHO"]))
    /\ \A b \in HisOptions \cap {"ECHO", "SGA"} : HisOpt[b].Status = "Yes" => ~TelLineMode

IInv == TypeOK /\ Deals /\ Sized /\ Modes

-----------------------------------------------------------------------------
(* Queues.                                                                  *)

\* A queue that grew by one.
LEMMA Grown ==
    ASSUME NEW T, NEW q \in Seq(T), NEW e \in T
    PROVE  /\ q \o <<e>> \in Seq(T) /\ Len(q) \in Nat
           /\ DOMAIN q = 1..Len(q) /\ DOMAIN (q \o <<e>>) = 1..(Len(q) + 1)
           /\ (q \o <<e>>)[Len(q) + 1] = e
           /\ \A i \in 1..Len(q) : (q \o <<e>>)[i] = q[i]
  <1>1. q \o <<e>> = Append(q, e)
    OBVIOUS
  <1>2. /\ Append(q, e) \in Seq(T) /\ Len(Append(q, e)) = Len(q) + 1
        /\ \A i \in 1..Len(q) : Append(q, e)[i] = q[i]
        /\ Append(q, e)[Len(q) + 1] = e
    BY AppendProperties
  <1>3. Len(q) \in Nat /\ DOMAIN q = 1..Len(q) /\ DOMAIN Append(q, e) = 1..Len(Append(q, e))
    BY <1>2, LenProperties
  <1> QED
    BY <1>1, <1>2, <1>3

\* A queue whose first element was taken.
LEMMA Shorter ==
    ASSUME NEW T, NEW q \in Seq(T), q # <<>>
    PROVE  /\ Head(q) \in T /\ Tail(q) \in Seq(T) /\ Len(q) \in Nat \ {0} /\ Head(q) = q[1]
           /\ DOMAIN q = 1..Len(q) /\ DOMAIN Tail(q) = 1..(Len(q) - 1)
           /\ \A i \in 1..(Len(q) - 1) : Tail(q)[i] = q[i + 1]
  <1>1. /\ Head(q) \in T /\ Tail(q) \in Seq(T) /\ Len(Tail(q)) = Len(q) - 1
        /\ \A i \in 1..Len(Tail(q)) : Tail(q)[i] = q[i + 1]
    BY HeadTailProperties
  <1>2. Len(q) \in Nat \ {0}
    BY EmptySeq
  <1>3. DOMAIN q = 1..Len(q) /\ DOMAIN Tail(q) = 1..Len(Tail(q))
    BY <1>1, LenProperties
  <1>4. Head(q) = q[1]
    OBVIOUS
  <1> QED
    BY <1>1, <1>2, <1>3, <1>4

\* What one command more does to a line.
More(l, r) ==
    CASE l = "nothing"           -> r
      [] l = "yes" /\ r = "no"   -> "yes no"
      [] l = "no" /\ r = "yes"   -> "no yes"
      [] OTHER                   -> "many"

LEMMA CarriesOther ==
    ASSUME NEW T, NEW q \in Seq(T), NEW e \in T, NEW y, NEW n, NEW l \in Lines, Carries(q, y, n, l), e # y, e # n
    PROVE  Carries(q \o <<e>>, y, n, l)
  <1> DEFINE r == q \o <<e>>
  <1> DEFINE k == Len(q)
  <1>1. /\ k \in Nat /\ DOMAIN q = 1..k /\ DOMAIN r = 1..(k + 1) /\ r[k + 1] = e
        /\ \A i \in 1..k : r[i] = q[i]
    BY Grown
  <1> HIDE DEF r, k
  <1>2. Free(q, {y, n}) => Free(r, {y, n})
    BY <1>1 DEF Free
  <1>3. ASSUME NEW m, Single(q, {y, n}, m) PROVE Single(r, {y, n}, m)
    BY <1>1, <1>3 DEF Single
  <1>4. ASSUME NEW m, NEW o, Couple(q, {y, n}, m, o) PROVE Couple(r, {y, n}, m, o)
    <2>1. PICK i, j \in DOMAIN q : /\ i < j /\ q[i] = m /\ q[j] = o
                                   /\ \A h \in DOMAIN q : q[h] \in {y, n} => h = i \/ h = j
      BY <1>4 DEF Couple
    <2>2. i \in DOMAIN r /\ j \in DOMAIN r /\ r[i] = m /\ r[j] = o
      BY <1>1, <2>1
    <2>3. \A h \in DOMAIN r : r[h] \in {y, n} => h = i \/ h = j
      BY <1>1, <2>1
    <2> QED
      BY <2>1, <2>2, <2>3 DEF Couple
  <1>5. Carries(r, y, n, l)
    BY <1>2, <1>3, <1>4 DEF Carries, Lines
  <1> QED
    BY <1>5 DEF r

LEMMA CarriesMore ==
    ASSUME NEW T, NEW q \in Seq(T), NEW e \in T, NEW y, NEW n, y # n, NEW l \in Lines, Carries(q, y, n, l),
           NEW c \in {"yes", "no"}, e = IF c = "yes" THEN y ELSE n
    PROVE  Carries(q \o <<e>>, y, n, More(l, c))
  <1> DEFINE r == q \o <<e>>
  <1> DEFINE k == Len(q)
  <1>1. /\ k \in Nat /\ DOMAIN q = 1..k /\ DOMAIN r = 1..(k + 1) /\ r[k + 1] = e
        /\ \A i \in 1..k : r[i] = q[i]
    BY Grown
  <1> HIDE DEF r, k
  <1>2. Free(q, {y, n}) => Single(r, {y, n}, e)
    BY <1>1 DEF Free, Single
  <1>3. ASSUME NEW m, Single(q, {y, n}, m) PROVE Couple(r, {y, n}, m, e)
    <2>1. PICK i \in DOMAIN q : q[i] = m /\ \A j \in DOMAIN q : q[j] \in {y, n} => j = i
      BY <1>3 DEF Single
    <2>2. i \in DOMAIN r /\ k + 1 \in DOMAIN r /\ i < k + 1 /\ r[i] = m
      BY <1>1, <2>1
    <2>3. \A h \in DOMAIN r : r[h] \in {y, n} => h = i \/ h = k + 1
      BY <1>1, <2>1
    <2> QED
      BY <1>1, <2>2, <2>3 DEF Couple
  <1>4. Carries(r, y, n, More(l, c))
    <2>1. CASE l = "nothing"
      BY <1>2, <2>1 DEF Carries, More
    <2>2. CASE l = "yes"
      <3>1. Couple(r, {y, n}, y, e)
        BY <1>3, <2>2 DEF Carries
      <3>2. CASE c = "yes"
        BY <2>2, <3>2 DEF Carries, More
      <3>3. CASE c = "no"
        <4>1. e = n
          BY <3>3
        <4>2. More(l, c) = "yes no"
          BY <2>2, <3>3 DEF More
        <4> QED
          BY <3>1, <4>1, <4>2 DEF Carries
      <3> QED
        BY <3>2, <3>3
    <2>3. CASE l = "no"
      <3>1. Couple(r, {y, n}, n, e)
        BY <1>3, <2>3 DEF Carries
      <3>2. CASE c = "no"
        BY <2>3, <3>2 DEF Carries, More
      <3>3. CASE c = "yes"
        <4>1. e = y
          BY <3>3
        <4>2. More(l, c) = "no yes"
          BY <2>3, <3>3 DEF More
        <4> QED
          BY <3>1, <4>1, <4>2 DEF Carries
      <3> QED
        BY <3>2, <3>3
    <2>4. CASE l \notin {"nothing", "yes", "no"}
      BY <2>4 DEF Carries, More
    <2> QED
      BY <2>1, <2>2, <2>3, <2>4
  <1> QED
    BY <1>4 DEF r

\* The command of a line that comes first, and the rest.
First(l) == IF l \in {"yes", "yes no"} THEN "yes" ELSE IF l \in {"no", "no yes"} THEN "no" ELSE "none"
Rest(l) == CASE l = "yes no" -> "no" [] l = "no yes" -> "yes" [] OTHER -> "nothing"

LEMMA CarriesRest ==
    ASSUME NEW T, NEW q \in Seq(T), q # <<>>, NEW y, NEW n, y # n, NEW l \in Lines, Carries(q, y, n, l),
           NEW c \in {"yes", "no"}, Head(q) = IF c = "yes" THEN y ELSE n
    PROVE  First(l) = c /\ Carries(Tail(q), y, n, Rest(l))
  <1> DEFINE r == Tail(q)
  <1> DEFINE k == Len(q)
  <1> DEFINE e == Head(q)
  <1>1. /\ k \in Nat \ {0} /\ DOMAIN q = 1..k /\ DOMAIN r = 1..(k - 1) /\ e = q[1]
        /\ \A i \in 1..(k - 1) : r[i] = q[i + 1]
    BY Shorter
  <1>2. e \in {y, n} /\ (c = "yes" <=> e = y) /\ 1 \in DOMAIN q
    BY <1>1
  <1> HIDE DEF r, k, e
  <1>3. ~Free(q, {y, n})
    BY <1>1, <1>2 DEF Free
  <1>4. ASSUME NEW m, Single(q, {y, n}, m) PROVE e = m /\ Free(r, {y, n})
    <2>1. PICK i \in DOMAIN q : q[i] = m /\ \A j \in DOMAIN q : q[j] \in {y, n} => j = i
      BY <1>4 DEF Single
    <2>2. i = 1
      BY <1>1, <1>2, <2>1
    <2>3. ASSUME NEW j \in DOMAIN r PROVE r[j] \notin {y, n}
      <3>1. j + 1 \in DOMAIN q /\ r[j] = q[j + 1] /\ j + 1 # 1
        BY <1>1, <2>3
      <3> QED
        BY <2>1, <2>2, <3>1
    <2> QED
      BY <1>1, <2>1, <2>2, <2>3 DEF Free
  <1>5. ASSUME NEW m, NEW o, Couple(q, {y, n}, m, o), o \in {y, n} PROVE e = m /\ Single(r, {y, n}, o)
    <2>1. PICK i, j \in DOMAIN q : /\ i < j /\ q[i] = m /\ q[j] = o
                                   /\ \A h \in DOMAIN q : q[h] \in {y, n} => h = i \/ h = j
      BY <1>5 DEF Couple
    <2>2. i = 1
      BY <1>1, <1>2, <2>1
    <2>3. j - 1 \in DOMAIN r /\ r[j - 1] = o
      BY <1>1, <2>1, <2>2
    <2>4. ASSUME NEW h \in DOMAIN r, r[h] \in {y, n} PROVE h = j - 1
      <3>1. h + 1 \in DOMAIN q /\ r[h] = q[h + 1] /\ h + 1 # 1
        BY <1>1, <2>4
      <3> QED
        BY <1>1, <2>1, <2>2, <2>4, <3>1
    <2> QED
      BY <1>1, <2>1, <2>2, <2>3, <2>4 DEF Single
  <1>6. First(l) = c /\ Carries(r, y, n, Rest(l))
    <2>1. CASE l = "nothing"
      BY <1>3, <2>1 DEF Carries
    <2>2. CASE l = "yes"
      <3>1. Single(q, {y, n}, y)
        BY <2>2 DEF Carries
      <3>2. e = y /\ Free(r, {y, n})
        BY <1>4, <3>1
      <3>3. c = "yes"
        BY <1>2, <3>2
      <3>4. First(l) = "yes" /\ Rest(l) = "nothing"
        BY <2>2 DEF First, Rest
      <3> QED
        BY <3>2, <3>3, <3>4 DEF Carries
    <2>3. CASE l = "no"
      <3>1. Single(q, {y, n}, n)
        BY <2>3 DEF Carries
      <3>2. e = n /\ Free(r, {y, n})
        BY <1>4, <3>1
      <3>3. c = "no"
        BY <1>2, <3>2
      <3>4. First(l) = "no" /\ Rest(l) = "nothing"
        BY <2>3 DEF First, Rest
      <3> QED
        BY <3>2, <3>3, <3>4 DEF Carries
    <2>4. CASE l = "yes no"
      <3>1. Couple(q, {y, n}, y, n)
        BY <2>4 DEF Carries
      <3>2. e = y /\ Single(r, {y, n}, n)
        BY <1>5, <3>1
      <3>3. c = "yes"
        BY <1>2, <3>2
      <3>4. First(l) = "yes" /\ Rest(l) = "no"
        BY <2>4 DEF First, Rest
      <3> QED
        BY <3>2, <3>3, <3>4 DEF Carries
    <2>5. CASE l = "no yes"
      <3>1. Couple(q, {y, n}, n, y)
        BY <2>5 DEF Carries
      <3>2. e = n /\ Single(r, {y, n}, y)
        BY <1>5, <3>1
      <3>3. c = "no"
        BY <1>2, <3>2
      <3>4. First(l) = "no" /\ Rest(l) = "yes"
        BY <2>5 DEF First, Rest
      <3> QED
        BY <3>2, <3>3, <3>4 DEF Carries
    <2> QED
      BY <2>1, <2>2, <2>3, <2>4, <2>5 DEF Lines
  <1> QED
    BY <1>6 DEF r

LEMMA CarriesStill ==
    ASSUME NEW T, NEW q \in Seq(T), q # <<>>, NEW y, NEW n, NEW l \in Lines, Carries(q, y, n, l),
           Head(q) # y, Head(q) # n
    PROVE  Carries(Tail(q), y, n, l)
  <1> DEFINE r == Tail(q)
  <1> DEFINE k == Len(q)
  <1> DEFINE e == Head(q)
  <1>1. /\ k \in Nat \ {0} /\ DOMAIN q = 1..k /\ DOMAIN r = 1..(k - 1) /\ e = q[1]
        /\ \A i \in 1..(k - 1) : r[i] = q[i + 1]
    BY Shorter
  <1>2. q[1] \notin {y, n}
    BY <1>1
  <1> HIDE DEF r, k, e
  <1>3. \A j \in DOMAIN r : j + 1 \in DOMAIN q /\ r[j] = q[j + 1]
    BY <1>1
  <1>4. Free(q, {y, n}) => Free(r, {y, n})
    BY <1>3 DEF Free
  <1>5. ASSUME NEW m \in {y, n}, Single(q, {y, n}, m) PROVE Single(r, {y, n}, m)
    <2>1. PICK i \in DOMAIN q : q[i] = m /\ \A j \in DOMAIN q : q[j] \in {y, n} => j = i
      BY <1>5 DEF Single
    <2>2. i - 1 \in DOMAIN r /\ r[i - 1] = m
      BY <1>1, <1>2, <2>1
    <2>3. \A j \in DOMAIN r : r[j] \in {y, n} => j = i - 1
      BY <1>1, <1>3, <2>1
    <2> QED
      BY <2>2, <2>3 DEF Single
  <1>6. ASSUME NEW m \in {y, n}, NEW o \in {y, n}, Couple(q, {y, n}, m, o) PROVE Couple(r, {y, n}, m, o)
    <2>1. PICK i, j \in DOMAIN q : /\ i < j /\ q[i] = m /\ q[j] = o
                                   /\ \A h \in DOMAIN q : q[h] \in {y, n} => h = i \/ h = j
      BY <1>6 DEF Couple
    <2>2. i - 1 \in DOMAIN r /\ j - 1 \in DOMAIN r /\ i - 1 < j - 1
      BY <1>1, <1>2, <2>1
    <2>3. r[i - 1] = m /\ r[j - 1] = o
      BY <1>1, <2>1, <2>2
    <2>4. ASSUME NEW h \in DOMAIN r, r[h] \in {y, n} PROVE h = i - 1 \/ h = j - 1
      <3>1. h + 1 = i \/ h + 1 = j
        BY <1>3, <2>1, <2>4
      <3> QED
        BY <1>1, <3>1
    <2> QED
      BY <2>2, <2>3, <2>4 DEF Couple
  <1>7. Carries(r, y, n, l)
    <2>1. CASE l = "nothing"
      BY <1>4, <2>1 DEF Carries
    <2>2. CASE l = "yes" \/ l = "no"
      BY <1>5, <2>2 DEF Carries
    <2>3. CASE l = "yes no" \/ l = "no yes"
      BY <1>6, <2>3 DEF Carries
    <2> QED
      BY <2>1, <2>2, <2>3 DEF Lines
  <1> QED
    BY <1>7 DEF r

-----------------------------------------------------------------------------
(* One option between its two ends.                                         *)

\* What a reply adds to the line of the one who gives it.
With(l, r) == IF r = "none" THEN l ELSE More(l, r)

LEMMA Alike ==
    ASSUME NEW o, NEW s, NEW u, NEW d
    PROVE  Agree(o, s, u, d) <=> Agree(s, o, d, u)
  BY DEF Agree

LEMMA WithLines ==
    ASSUME NEW l, NEW r \in {"yes", "no", "none"}, NEW u, NEW o, NEW s,
           Agree(o, s, With(l, r), u) \/ Agree(s, o, u, With(l, r))
    PROVE  With(l, r) \in Lines
  BY DEF Agree, Half, Lines

\* ParseTelWill, ParseTelDo: a yes that is heard is expected, or answered with a yes
\* or a no; a wish that is queued is not left behind in "Yes".
LEMMA HearsYes ==
    ASSUME NEW o \in OptState, NEW s \in OptState, NEW u \in Lines, NEW d \in Lines, Agree(o, s, u, d),
           First(d) = "yes", NEW accept \in BOOLEAN, NEW a, a = SaidYes(o, accept)
    PROVE  /\ a.opt \in OptState /\ a.reply \in {"yes", "no", "none"}
           /\ Agree(a.opt, s, With(u, a.reply), Rest(d)) /\ With(u, a.reply) \in Lines
           /\ (Wish(a.opt) <=> Wish(o)) \/ a.opt.Status \in {"Yes", "No"}
           /\ SrvSaidYes(o, accept) = a
  <1>1. \/ u = "nothing" /\ d = "yes" /\ o.Status = "No" /\ s.Status = "WantYes"
        \/ u = "nothing" /\ d = "yes" /\ o.Status = "WantYes" /\ s.Status = "Yes"
        \/ u = "yes" /\ d = "yes" /\ o.Status = "WantYes" /\ s.Status = "WantYes"
        \/ u = "nothing" /\ d = "yes no" /\ o.Status = "WantYes" /\ s.Status = "WantNo"
    BY DEF Agree, Half, First
  <1>2. Tidy(o) /\ Tidy(s) /\ o.Que \in {"Empty", "Opposite"} /\ o = [Status |-> o.Status, Que |-> o.Que]
    BY DEF Agree, OptState
  <1>3. CASE u = "nothing" /\ d = "yes" /\ o.Status = "No" /\ s.Status = "WantYes"
    <2>1. CASE accept
      <3>1. a = Answer("Yes", "Empty", "yes") /\ SrvSaidYes(o, accept) = a
        <4>1. SaidYes(o, accept) = Answer("Yes", "Empty", "yes")
          BY <1>2, <1>3, <2>1 DEF SaidYes, Tidy
        <4>2. SrvSaidYes(o, accept) = Answer("Yes", "Empty", "yes")
          BY <4>1 DEF SrvSaidYes, Answer
        <4> QED
          BY <4>1, <4>2
      <3>2. a.opt = [Status |-> "Yes", Que |-> "Empty"] /\ a.reply = "yes"
        BY <3>1 DEF Answer
      <3>3. a.opt \in OptState /\ a.opt.Status = "Yes" /\ Tidy(a.opt)
        BY <3>2 DEF OptState, Tidy
      <3>4. With(u, a.reply) = "yes" /\ Rest(d) = "nothing"
        BY <1>3, <3>2 DEF With, More, Rest
      <3>5. Half(a.opt, s, "yes", "nothing")
        BY <1>3, <3>3 DEF Half
      <3>6. a.opt.Status \in {"Yes", "No"}
        BY <3>3
      <3> QED
        BY <1>2, <3>1, <3>2, <3>3, <3>4, <3>5, <3>6 DEF Agree, Lines
    <2>2. CASE ~accept
      <3>1. a = Answer("No", "Empty", "no") /\ SrvSaidYes(o, accept) = a
        <4>1. SaidYes(o, accept) = Answer("No", "Empty", "no")
          BY <1>2, <1>3, <2>2 DEF SaidYes, Tidy
        <4>2. SrvSaidYes(o, accept) = Answer("No", "Empty", "no")
          BY <4>1 DEF SrvSaidYes, Answer
        <4> QED
          BY <4>1, <4>2
      <3>2. a.opt = [Status |-> "No", Que |-> "Empty"] /\ a.reply = "no"
        BY <3>1 DEF Answer
      <3>3. a.opt \in OptState /\ a.opt.Status = "No" /\ Tidy(a.opt)
        BY <3>2 DEF OptState, Tidy
      <3>4. With(u, a.reply) = "no" /\ Rest(d) = "nothing"
        BY <1>3, <3>2 DEF With, More, Rest
      <3>5. Half(a.opt, s, "no", "nothing")
        BY <1>3, <3>3 DEF Half
      <3>6. a.opt.Status \in {"Yes", "No"}
        BY <3>3
      <3> QED
        BY <1>2, <3>1, <3>2, <3>3, <3>4, <3>5, <3>6 DEF Agree, Lines
    <2> QED
      BY <1>2, <2>1, <2>2
  <1>4. CASE u = "nothing" /\ d = "yes" /\ o.Status = "WantYes" /\ s.Status = "Yes"
    <2>1. CASE o.Que = "Empty"
      <3>1. a = Answer("Yes", "Empty", "none") /\ SrvSaidYes(o, accept) = a
        <4>1. SaidYes(o, accept) = Answer("Yes", "Empty", "none")
          BY <1>2, <1>4, <2>1 DEF SaidYes, Tidy
        <4>2. SrvSaidYes(o, accept) = Answer("Yes", "Empty", "none")
          BY <4>1 DEF SrvSaidYes, Answer
        <4> QED
          BY <4>1, <4>2
      <3>2. a.opt = [Status |-> "Yes", Que |-> "Empty"] /\ a.reply = "none"
        BY <3>1 DEF Answer
      <3>3. a.opt \in OptState /\ a.opt.Status = "Yes" /\ Tidy(a.opt)
        BY <3>2 DEF OptState, Tidy
      <3>4. With(u, a.reply) = "nothing" /\ Rest(d) = "nothing"
        BY <1>4, <3>2 DEF With, More, Rest
      <3>5. Half(a.opt, s, "nothing", "nothing")
        BY <1>4, <3>3 DEF Half
      <3>6. a.opt.Status \in {"Yes", "No"}
        BY <3>3
      <3> QED
        BY <1>2, <3>1, <3>2, <3>3, <3>4, <3>5, <3>6 DEF Agree, Lines
    <2>2. CASE o.Que = "Opposite"
      <3>1. a = Answer("WantNo", "Empty", "no") /\ SrvSaidYes(o, accept) = a
        <4>1. SaidYes(o, accept) = Answer("WantNo", "Empty", "no")
          BY <1>2, <1>4, <2>2 DEF SaidYes, Tidy
        <4>2. SrvSaidYes(o, accept) = Answer("WantNo", "Empty", "no")
          BY <4>1 DEF SrvSaidYes, Answer
        <4> QED
          BY <4>1, <4>2
      <3>2. a.opt = [Status |-> "WantNo", Que |-> "Empty"] /\ a.reply = "no"
        BY <3>1 DEF Answer
      <3>3. a.opt \in OptState /\ a.opt.Status = "WantNo" /\ Tidy(a.opt)
        BY <3>2 DEF OptState, Tidy
      <3>4. With(u, a.reply) = "no" /\ Rest(d) = "nothing"
        BY <1>4, <3>2 DEF With, More, Rest
      <3>5. Half(a.opt, s, "no", "nothing")
        BY <1>4, <3>3 DEF Half
      <3>6. Wish(a.opt) <=> Wish(o)
        <4>1. ~Wish(a.opt)
          BY <3>2 DEF Wish
        <4>2. o.Status = "WantYes" /\ o.Que = "Opposite"
          BY <1>2, <1>4, <2>2
        <4>3. ~Wish(o)
          BY <1>2, <4>2 DEF Wish
        <4> QED
          BY <4>1, <4>3
      <3> QED
        BY <1>2, <3>1, <3>2, <3>3, <3>4, <3>5, <3>6 DEF Agree, Lines
    <2> QED
      BY <1>2, <2>1, <2>2
  <1>5. CASE u = "yes" /\ d = "yes" /\ o.Status = "WantYes" /\ s.Status = "WantYes"
    <2>1. CASE o.Que = "Empty"
      <3>1. a = Answer("Yes", "Empty", "none") /\ SrvSaidYes(o, accept) = a
        <4>1. SaidYes(o, accept) = Answer("Yes", "Empty", "none")
          BY <1>2, <1>5, <2>1 DEF SaidYes, Tidy
        <4>2. SrvSaidYes(o, accept) = Answer("Yes", "Empty", "none")
          BY <4>1 DEF SrvSaidYes, Answer
        <4> QED
          BY <4>1, <4>2
      <3>2. a.opt = [Status |-> "Yes", Que |-> "Empty"] /\ a.reply = "none"
        BY <3>1 DEF Answer
      <3>3. a.opt \in OptState /\ a.opt.Status = "Yes" /\ Tidy(a.opt)
        BY <3>2 DEF OptState, Tidy
      <3>4. With(u, a.reply) = "yes" /\ Rest(d) = "nothing"
        BY <1>5, <3>2 DEF With, More, Rest
      <3>5. Half(a.opt, s, "yes", "nothing")
        BY <1>5, <3>3 DEF Half
      <3>6. a.opt.Status \in {"Yes", "No"}
        BY <3>3
      <3> QED
        BY <1>2, <3>1, <3>2, <3>3, <3>4, <3>5, <3>6 DEF Agree, Lines
    <2>2. CASE o.Que = "Opposite"
      <3>1. a = Answer("WantNo", "Empty", "no") /\ SrvSaidYes(o, accept) = a
        <4>1. SaidYes(o, accept) = Answer("WantNo", "Empty", "no")
          BY <1>2, <1>5, <2>2 DEF SaidYes, Tidy
        <4>2. SrvSaidYes(o, accept) = Answer("WantNo", "Empty", "no")
          BY <4>1 DEF SrvSaidYes, Answer
        <4> QED
          BY <4>1, <4>2
      <3>2. a.opt = [Status |-> "WantNo", Que |-> "Empty"] /\ a.reply = "no"
        BY <3>1 DEF Answer
      <3>3. a.opt \in OptState /\ a.opt.Status = "WantNo" /\ Tidy(a.opt)
        BY <3>2 DEF OptState, Tidy
      <3>4. With(u, a.reply) = "yes no" /\ Rest(d) = "nothing"
        BY <1>5, <3>2 DEF With, More, Rest
      <3>5. Half(a.opt, s, "yes no", "nothing")
        BY <1>5, <3>3 DEF Half
      <3>6. Wish(a.opt) <=> Wish(o)
        <4>1. ~Wish(a.opt)
          BY <3>2 DEF Wish
        <4>2. o.Status = "WantYes" /\ o.Que = "Opposite"
          BY <1>2, <1>5, <2>2
        <4>3. ~Wish(o)
          BY <1>2, <4>2 DEF Wish
        <4> QED
          BY <4>1, <4>3
      <3> QED
        BY <1>2, <3>1, <3>2, <3>3, <3>4, <3>5, <3>6 DEF Agree, Lines
    <2> QED
      BY <1>2, <2>1, <2>2
  <1>6. CASE u = "nothing" /\ d = "yes no" /\ o.Status = "WantYes" /\ s.Status = "WantNo"
    <2>1. CASE o.Que = "Empty"
      <3>1. a = Answer("Yes", "Empty", "none") /\ SrvSaidYes(o, accept) = a
        <4>1. SaidYes(o, accept) = Answer("Yes", "Empty", "none")
          BY <1>2, <1>6, <2>1 DEF SaidYes, Tidy
        <4>2. SrvSaidYes(o, accept) = Answer("Yes", "Empty", "none")
          BY <4>1 DEF SrvSaidYes, Answer
        <4> QED
          BY <4>1, <4>2
      <3>2. a.opt = [Status |-> "Yes", Que |-> "Empty"] /\ a.reply = "none"
        BY <3>1 DEF Answer
      <3>3. a.opt \in OptState /\ a.opt.Status = "Yes" /\ Tidy(a.opt)
        BY <3>2 DEF OptState, Tidy
      <3>4. With(u, a.reply) = "nothing" /\ Rest(d) = "no"
        BY <1>6, <3>2 DEF With, More, Rest
      <3>5. Half(s, a.opt, "no", "nothing")
        BY <1>6, <3>3 DEF Half
      <3>6. a.opt.Status \in {"Yes", "No"}
        BY <3>3
      <3> QED
        BY <1>2, <3>1, <3>2, <3>3, <3>4, <3>5, <3>6 DEF Agree, Lines
    <2>2. CASE o.Que = "Opposite"
      <3>1. a = Answer("WantNo", "Empty", "no") /\ SrvSaidYes(o, accept) = a
        <4>1. SaidYes(o, accept) = Answer("WantNo", "Empty", "no")
          BY <1>2, <1>6, <2>2 DEF SaidYes, Tidy
        <4>2. SrvSaidYes(o, accept) = Answer("WantNo", "Empty", "no")
          BY <4>1 DEF SrvSaidYes, Answer
        <4> QED
          BY <4>1, <4>2
      <3>2. a.opt = [Status |-> "WantNo", Que |-> "Empty"] /\ a.reply = "no"
        BY <3>1 DEF Answer
      <3>3. a.opt \in OptState /\ a.opt.Status = "WantNo" /\ Tidy(a.opt)
        BY <3>2 DEF OptState, Tidy
      <3>4. With(u, a.reply) = "no" /\ Rest(d) = "no"
        BY <1>6, <3>2 DEF With, More, Rest
      <3>5. Half(a.opt, s, "no", "no")
        BY <1>6, <3>3 DEF Half
      <3>6. Wish(a.opt) <=> Wish(o)
        <4>1. ~Wish(a.opt)
          BY <3>2 DEF Wish
        <4>2. o.Status = "WantYes" /\ o.Que = "Opposite"
          BY <1>2, <1>6, <2>2
        <4>3. ~Wish(o)
          BY <1>2, <4>2 DEF Wish
        <4> QED
          BY <4>1, <4>3
      <3> QED
        BY <1>2, <3>1, <3>2, <3>3, <3>4, <3>5, <3>6 DEF Agree, Lines
    <2> QED
      BY <1>2, <2>1, <2>2
  <1> QED
    BY <1>1, <1>3, <1>4, <1>5, <1>6

\* ParseTelWont, ParseTelDont.
LEMMA HearsNo ==
    ASSUME NEW o \in OptState, NEW s \in OptState, NEW u \in Lines, NEW d \in Lines, Agree(o, s, u, d),
           First(d) = "no", NEW a, a = SaidNo(o)
    PROVE  /\ a.opt \in OptState /\ a.reply \in {"yes", "no", "none"}
           /\ Agree(a.opt, s, With(u, a.reply), Rest(d)) /\ With(u, a.reply) \in Lines
           /\ (Wish(a.opt) <=> Wish(o)) \/ a.opt.Status \in {"Yes", "No"}
           /\ a.opt.Status # "Yes"
  <1>1. \/ u = "nothing" /\ d = "no" /\ o.Status = "WantNo" /\ s.Status = "No"
        \/ u = "nothing" /\ d = "no" /\ o.Status = "WantYes" /\ s.Status = "No"
        \/ u = "nothing" /\ d = "no" /\ o.Status = "Yes" /\ s.Status = "WantNo"
        \/ u = "no" /\ d = "no" /\ o.Status = "WantNo" /\ s.Status = "WantNo"
        \/ u = "nothing" /\ d = "no yes" /\ o.Status = "WantNo" /\ s.Status = "WantYes"
        \/ u = "nothing" /\ d = "no yes" /\ o.Status = "WantYes" /\ s.Status = "WantYes"
    BY DEF Agree, Half, First
  <1>2. Tidy(o) /\ Tidy(s) /\ o.Que \in {"Empty", "Opposite"} /\ o = [Status |-> o.Status, Que |-> o.Que]
    BY DEF Agree, OptState
  <1>3. CASE u = "nothing" /\ d = "no" /\ o.Status = "WantNo" /\ s.Status = "No"
    <2>1. CASE o.Que = "Empty"
      <3>1. a = Answer("No", "Empty", "none")
        BY <1>2, <1>3, <2>1 DEF SaidNo, Tidy
      <3>2. a.opt = [Status |-> "No", Que |-> "Empty"] /\ a.reply = "none"
        BY <3>1 DEF Answer
      <3>3. a.opt \in OptState /\ a.opt.Status = "No" /\ Tidy(a.opt)
        BY <3>2 DEF OptState, Tidy
      <3>4. With(u, a.reply) = "nothing" /\ Rest(d) = "nothing"
        BY <1>3, <3>2 DEF With, More, Rest
      <3>5. Half(a.opt, s, "nothing", "nothing")
        BY <1>3, <3>3 DEF Half
      <3>6. a.opt.Status \in {"Yes", "No"}
        BY <3>3
      <3> QED
        BY <1>2, <3>1, <3>2, <3>3, <3>4, <3>5, <3>6 DEF Agree, Lines
    <2>2. CASE o.Que = "Opposite"
      <3>1. a = Answer("WantYes", "Empty", "yes")
        BY <1>2, <1>3, <2>2 DEF SaidNo, Tidy
      <3>2. a.opt = [Status |-> "WantYes", Que |-> "Empty"] /\ a.reply = "yes"
        BY <3>1 DEF Answer
      <3>3. a.opt \in OptState /\ a.opt.Status = "WantYes" /\ Tidy(a.opt)
        BY <3>2 DEF OptState, Tidy
      <3>4. With(u, a.reply) = "yes" /\ Rest(d) = "nothing"
        BY <1>3, <3>2 DEF With, More, Rest
      <3>5. Half(a.opt, s, "yes", "nothing")
        BY <1>3, <3>3 DEF Half
      <3>6. Wish(a.opt) <=> Wish(o)
        <4>1. Wish(a.opt)
          BY <3>2 DEF Wish
        <4>2. o.Status = "WantNo" /\ o.Que = "Opposite"
          BY <1>2, <1>3, <2>2
        <4>3. Wish(o)
          BY <1>2, <4>2 DEF Wish
        <4> QED
          BY <4>1, <4>3
      <3> QED
        BY <1>2, <3>1, <3>2, <3>3, <3>4, <3>5, <3>6 DEF Agree, Lines
    <2> QED
      BY <1>2, <2>1, <2>2
  <1>4. CASE u = "nothing" /\ d = "no" /\ o.Status = "WantYes" /\ s.Status = "No"
    <2>1. a = Answer("No", "Empty", "none")
      BY <1>2, <1>4 DEF SaidNo, Tidy
    <2>2. a.opt = [Status |-> "No", Que |-> "Empty"] /\ a.reply = "none"
      BY <2>1 DEF Answer
    <2>3. a.opt \in OptState /\ a.opt.Status = "No" /\ Tidy(a.opt)
      BY <2>2 DEF OptState, Tidy
    <2>4. With(u, a.reply) = "nothing" /\ Rest(d) = "nothing"
      BY <1>4, <2>2 DEF With, More, Rest
    <2>5. Half(a.opt, s, "nothing", "nothing")
      BY <1>4, <2>3 DEF Half
    <2>6. a.opt.Status \in {"Yes", "No"}
      BY <2>3
    <2> QED
      BY <1>2, <2>1, <2>2, <2>3, <2>4, <2>5, <2>6 DEF Agree, Lines
  <1>5. CASE u = "nothing" /\ d = "no" /\ o.Status = "Yes" /\ s.Status = "WantNo"
    <2>1. a = Answer("No", "Empty", "no")
      BY <1>2, <1>5 DEF SaidNo, Tidy
    <2>2. a.opt = [Status |-> "No", Que |-> "Empty"] /\ a.reply = "no"
      BY <2>1 DEF Answer
    <2>3. a.opt \in OptState /\ a.opt.Status = "No" /\ Tidy(a.opt)
      BY <2>2 DEF OptState, Tidy
    <2>4. With(u, a.reply) = "no" /\ Rest(d) = "nothing"
      BY <1>5, <2>2 DEF With, More, Rest
    <2>5. Half(a.opt, s, "no", "nothing")
      BY <1>5, <2>3 DEF Half
    <2>6. a.opt.Status \in {"Yes", "No"}
      BY <2>3
    <2> QED
      BY <1>2, <2>1, <2>2, <2>3, <2>4, <2>5, <2>6 DEF Agree, Lines
  <1>6. CASE u = "no" /\ d = "no" /\ o.Status = "WantNo" /\ s.Status = "WantNo"
    <2>1. CASE o.Que = "Empty"
      <3>1. a = Answer("No", "Empty", "none")
        BY <1>2, <1>6, <2>1 DEF SaidNo, Tidy
      <3>2. a.opt = [Status |-> "No", Que |-> "Empty"] /\ a.reply = "none"
        BY <3>1 DEF Answer
      <3>3. a.opt \in OptState /\ a.opt.Status = "No" /\ Tidy(a.opt)
        BY <3>2 DEF OptState, Tidy
      <3>4. With(u, a.reply) = "no" /\ Rest(d) = "nothing"
        BY <1>6, <3>2 DEF With, More, Rest
      <3>5. Half(a.opt, s, "no", "nothing")
        BY <1>6, <3>3 DEF Half
      <3>6. a.opt.Status \in {"Yes", "No"}
        BY <3>3
      <3> QED
        BY <1>2, <3>1, <3>2, <3>3, <3>4, <3>5, <3>6 DEF Agree, Lines
    <2>2. CASE o.Que = "Opposite"
      <3>1. a = Answer("WantYes", "Empty", "yes")
        BY <1>2, <1>6, <2>2 DEF SaidNo, Tidy
      <3>2. a.opt = [Status |-> "WantYes", Que |-> "Empty"] /\ a.reply = "yes"
        BY <3>1 DEF Answer
      <3>3. a.opt \in OptState /\ a.opt.Status = "WantYes" /\ Tidy(a.opt)
        BY <3>2 DEF OptState, Tidy
      <3>4. With(u, a.reply) = "no yes" /\ Rest(d) = "nothing"
        BY <1>6, <3>2 DEF With, More, Rest
      <3>5. Half(a.opt, s, "no yes", "nothing")
        BY <1>6, <3>3 DEF Half
      <3>6. Wish(a.opt) <=> Wish(o)
        <4>1. Wish(a.opt)
          BY <3>2 DEF Wish
        <4>2. o.Status = "WantNo" /\ o.Que = "Opposite"
          BY <1>2, <1>6, <2>2
        <4>3. Wish(o)
          BY <1>2, <4>2 DEF Wish
        <4> QED
          BY <4>1, <4>3
      <3> QED
        BY <1>2, <3>1, <3>2, <3>3, <3>4, <3>5, <3>6 DEF Agree, Lines
    <2> QED
      BY <1>2, <2>1, <2>2
  <1>7. CASE u = "nothing" /\ d = "no yes" /\ o.Status = "WantNo" /\ s.Status = "WantYes"
    <2>1. CASE o.Que = "Empty"
      <3>1. a = Answer("No", "Empty", "none")
        BY <1>2, <1>7, <2>1 DEF SaidNo, Tidy
      <3>2. a.opt = [Status |-> "No", Que |-> "Empty"] /\ a.reply = "none"
        BY <3>1 DEF Answer
      <3>3. a.opt \in OptState /\ a.opt.Status = "No" /\ Tidy(a.opt)
        BY <3>2 DEF OptState, Tidy
      <3>4. With(u, a.reply) = "nothing" /\ Rest(d) = "yes"
        BY <1>7, <3>2 DEF With, More, Rest
      <3>5. Half(s, a.opt, "yes", "nothing")
        BY <1>7, <3>3 DEF Half
      <3>6. a.opt.Status \in {"Yes", "No"}
        BY <3>3
      <3> QED
        BY <1>2, <3>1, <3>2, <3>3, <3>4, <3>5, <3>6 DEF Agree, Lines
    <2>2. CASE o.Que = "Opposite"
      <3>1. a = Answer("WantYes", "Empty", "yes")
        BY <1>2, <1>7, <2>2 DEF SaidNo, Tidy
      <3>2. a.opt = [Status |-> "WantYes", Que |-> "Empty"] /\ a.reply = "yes"
        BY <3>1 DEF Answer
      <3>3. a.opt \in OptState /\ a.opt.Status = "WantYes" /\ Tidy(a.opt)
        BY <3>2 DEF OptState, Tidy
      <3>4. With(u, a.reply) = "yes" /\ Rest(d) = "yes"
        BY <1>7, <3>2 DEF With, More, Rest
      <3>5. Half(a.opt, s, "yes", "yes")
        BY <1>7, <3>3 DEF Half
      <3>6. Wish(a.opt) <=> Wish(o)
        <4>1. Wish(a.opt)
          BY <3>2 DEF Wish
        <4>2. o.Status = "WantNo" /\ o.Que = "Opposite"
          BY <1>2, <1>7, <2>2
        <4>3. Wish(o)
          BY <1>2, <4>2 DEF Wish
        <4> QED
          BY <4>1, <4>3
      <3> QED
        BY <1>2, <3>1, <3>2, <3>3, <3>4, <3>5, <3>6 DEF Agree, Lines
    <2> QED
      BY <1>2, <2>1, <2>2
  <1>8. CASE u = "nothing" /\ d = "no yes" /\ o.Status = "WantYes" /\ s.Status = "WantYes"
    <2>1. a = Answer("No", "Empty", "none")
      BY <1>2, <1>8 DEF SaidNo, Tidy
    <2>2. a.opt = [Status |-> "No", Que |-> "Empty"] /\ a.reply = "none"
      BY <2>1 DEF Answer
    <2>3. a.opt \in OptState /\ a.opt.Status = "No" /\ Tidy(a.opt)
      BY <2>2 DEF OptState, Tidy
    <2>4. With(u, a.reply) = "nothing" /\ Rest(d) = "yes"
      BY <1>8, <2>2 DEF With, More, Rest
    <2>5. Half(s, a.opt, "yes", "nothing")
      BY <1>8, <2>3 DEF Half
    <2>6. a.opt.Status \in {"Yes", "No"}
      BY <2>3
    <2> QED
      BY <1>2, <2>1, <2>2, <2>3, <2>4, <2>5, <2>6 DEF Agree, Lines
  <1> QED
    BY <1>1, <1>3, <1>4, <1>5, <1>6, <1>7, <1>8

\* TelEnableMyOpt, TelEnableHisOpt, TelDisableMyOpt, TelDisableHisOpt.
LEMMA Asks ==
    ASSUME NEW o \in OptState, NEW s \in OptState, NEW u \in Lines, NEW d \in Lines, Agree(o, s, u, d),
           NEW on \in BOOLEAN, NEW a, a = IF on THEN Enable(o) ELSE Disable(o)
    PROVE  /\ a.opt \in OptState /\ a.reply \in {"yes", "no", "none"}
           /\ Agree(a.opt, s, With(u, a.reply), d) /\ With(u, a.reply) \in Lines
           /\ Wish(a.opt) <=> on
           /\ a.opt.Status = "Yes" => o.Status = "Yes"
  <1>1. Tidy(o) /\ Tidy(s) /\ o.Que \in {"Empty", "Opposite"} /\ o = [Status |-> o.Status, Que |-> o.Que]
    BY DEF Agree, OptState
  <1>2. CASE on /\ o.Status = "No"
    <2>1. a.opt = [Status |-> "WantYes", Que |-> "Empty"] /\ a.reply = "yes"
      BY <1>1, <1>2 DEF Enable, Tidy, Answer
    <2>2. a.opt \in OptState /\ a.opt.Status = "WantYes" /\ Tidy(a.opt) /\ (Wish(a.opt) <=> on)
      BY <1>2, <2>1 DEF OptState, Tidy, Wish
    <2>3. With(u, a.reply) = More(u, "yes")
      BY <2>1 DEF With
    <2>4. \/ u = "nothing" /\ d = "nothing" /\ s.Status = "No"
          \/ u = "no" /\ d = "nothing" /\ s.Status \in {"WantNo", "WantYes"}
          \/ u = "nothing" /\ d = "yes" /\ s.Status = "WantYes"
      BY <1>2 DEF Agree, Half
    <2>5. (Half(a.opt, s, More(u, "yes"), d) \/ Half(s, a.opt, d, More(u, "yes"))) /\ More(u, "yes") \in Lines
      BY <2>2, <2>4 DEF Half, More, Lines
    <2> QED
      BY <1>1, <2>1, <2>2, <2>3, <2>5 DEF Agree
  <1>3. CASE ~on /\ o.Status = "Yes"
    <2>1. a.opt = [Status |-> "WantNo", Que |-> "Empty"] /\ a.reply = "no"
      BY <1>1, <1>3 DEF Disable, Tidy, Answer
    <2>2. a.opt \in OptState /\ a.opt.Status = "WantNo" /\ Tidy(a.opt) /\ (Wish(a.opt) <=> on)
      BY <1>3, <2>1 DEF OptState, Tidy, Wish
    <2>3. With(u, a.reply) = More(u, "no")
      BY <2>1 DEF With
    <2>4. \/ u = "nothing" /\ d = "nothing" /\ s.Status = "Yes"
          \/ u = "yes" /\ d = "nothing" /\ s.Status = "WantYes"
          \/ u = "nothing" /\ d = "no" /\ s.Status = "WantNo"
      BY <1>3 DEF Agree, Half
    <2>5. (Half(a.opt, s, More(u, "no"), d) \/ Half(s, a.opt, d, More(u, "no"))) /\ More(u, "no") \in Lines
      BY <2>2, <2>4 DEF Half, More, Lines
    <2> QED
      BY <1>1, <2>1, <2>2, <2>3, <2>5 DEF Agree
  <1>4. CASE o.Status \in {"WantNo", "WantYes"} \/ (on /\ o.Status = "Yes") \/ (~on /\ o.Status = "No")
    <2>1. PICK que \in {"Empty", "Opposite"} : a = Answer(o.Status, que, "none")
      BY <1>1, <1>4 DEF Enable, Disable
    <2>2. o.Status \in {"No", "Yes"} => que = "Empty"
      BY <1>1, <1>4, <2>1 DEF Enable, Disable, Tidy, Answer
    <2>3. Wish([Status |-> o.Status, Que |-> que]) <=> on
      BY <1>1, <1>4, <2>1 DEF Enable, Disable, Answer, Wish
    <2>4. a.opt = [Status |-> o.Status, Que |-> que] /\ a.reply = "none"
      BY <2>1 DEF Answer
    <2> DEFINE t == a.opt
    <2>5. t \in OptState /\ t.Status = o.Status /\ Tidy(t)
      BY <2>2, <2>4 DEF OptState, Tidy
    <2> HIDE DEF t
    <2>6. Agree(t, s, u, d)
      BY <2>5 DEF Agree, Half
    <2> QED
      BY <2>3, <2>4, <2>5, <2>6 DEF With, t
  <1> QED
    BY <1>2, <1>3, <1>4 DEF OptState

\* What is put behind a queue.
Said(r, y, n) == CASE r = "yes" -> <<y>> [] r = "no" -> <<n>> [] OTHER -> <<>>

LEMMA CarriesSaid ==
    ASSUME NEW T, NEW q \in Seq(T), NEW y \in T, NEW n \in T, y # n, NEW l \in Lines, Carries(q, y, n, l),
           NEW r \in {"yes", "no", "none"}
    PROVE  q \o Said(r, y, n) \in Seq(T) /\ Carries(q \o Said(r, y, n), y, n, With(l, r))
  <1>1. CASE r = "none"
    <2>1. Said(r, y, n) = <<>> /\ With(l, r) = l
      BY <1>1 DEF Said, With
    <2>2. q \o <<>> = q
      BY ConcatEmptySeq
    <2> QED
      BY <2>1, <2>2
  <1>2. CASE r # "none"
    <2> DEFINE e == IF r = "yes" THEN y ELSE n
    <2>1. Said(r, y, n) = <<e>> /\ With(l, r) = More(l, r) /\ e \in T /\ r \in {"yes", "no"}
      BY <1>2 DEF Said, With
    <2>2. q \o <<e>> \in Seq(T)
      BY <2>1, Grown
    <2>3. Carries(q \o <<e>>, y, n, More(l, r))
      BY <2>1, CarriesMore
    <2> QED
      BY <2>1, <2>2, <2>3
  <1> QED
    BY <1>1, <1>2

LEMMA DealAlike ==
    ASSUME NEW up, NEW down, NEW y, NEW n, NEW yy, NEW nn, NEW o, NEW s
    PROVE  Deal(up, down, y, n, yy, nn, o, s) <=> Deal(down, up, yy, nn, y, n, s, o)
  BY Alike DEF Deal

\* One end hears the next command of the other, and replies.
Heard(o, c, accept) == IF c = "yes" THEN SaidYes(o, accept) ELSE SaidNo(o)

LEMMA DealHears ==
    ASSUME NEW T, NEW U, NEW up \in Seq(T), NEW down \in Seq(U), NEW y \in T, NEW n \in T, NEW yy \in U, NEW nn \in U,
           y # n, yy # nn, NEW o \in OptState, NEW s \in OptState, Deal(up, down, y, n, yy, nn, o, s), down # <<>>,
           NEW c \in {"yes", "no"}, Head(down) = IF c = "yes" THEN yy ELSE nn, NEW accept \in BOOLEAN,
           NEW a, a = Heard(o, c, accept)
    PROVE  /\ a.opt \in OptState /\ a.reply \in {"yes", "no", "none"} /\ up \o Said(a.reply, y, n) \in Seq(T)
           /\ Deal(up \o Said(a.reply, y, n), Tail(down), y, n, yy, nn, a.opt, s)
           /\ (Wish(a.opt) <=> Wish(o)) \/ a.opt.Status \in {"Yes", "No"}
           /\ c = "yes" => SrvSaidYes(o, accept) = a
           /\ c = "no" => a.opt.Status # "Yes"
  <1>1. PICK u \in Lines, d \in Lines : Carries(up, y, n, u) /\ Carries(down, yy, nn, d) /\ Agree(o, s, u, d)
    BY DEF Deal
  <1>2. First(d) = c /\ Carries(Tail(down), yy, nn, Rest(d))
    BY <1>1, CarriesRest
  <1>3. /\ a.opt \in OptState /\ a.reply \in {"yes", "no", "none"}
        /\ Agree(a.opt, s, With(u, a.reply), Rest(d)) /\ With(u, a.reply) \in Lines
        /\ (Wish(a.opt) <=> Wish(o)) \/ a.opt.Status \in {"Yes", "No"}
        /\ c = "yes" => SrvSaidYes(o, accept) = a
        /\ c = "no" => a.opt.Status # "Yes"
    <2>1. CASE c = "yes"
      <3>1. a = SaidYes(o, accept)
        BY <2>1 DEF Heard
      <3> QED
        BY <1>1, <1>2, <2>1, <3>1, HearsYes
    <2>2. CASE c = "no"
      <3>1. a = SaidNo(o)
        BY <2>2 DEF Heard
      <3> QED
        BY <1>1, <1>2, <2>2, <3>1, HearsNo
    <2> QED
      BY <2>1, <2>2
  <1>4. up \o Said(a.reply, y, n) \in Seq(T) /\ Carries(up \o Said(a.reply, y, n), y, n, With(u, a.reply))
    BY <1>1, <1>3, CarriesSaid
  <1>5. Rest(d) \in Lines
    BY DEF Rest, Lines
  <1>6. Deal(up \o Said(a.reply, y, n), Tail(down), y, n, yy, nn, a.opt, s)
    BY <1>2, <1>3, <1>4, <1>5 DEF Deal
  <1> QED
    BY <1>3, <1>4, <1>6

\* One end asks for the option or wants to be rid of it.
LEMMA DealAsks ==
    ASSUME NEW T, NEW up \in Seq(T), NEW down, NEW y \in T, NEW n \in T, NEW yy, NEW nn,
           y # n, NEW o \in OptState, NEW s \in OptState, Deal(up, down, y, n, yy, nn, o, s),
           NEW on \in BOOLEAN, NEW a, a = IF on THEN Enable(o) ELSE Disable(o)
    PROVE  /\ a.opt \in OptState /\ a.reply \in {"yes", "no", "none"} /\ up \o Said(a.reply, y, n) \in Seq(T)
           /\ Deal(up \o Said(a.reply, y, n), down, y, n, yy, nn, a.opt, s)
           /\ Wish(a.opt) <=> on
           /\ a.opt.Status = "Yes" => o.Status = "Yes"
  <1>1. PICK u \in Lines, d \in Lines : Carries(up, y, n, u) /\ Carries(down, yy, nn, d) /\ Agree(o, s, u, d)
    BY DEF Deal
  <1>2. /\ a.opt \in OptState /\ a.reply \in {"yes", "no", "none"}
        /\ Agree(a.opt, s, With(u, a.reply), d) /\ With(u, a.reply) \in Lines
        /\ Wish(a.opt) <=> on
        /\ a.opt.Status = "Yes" => o.Status = "Yes"
    BY <1>1, Asks
  <1>3. up \o Said(a.reply, y, n) \in Seq(T) /\ Carries(up \o Said(a.reply, y, n), y, n, With(u, a.reply))
    BY <1>1, <1>2, CarriesSaid
  <1>4. Deal(up \o Said(a.reply, y, n), down, y, n, yy, nn, a.opt, s)
    BY <1>1, <1>2, <1>3 DEF Deal
  <1> QED
    BY <1>2, <1>3, <1>4

\* What has nothing to do with the option.
LEMMA DealOther ==
    ASSUME NEW T, NEW U, NEW up \in Seq(T), NEW down \in Seq(U), NEW y, NEW n, NEW yy, NEW nn, NEW o, NEW s,
           Deal(up, down, y, n, yy, nn, o, s)
    PROVE  /\ \A e \in T : e # y /\ e # n => Deal(up \o <<e>>, down, y, n, yy, nn, o, s)
           /\ \A e \in U : e # yy /\ e # nn => Deal(up, down \o <<e>>, y, n, yy, nn, o, s)
           /\ up # <<>> /\ Head(up) # y /\ Head(up) # n => Deal(Tail(up), down, y, n, yy, nn, o, s)
           /\ down # <<>> /\ Head(down) # yy /\ Head(down) # nn => Deal(up, Tail(down), y, n, yy, nn, o, s)
  <1>1. PICK u \in Lines, d \in Lines : Carries(up, y, n, u) /\ Carries(down, yy, nn, d) /\ Agree(o, s, u, d)
    BY DEF Deal
  <1>2. ASSUME NEW e \in T, e # y, e # n PROVE Deal(up \o <<e>>, down, y, n, yy, nn, o, s)
    <2>1. Carries(up \o <<e>>, y, n, u)
      BY <1>1, <1>2, CarriesOther
    <2> QED
      BY <1>1, <2>1 DEF Deal
  <1>3. ASSUME NEW e \in U, e # yy, e # nn PROVE Deal(up, down \o <<e>>, y, n, yy, nn, o, s)
    <2>1. Carries(down \o <<e>>, yy, nn, d)
      BY <1>1, <1>3, CarriesOther
    <2> QED
      BY <1>1, <2>1 DEF Deal
  <1>4. ASSUME up # <<>>, Head(up) # y, Head(up) # n PROVE Deal(Tail(up), down, y, n, yy, nn, o, s)
    <2>1. Carries(Tail(up), y, n, u)
      BY <1>1, <1>4, CarriesStill
    <2> QED
      BY <1>1, <2>1 DEF Deal
  <1>5. ASSUME down # <<>>, Head(down) # yy, Head(down) # nn PROVE Deal(up, Tail(down), y, n, yy, nn, o, s)
    <2>1. Carries(Tail(down), yy, nn, d)
      BY <1>1, <1>5, CarriesStill
    <2> QED
      BY <1>1, <2>1 DEF Deal
  <1> QED
    BY <1>2, <1>3, <1>4, <1>5

-----------------------------------------------------------------------------
(* All options of one side.                                                 *)

LEMMA FamilyAlike ==
    ASSUME NEW up, NEW down, NEW O, NEW yes, NEW no, NEW yyes, NEW nno, NEW f, NEW g
    PROVE  Family(up, down, O, yes, no, yyes, nno, f, g) <=> Family(down, up, O, yyes, nno, yes, no, g, f)
  BY DealAlike DEF Family

\* A family with the types of all it is made of.
Parties(T, U, up, down, O, yes, no, yyes, nno, f, g) ==
    /\ up \in Seq(T) /\ down \in Seq(U) /\ yes # no /\ yyes # nno
    /\ \A b \in O : Cmd(yes, b) \in T /\ Cmd(no, b) \in T /\ Cmd(yyes, b) \in U /\ Cmd(nno, b) \in U
    /\ f \in [O -> OptState] /\ g \in [O -> OptState]
    /\ Family(up, down, O, yes, no, yyes, nno, f, g)

LEMMA FamilyHears ==
    ASSUME NEW T, NEW U, NEW up, NEW down, NEW O, NEW yes, NEW no, NEW yyes, NEW nno, NEW f, NEW g,
           Parties(T, U, up, down, O, yes, no, yyes, nno, f, g), down # <<>>, NEW b0 \in O,
           NEW c \in {"yes", "no"}, Head(down) = Cmd(IF c = "yes" THEN yyes ELSE nno, b0), NEW accept \in BOOLEAN,
           NEW a, a = Heard(f[b0], c, accept)
    PROVE  /\ a.opt \in OptState /\ a.reply \in {"yes", "no", "none"}
           /\ up \o Reply(a.reply, yes, no, b0) \in Seq(T) /\ Tail(down) \in Seq(U)
           /\ [f EXCEPT ![b0] = a.opt] \in [O -> OptState]
           /\ Family(up \o Reply(a.reply, yes, no, b0), Tail(down), O, yes, no, yyes, nno, [f EXCEPT ![b0] = a.opt], g)
           /\ (Wish(a.opt) <=> Wish(f[b0])) \/ a.opt.Status \in {"Yes", "No"}
           /\ c = "yes" => SrvSaidYes(f[b0], accept) = a
           /\ c = "no" => a.opt.Status # "Yes"
  <1>0. /\ up \in Seq(T) /\ down \in Seq(U) /\ yes # no /\ yyes # nno
        /\ \A b \in O : Cmd(yes, b) \in T /\ Cmd(no, b) \in T /\ Cmd(yyes, b) \in U /\ Cmd(nno, b) \in U
        /\ f \in [O -> OptState] /\ g \in [O -> OptState]
        /\ Family(up, down, O, yes, no, yyes, nno, f, g)
    BY DEF Parties
  <1> USE <1>0
  <1> DEFINE Y(b) == Cmd(yes, b)
             N(b) == Cmd(no, b)
             YY(b) == Cmd(yyes, b)
             NN(b) == Cmd(nno, b)
             h == [f EXCEPT ![b0] = a.opt]
  <1>1. \A b \in O : Y(b) # N(b) /\ YY(b) # NN(b)
    BY DEF Cmd
  <1>2. \A b \in O : b # b0 => {Y(b), N(b)} \cap {Y(b0), N(b0)} = {} /\ {YY(b), NN(b)} \cap {YY(b0), NN(b0)} = {}
    BY DEF Cmd
  <1>3. Reply(a.reply, yes, no, b0) = Said(a.reply, Y(b0), N(b0))
    BY DEF Reply, Said
  <1>4. \A b \in O : Deal(up, down, Y(b), N(b), YY(b), NN(b), f[b], g[b])
    BY DEF Family
  <1>5. \A b \in O : Y(b) \in T /\ N(b) \in T /\ YY(b) \in U /\ NN(b) \in U
    OBVIOUS
  <1>6. Head(down) = IF c = "yes" THEN YY(b0) ELSE NN(b0)
    OBVIOUS
  <1>7. f[b0] \in OptState /\ g[b0] \in OptState
    OBVIOUS
  <1>9. \A k : (\A b \in O : Deal(k, Tail(down), Y(b), N(b), YY(b), NN(b), h[b], g[b]))
               => Family(k, Tail(down), O, yes, no, yyes, nno, h, g)
    BY DEF Family
  <1> HIDE DEF Y, N, YY, NN
  <1>10. /\ a.opt \in OptState /\ a.reply \in {"yes", "no", "none"} /\ up \o Said(a.reply, Y(b0), N(b0)) \in Seq(T)
         /\ Deal(up \o Said(a.reply, Y(b0), N(b0)), Tail(down), Y(b0), N(b0), YY(b0), NN(b0), a.opt, g[b0])
         /\ (Wish(a.opt) <=> Wish(f[b0])) \/ a.opt.Status \in {"Yes", "No"}
         /\ c = "yes" => SrvSaidYes(f[b0], accept) = a
         /\ c = "no" => a.opt.Status # "Yes"
    BY <1>1, <1>4, <1>5, <1>6, <1>7, DealHears, SMTT(30)
  <1>11. h \in [O -> OptState] /\ h[b0] = a.opt /\ \A b \in O : b # b0 => h[b] = f[b]
    BY <1>10
  <1>12. Tail(down) \in Seq(U)
    BY Shorter
  <1>13. ASSUME NEW b \in O, b # b0
         PROVE  Deal(up \o Said(a.reply, Y(b0), N(b0)), Tail(down), Y(b), N(b), YY(b), NN(b), f[b], g[b])
    <2>1. Deal(up, Tail(down), Y(b), N(b), YY(b), NN(b), f[b], g[b])
      <3>1. Head(down) # YY(b) /\ Head(down) # NN(b)
        BY <1>2, <1>6, <1>13
      <3> QED
        BY <1>4, <3>1, DealOther
    <2>2. CASE a.reply = "none"
      <3>1. up \o Said(a.reply, Y(b0), N(b0)) = up
        BY <2>2, ConcatEmptySeq DEF Said
      <3> QED
        BY <2>1, <3>1
    <2>3. CASE a.reply # "none"
      <3> DEFINE e == IF a.reply = "yes" THEN Y(b0) ELSE N(b0)
      <3>1. Said(a.reply, Y(b0), N(b0)) = <<e>> /\ e \in T
        BY <1>5, <1>10, <2>3 DEF Said
      <3>2. e # Y(b) /\ e # N(b)
        BY <1>2, <1>13
      <3> HIDE DEF e
      <3>3. Deal(up \o <<e>>, Tail(down), Y(b), N(b), YY(b), NN(b), f[b], g[b])
        BY <1>12, <2>1, <3>1, <3>2, DealOther
      <3> QED
        BY <3>1, <3>3
    <2> QED
      BY <2>2, <2>3
  <1> HIDE DEF h
  <1>14. \A b \in O : Deal(up \o Said(a.reply, Y(b0), N(b0)), Tail(down), Y(b), N(b), YY(b), NN(b), h[b], g[b])
    BY <1>10, <1>11, <1>13
  <1>15. Family(up \o Said(a.reply, Y(b0), N(b0)), Tail(down), O, yes, no, yyes, nno, h, g)
    BY <1>9, <1>14
  <1> QED
    BY <1>3, <1>10, <1>11, <1>12, <1>15 DEF h

LEMMA FamilyAsks ==
    ASSUME NEW T, NEW U, NEW up, NEW down, NEW O, NEW yes, NEW no, NEW yyes, NEW nno, NEW f, NEW g,
           Parties(T, U, up, down, O, yes, no, yyes, nno, f, g), NEW b0 \in O,
           NEW on \in BOOLEAN, NEW a, a = IF on THEN Enable(f[b0]) ELSE Disable(f[b0])
    PROVE  /\ a.opt \in OptState /\ a.reply \in {"yes", "no", "none"}
           /\ up \o Reply(a.reply, yes, no, b0) \in Seq(T)
           /\ [f EXCEPT ![b0] = a.opt] \in [O -> OptState]
           /\ Family(up \o Reply(a.reply, yes, no, b0), down, O, yes, no, yyes, nno, [f EXCEPT ![b0] = a.opt], g)
           /\ Wish(a.opt) <=> on
           /\ a.opt.Status = "Yes" => f[b0].Status = "Yes"
  <1>0. /\ up \in Seq(T) /\ down \in Seq(U) /\ yes # no /\ yyes # nno
        /\ \A b \in O : Cmd(yes, b) \in T /\ Cmd(no, b) \in T /\ Cmd(yyes, b) \in U /\ Cmd(nno, b) \in U
        /\ f \in [O -> OptState] /\ g \in [O -> OptState]
        /\ Family(up, down, O, yes, no, yyes, nno, f, g)
    BY DEF Parties
  <1> USE <1>0
  <1> DEFINE Y(b) == Cmd(yes, b)
             N(b) == Cmd(no, b)
             YY(b) == Cmd(yyes, b)
             NN(b) == Cmd(nno, b)
             h == [f EXCEPT ![b0] = a.opt]
  <1>1. \A b \in O : Y(b) # N(b)
    BY DEF Cmd
  <1>2. \A b \in O : b # b0 => {Y(b), N(b)} \cap {Y(b0), N(b0)} = {}
    BY DEF Cmd
  <1>3. Reply(a.reply, yes, no, b0) = Said(a.reply, Y(b0), N(b0))
    BY DEF Reply, Said
  <1>4. \A b \in O : Deal(up, down, Y(b), N(b), YY(b), NN(b), f[b], g[b])
    BY DEF Family
  <1>5. \A b \in O : Y(b) \in T /\ N(b) \in T
    OBVIOUS
  <1>7. f[b0] \in OptState /\ g[b0] \in OptState
    OBVIOUS
  <1>9. \A k : (\A b \in O : Deal(k, down, Y(b), N(b), YY(b), NN(b), h[b], g[b]))
               => Family(k, down, O, yes, no, yyes, nno, h, g)
    BY DEF Family
  <1> HIDE DEF Y, N, YY, NN
  <1>10. /\ a.opt \in OptState /\ a.reply \in {"yes", "no", "none"} /\ up \o Said(a.reply, Y(b0), N(b0)) \in Seq(T)
         /\ Deal(up \o Said(a.reply, Y(b0), N(b0)), down, Y(b0), N(b0), YY(b0), NN(b0), a.opt, g[b0])
         /\ Wish(a.opt) <=> on
         /\ a.opt.Status = "Yes" => f[b0].Status = "Yes"
    BY <1>1, <1>4, <1>5, <1>7, DealAsks, SMTT(30)
  <1>11. h \in [O -> OptState] /\ h[b0] = a.opt /\ \A b \in O : b # b0 => h[b] = f[b]
    BY <1>10
  <1>13. ASSUME NEW b \in O, b # b0
         PROVE  Deal(up \o Said(a.reply, Y(b0), N(b0)), down, Y(b), N(b), YY(b), NN(b), f[b], g[b])
    <2>1. Deal(up, down, Y(b), N(b), YY(b), NN(b), f[b], g[b])
      BY <1>4
    <2>2. CASE a.reply = "none"
      <3>1. up \o Said(a.reply, Y(b0), N(b0)) = up
        BY <2>2, ConcatEmptySeq DEF Said
      <3> QED
        BY <2>1, <3>1
    <2>3. CASE a.reply # "none"
      <3> DEFINE e == IF a.reply = "yes" THEN Y(b0) ELSE N(b0)
      <3>1. Said(a.reply, Y(b0), N(b0)) = <<e>> /\ e \in T
        BY <1>5, <1>10, <2>3 DEF Said
      <3>2. e # Y(b) /\ e # N(b)
        BY <1>2, <1>13
      <3> HIDE DEF e
      <3>3. Deal(up \o <<e>>, down, Y(b), N(b), YY(b), NN(b), f[b], g[b])
        BY <2>1, <3>1, <3>2, DealOther
      <3> QED
        BY <3>1, <3>3
    <2> QED
      BY <2>2, <2>3
  <1> HIDE DEF h
  <1>14. \A b \in O : Deal(up \o Said(a.reply, Y(b0), N(b0)), down, Y(b), N(b), YY(b), NN(b), h[b], g[b])
    BY <1>10, <1>11, <1>13
  <1>15. Family(up \o Said(a.reply, Y(b0), N(b0)), down, O, yes, no, yyes, nno, h, g)
    BY <1>9, <1>14
  <1> QED
    BY <1>3, <1>10, <1>11, <1>15 DEF h

\* The options of the other side.
LEMMA FamilyOther ==
    ASSUME NEW T, NEW U, NEW up \in Seq(T), NEW down \in Seq(U), NEW O, NEW yes, NEW no, NEW yyes, NEW nno, NEW f, NEW g,
           Family(up, down, O, yes, no, yyes, nno, f, g)
    PROVE  /\ \A e \in T : e.cmd \notin {yes, no} => Family(up \o <<e>>, down, O, yes, no, yyes, nno, f, g)
           /\ down # <<>> /\ Head(down).cmd \notin {yyes, nno} => Family(up, Tail(down), O, yes, no, yyes, nno, f, g)
  <1>1. ASSUME NEW e \in T, e.cmd \notin {yes, no}, NEW b \in O
        PROVE  Deal(up \o <<e>>, down, Cmd(yes, b), Cmd(no, b), Cmd(yyes, b), Cmd(nno, b), f[b], g[b])
    <2>1. e # Cmd(yes, b) /\ e # Cmd(no, b)
      BY <1>1 DEF Cmd
    <2>2. Deal(up, down, Cmd(yes, b), Cmd(no, b), Cmd(yyes, b), Cmd(nno, b), f[b], g[b])
      BY DEF Family
    <2> QED
      BY <1>1, <2>1, <2>2, DealOther
  <1>2. ASSUME down # <<>>, Head(down).cmd \notin {yyes, nno}, NEW b \in O
        PROVE  Deal(up, Tail(down), Cmd(yes, b), Cmd(no, b), Cmd(yyes, b), Cmd(nno, b), f[b], g[b])
    <2>1. Head(down) # Cmd(yyes, b) /\ Head(down) # Cmd(nno, b)
      BY <1>2 DEF Cmd
    <2>2. Deal(up, down, Cmd(yes, b), Cmd(no, b), Cmd(yyes, b), Cmd(nno, b), f[b], g[b])
      BY DEF Family
    <2> QED
      BY <1>2, <2>1, <2>2, DealOther
  <1>3. \A e \in T : e.cmd \notin {yes, no} => Family(up \o <<e>>, down, O, yes, no, yyes, nno, f, g)
    BY <1>1 DEF Family
  <1>4. down # <<>> /\ Head(down).cmd \notin {yyes, nno} => Family(up, Tail(down), O, yes, no, yyes, nno, f, g)
    BY <1>2 DEF Family
  <1> QED
    BY <1>3, <1>4

LEMMA FamilyReply ==
    ASSUME NEW T, NEW U, NEW up \in Seq(T), NEW down \in Seq(U), NEW O, NEW yes, NEW no, NEW yyes, NEW nno, NEW f, NEW g,
           Family(up, down, O, yes, no, yyes, nno, f, g),
           NEW r \in {"yes", "no", "none"}, NEW y, NEW n, NEW b, {y, n} \cap {yes, no} = {}, Cmd(y, b) \in T, Cmd(n, b) \in T
    PROVE  Family(up \o Reply(r, y, n, b), down, O, yes, no, yyes, nno, f, g)
  <1>1. CASE r = "none"
    <2>1. up \o Reply(r, y, n, b) = up
      BY <1>1, ConcatEmptySeq DEF Reply
    <2> QED
      BY <2>1
  <1>2. CASE r # "none"
    <2> DEFINE e == IF r = "yes" THEN Cmd(y, b) ELSE Cmd(n, b)
    <2>1. Reply(r, y, n, b) = <<e>> /\ e \in T
      BY <1>2 DEF Reply
    <2>2. e.cmd \in {y, n}
      BY DEF Cmd
    <2> HIDE DEF e
    <2>3. e.cmd \notin {yes, no}
      BY <2>2
    <2>4. Family(up \o <<e>>, down, O, yes, no, yyes, nno, f, g)
      BY <2>1, <2>3, FamilyOther
    <2> QED
      BY <2>1, <2>4
  <1> QED
    BY <1>1, <1>2

-----------------------------------------------------------------------------
(* The size of the terminal.                                                *)

LEMMA ToldMore ==
    ASSUME NEW T, NEW q \in Seq(T), NEW known, NEW s, NEW e \in T
    PROVE  /\ e.cmd # "SB" /\ Told(q, known, s) => Told(q \o <<e>>, known, s)
           /\ e.cmd = "SB" => Told(q \o <<e>>, known, e.size)
  <1> DEFINE r == q \o <<e>>
  <1> DEFINE k == Len(q)
  <1>1. /\ k \in Nat /\ DOMAIN q = 1..k /\ DOMAIN r = 1..(k + 1) /\ r[k + 1] = e
        /\ \A i \in 1..k : r[i] = q[i]
    BY Grown
  <1> HIDE DEF r, k
  <1>2. ASSUME e.cmd # "SB", Told(q, known, s) PROVE Told(r, known, s)
    <2>1. ASSUME NEW i \in DOMAIN r, r[i].cmd = "SB", \A j \in DOMAIN r : j > i => r[j].cmd # "SB"
          PROVE  r[i].size = s
      <3>1. i \in DOMAIN q /\ r[i] = q[i]
        BY <1>1, <1>2, <2>1
      <3>2. ASSUME NEW j \in DOMAIN q, j > i PROVE q[j].cmd # "SB"
        <4>1. j \in DOMAIN r /\ r[j] = q[j]
          BY <1>1, <3>2
        <4> QED
          BY <2>1, <3>2, <4>1
      <3> QED
        BY <1>2, <2>1, <3>1, <3>2 DEF Told
    <2>2. (\A i \in DOMAIN r : r[i].cmd # "SB") => known = s
      <3>1. (\A i \in DOMAIN r : r[i].cmd # "SB") => \A i \in DOMAIN q : q[i].cmd # "SB"
        BY <1>1
      <3> QED
        BY <1>2, <3>1 DEF Told
    <2> QED
      BY <2>1, <2>2 DEF Told
  <1>3. ASSUME e.cmd = "SB" PROVE Told(r, known, e.size)
    <2>1. k + 1 \in DOMAIN r /\ r[k + 1].cmd = "SB"
      BY <1>1, <1>3
    <2>2. ASSUME NEW i \in DOMAIN r, \A j \in DOMAIN r : j > i => r[j].cmd # "SB" PROVE r[i] = e
      <3>1. ~(k + 1 > i)
        BY <2>1, <2>2
      <3> QED
        BY <1>1, <3>1
    <2> QED
      BY <2>1, <2>2 DEF Told
  <1> QED
    BY <1>2, <1>3 DEF r

LEMMA ToldRest ==
    ASSUME NEW T, NEW q \in Seq(T), q # <<>>, NEW known, NEW s, Told(q, known, s)
    PROVE  /\ Head(q).cmd # "SB" => Told(Tail(q), known, s)
           /\ Head(q).cmd = "SB" => Told(Tail(q), Head(q).size, s)
  <1> DEFINE r == Tail(q)
  <1> DEFINE k == Len(q)
  <1> DEFINE e == Head(q)
  <1>1. /\ k \in Nat \ {0} /\ DOMAIN q = 1..k /\ DOMAIN r = 1..(k - 1) /\ e = q[1]
        /\ \A i \in 1..(k - 1) : r[i] = q[i + 1]
    BY Shorter
  <1> HIDE DEF r, k, e
  <1>2. ASSUME NEW i \in DOMAIN r, r[i].cmd = "SB", \A j \in DOMAIN r : j > i => r[j].cmd # "SB"
        PROVE  r[i].size = s
    <2>1. i + 1 \in DOMAIN q /\ r[i] = q[i + 1]
      BY <1>1
    <2>2. ASSUME NEW j \in DOMAIN q, j > i + 1 PROVE q[j].cmd # "SB"
      <3>1. j - 1 \in DOMAIN r /\ j - 1 > i /\ r[j - 1] = q[j]
        BY <1>1, <2>2
      <3> QED
        BY <1>2, <3>1
    <2> QED
      BY <1>2, <2>1, <2>2 DEF Told
  <1>3. ASSUME \A i \in DOMAIN r : r[i].cmd # "SB" PROVE IF e.cmd = "SB" THEN e.size = s ELSE known = s
    <2>1. ASSUME NEW j \in DOMAIN q, j # 1 PROVE q[j].cmd # "SB"
      <3>1. j - 1 \in DOMAIN r /\ r[j - 1] = q[j]
        BY <1>1, <2>1
      <3> QED
        BY <1>3, <3>1
    <2>2. 1 \in DOMAIN q /\ \A j \in DOMAIN q : j > 1 => j # 1
      BY <1>1
    <2>3. CASE e.cmd = "SB"
      BY <1>1, <2>1, <2>2, <2>3 DEF Told
    <2>4. CASE e.cmd # "SB"
      BY <1>1, <2>1, <2>4 DEF Told
    <2> QED
      BY <2>3, <2>4
  <1>4. /\ e.cmd # "SB" => Told(r, known, s)
        /\ e.cmd = "SB" => Told(r, e.size, s)
    BY <1>2, <1>3 DEF Told
  <1> QED
    BY <1>4 DEF r, e

LEMMA ToldReply ==
    ASSUME NEW T, NEW q \in Seq(T), NEW known, NEW s, Told(q, known, s), NEW r \in {"yes", "no", "none"},
           NEW y, NEW n, NEW b, Cmd(y, b) \in T, Cmd(n, b) \in T, y # "SB", n # "SB"
    PROVE  Told(q \o Reply(r, y, n, b), known, s)
  <1>1. CASE r = "none"
    <2>1. q \o Reply(r, y, n, b) = q
      BY <1>1, ConcatEmptySeq DEF Reply
    <2> QED
      BY <2>1
  <1>2. CASE r # "none"
    <2> DEFINE e == IF r = "yes" THEN Cmd(y, b) ELSE Cmd(n, b)
    <2>1. Reply(r, y, n, b) = <<e>> /\ e \in T
      BY <1>2 DEF Reply
    <2>2. e.cmd # "SB"
      BY DEF Cmd
    <2> HIDE DEF e
    <2>3. Told(q \o <<e>>, known, s)
      BY <2>1, <2>2, ToldMore
    <2> QED
      BY <2>1, <2>3
  <1> QED
    BY <1>1, <1>2

-----------------------------------------------------------------------------
(* The types of commands.                                                   *)

LEMMA Commands ==
    /\ \A b \in HisOptions : /\ Cmd("DO", b) \in ToServer /\ Cmd("DONT", b) \in ToServer
                             /\ Cmd("WILL", b) \in ToClient /\ Cmd("WONT", b) \in ToClient
    /\ \A b \in MyOptions : /\ Cmd("WILL", b) \in ToServer /\ Cmd("WONT", b) \in ToServer
                            /\ Cmd("DO", b) \in ToClient /\ Cmd("DONT", b) \in ToClient
    /\ \A s \in Sizes : Size(s) \in ToServer /\ Size(s).cmd = "SB" /\ Size(s).size = s
  BY DEF Cmd, Size, ToServer, ToClient, HisCmds, MyCmds, SizeMsgs

LEMMA Received ==
    /\ \A m \in ToClient : /\ m.cmd \in {"WILL", "WONT", "DO", "DONT"} /\ m = Cmd(m.cmd, m.opt)
                           /\ m.cmd \in {"WILL", "WONT"} => m.opt \in HisOptions
                           /\ m.cmd \in {"DO", "DONT"} => m.opt \in MyOptions
    /\ \A m \in ToServer : /\ m.cmd \in {"WILL", "WONT", "DO", "DONT", "SB"}
                           /\ m.cmd # "SB" => m = Cmd(m.cmd, m.opt)
                           /\ m.cmd \in {"DO", "DONT"} => m.opt \in HisOptions
                           /\ m.cmd \in {"WILL", "WONT"} => m.opt \in MyOptions
                           /\ m.cmd = "SB" => m.size \in Sizes
  BY DEF Cmd, ToServer, ToClient, HisCmds, MyCmds, SizeMsgs

-----------------------------------------------------------------------------
(* A command that this side hears.                                          *)

LEMMA HisParties ==
    ASSUME IInv
    PROVE  /\ Parties(ToServer, ToClient, toServer, toClient, HisOptions, "DO", "DONT", "WILL", "WONT", HisOpt, srv.his)
           /\ Parties(ToClient, ToServer, toClient, toServer, HisOptions, "WILL", "WONT", "DO", "DONT", srv.his, HisOpt)
  <1>1. Parties(ToServer, ToClient, toServer, toClient, HisOptions, "DO", "DONT", "WILL", "WONT", HisOpt, srv.his)
    BY Commands DEF IInv, TypeOK, Deals, Parties
  <1>2. Parties(ToClient, ToServer, toClient, toServer, HisOptions, "WILL", "WONT", "DO", "DONT", srv.his, HisOpt)
    BY <1>1, FamilyAlike DEF Parties
  <1> QED
    BY <1>1, <1>2

LEMMA MyParties ==
    ASSUME IInv
    PROVE  /\ Parties(ToServer, ToClient, toServer, toClient, MyOptions, "WILL", "WONT", "DO", "DONT", MyOpt, srv.mine)
           /\ Parties(ToClient, ToServer, toClient, toServer, MyOptions, "DO", "DONT", "WILL", "WONT", srv.mine, MyOpt)
  <1>1. Parties(ToServer, ToClient, toServer, toClient, MyOptions, "WILL", "WONT", "DO", "DONT", MyOpt, srv.mine)
    BY Commands DEF IInv, TypeOK, Deals, Parties
  <1>2. Parties(ToClient, ToServer, toClient, toServer, MyOptions, "DO", "DONT", "WILL", "WONT", srv.mine, MyOpt)
    BY <1>1, FamilyAlike DEF Parties
  <1> QED
    BY <1>1, <1>2

\* An option of the server, or one of this side, becomes what a says, which is replied.
HisBecomes(b, a) ==
    /\ HisOpt' = [HisOpt EXCEPT ![b] = a.opt] /\ toServer' = toServer \o Reply(a.reply, "DO", "DONT", b)
    /\ MyOpt' = MyOpt /\ srv' = srv /\ WinSize' = WinSize
MineBecomes(b, a) ==
    /\ MyOpt' = [MyOpt EXCEPT ![b] = a.opt]
    /\ toServer' = toServer \o Reply(a.reply, "WILL", "WONT", b) \o SizeAfterDo(b, a.opt)
    /\ HisOpt' = HisOpt /\ srv' = srv /\ WinSize' = WinSize

LEMMA HisHeard ==
    ASSUME IInv, toClient # <<>>, NEW b \in HisOptions, NEW c \in {"yes", "no"},
           Head(toClient) = Cmd(IF c = "yes" THEN "WILL" ELSE "WONT", b), NEW accept \in BOOLEAN,
           NEW a, a = Heard(HisOpt[b], c, accept),
           HisBecomes(b, a), toClient' = Tail(toClient)
    PROVE  /\ a.opt \in OptState /\ HisOpt' \in [HisOptions -> OptState]
           /\ toServer' \in Seq(ToServer) /\ toClient' \in Seq(ToClient)
           /\ Deals' /\ Sized'
           /\ (Wish(a.opt) <=> Wish(HisOpt[b])) \/ a.opt.Status \in {"Yes", "No"}
           /\ c = "no" => a.opt.Status # "Yes"
  <1>1. /\ toServer \in Seq(ToServer) /\ toClient \in Seq(ToClient)
        /\ HisOpt \in [HisOptions -> OptState] /\ MyOpt \in [MyOptions -> OptState]
        /\ srv.his \in [HisOptions -> OptState]
    BY DEF IInv, TypeOK
  <1>2. /\ Family(toServer, toClient, HisOptions, "DO", "DONT", "WILL", "WONT", HisOpt, srv.his)
        /\ Family(toServer, toClient, MyOptions, "WILL", "WONT", "DO", "DONT", MyOpt, srv.mine)
    BY DEF IInv, Deals
  <1>3. /\ a.opt \in OptState /\ a.reply \in {"yes", "no", "none"}
        /\ toServer \o Reply(a.reply, "DO", "DONT", b) \in Seq(ToServer) /\ Tail(toClient) \in Seq(ToClient)
        /\ [HisOpt EXCEPT ![b] = a.opt] \in [HisOptions -> OptState]
        /\ Family(toServer \o Reply(a.reply, "DO", "DONT", b), Tail(toClient), HisOptions, "DO", "DONT", "WILL", "WONT",
                  [HisOpt EXCEPT ![b] = a.opt], srv.his)
        /\ (Wish(a.opt) <=> Wish(HisOpt[b])) \/ a.opt.Status \in {"Yes", "No"}
        /\ c = "no" => a.opt.Status # "Yes"
    BY HisParties, FamilyHears
  <1>4. Family(toServer, Tail(toClient), MyOptions, "WILL", "WONT", "DO", "DONT", MyOpt, srv.mine)
    <2>1. Head(toClient).cmd \notin {"DO", "DONT"}
      BY DEF Cmd
    <2> QED
      BY <1>1, <1>2, <2>1, FamilyOther
  <1>5. Family(toServer \o Reply(a.reply, "DO", "DONT", b), Tail(toClient), MyOptions, "WILL", "WONT", "DO", "DONT", MyOpt, srv.mine)
    <2>1. {"DO", "DONT"} \cap {"WILL", "WONT"} = {} /\ Cmd("DO", b) \in ToServer /\ Cmd("DONT", b) \in ToServer
      BY Commands
    <2> QED
      BY <1>1, <1>3, <1>4, <2>1, FamilyReply, Zenon
  <1>6. Deals'
    <2>1. Family(toServer', toClient', HisOptions, "DO", "DONT", "WILL", "WONT", HisOpt', srv'.his)
      BY <1>3 DEF HisBecomes
    <2>2. Family(toServer', toClient', MyOptions, "WILL", "WONT", "DO", "DONT", MyOpt', srv'.mine)
      BY <1>5 DEF HisBecomes
    <2> QED
      BY <2>1, <2>2 DEF Deals
  <1>7. Sized'
    <2>1. Told(toServer, srv.size, WinSize) => Told(toServer \o Reply(a.reply, "DO", "DONT", b), srv.size, WinSize)
      BY <1>1, <1>3, Commands, ToldReply
    <2> QED
      BY <2>1 DEF IInv, Sized, HisBecomes
  <1> QED
    BY <1>3, <1>6, <1>7 DEF HisBecomes

LEMMA MineHeard ==
    ASSUME IInv, toClient # <<>>, NEW b \in MyOptions, NEW c \in {"yes", "no"},
           Head(toClient) = Cmd(IF c = "yes" THEN "DO" ELSE "DONT", b), NEW accept \in BOOLEAN,
           NEW a, a = Heard(MyOpt[b], c, accept), MineBecomes(b, a), toClient' = Tail(toClient)
    PROVE  /\ a.opt \in OptState /\ MyOpt' \in [MyOptions -> OptState]
           /\ toServer' \in Seq(ToServer) /\ toClient' \in Seq(ToClient)
           /\ Deals' /\ Sized'
  <1> DEFINE q == toServer \o Reply(a.reply, "WILL", "WONT", b)
  <1> DEFINE r == q \o SizeAfterDo(b, a.opt)
  <1>1. /\ toServer \in Seq(ToServer) /\ toClient \in Seq(ToClient)
        /\ MyOpt \in [MyOptions -> OptState] /\ WinSize \in Sizes
    BY DEF IInv, TypeOK
  <1>2. Family(toServer, toClient, HisOptions, "DO", "DONT", "WILL", "WONT", HisOpt, srv.his)
    BY DEF IInv, Deals
  <1>3. /\ a.opt \in OptState /\ a.reply \in {"yes", "no", "none"}
        /\ q \in Seq(ToServer) /\ Tail(toClient) \in Seq(ToClient)
        /\ [MyOpt EXCEPT ![b] = a.opt] \in [MyOptions -> OptState]
        /\ Family(q, Tail(toClient), MyOptions, "WILL", "WONT", "DO", "DONT", [MyOpt EXCEPT ![b] = a.opt], srv.mine)
    BY MyParties, FamilyHears
  <1>4. Family(toServer, Tail(toClient), HisOptions, "DO", "DONT", "WILL", "WONT", HisOpt, srv.his)
    <2>1. Head(toClient).cmd \notin {"WILL", "WONT"}
      BY DEF Cmd
    <2> QED
      BY <1>1, <1>2, <2>1, FamilyOther
  <1>5. Family(q, Tail(toClient), HisOptions, "DO", "DONT", "WILL", "WONT", HisOpt, srv.his)
    <2>1. {"WILL", "WONT"} \cap {"DO", "DONT"} = {} /\ Cmd("WILL", b) \in ToServer /\ Cmd("WONT", b) \in ToServer
      BY Commands
    <2> QED
      BY <1>1, <1>3, <1>4, <2>1, FamilyReply, Zenon
  <1>6. Told(toServer, srv.size, WinSize) => Told(q, srv.size, WinSize)
    BY <1>1, <1>3, Commands, ToldReply
  <1>7. Sized' /\ r \in Seq(ToServer)
        /\ Family(r, Tail(toClient), MyOptions, "WILL", "WONT", "DO", "DONT", [MyOpt EXCEPT ![b] = a.opt], srv.mine)
        /\ Family(r, Tail(toClient), HisOptions, "DO", "DONT", "WILL", "WONT", HisOpt, srv.his)
    <2>0. /\ toServer' = r /\ srv' = srv /\ WinSize' = WinSize
          /\ MyOpt' = [MyOpt EXCEPT ![b] = a.opt]
      BY DEF MineBecomes
    <2>1. CASE b = "NAWS" /\ a.opt.Status = "Yes"
      <3> DEFINE e == Size(WinSize)
      <3>1. r = q \o <<e>>
        BY <2>1 DEF SizeAfterDo
      <3>2. e \in ToServer /\ e.cmd = "SB" /\ e.size = WinSize
        BY <1>1, Commands
      <3> HIDE DEF e, q, r
      <3>3. q \o <<e>> \in Seq(ToServer)
        BY <1>3, <3>2, Grown
      <3>4. e.cmd \notin {"WILL", "WONT"} /\ e.cmd \notin {"DO", "DONT"}
        BY <3>2
      <3>5. /\ Family(q \o <<e>>, Tail(toClient), MyOptions, "WILL", "WONT", "DO", "DONT", [MyOpt EXCEPT ![b] = a.opt], srv.mine)
            /\ Family(q \o <<e>>, Tail(toClient), HisOptions, "DO", "DONT", "WILL", "WONT", HisOpt, srv.his)
        BY <1>3, <1>5, <3>2, <3>4, FamilyOther
      <3>6. Told(q \o <<e>>, srv.size, WinSize)
        BY <1>3, <3>2, ToldMore
      <3>7. Sized'
        BY <2>0, <3>1, <3>6 DEF Sized
      <3> QED
        BY <3>1, <3>3, <3>5, <3>7
    <2>2. CASE ~(b = "NAWS" /\ a.opt.Status = "Yes")
      <3>1. r = q
        BY <1>3, <2>2, ConcatEmptySeq DEF SizeAfterDo
      <3>2. MyOpt'["NAWS"].Status = "Yes" => MyOpt["NAWS"].Status = "Yes"
        BY <1>1, <2>0, <2>2, TelnetAssumption
      <3> HIDE DEF q, r
      <3>3. Sized'
        BY <1>6, <2>0, <3>1, <3>2 DEF Sized, IInv
      <3> QED
        BY <1>3, <1>5, <3>1, <3>3
    <2> QED
      BY <2>1, <2>2
  <1>8. toServer' = r /\ MyOpt' = [MyOpt EXCEPT ![b] = a.opt] /\ HisOpt' = HisOpt /\ srv' = srv
    BY DEF MineBecomes
  <1> HIDE DEF q, r
  <1>9. Deals'
    <2>1. Family(toServer', toClient', HisOptions, "DO", "DONT", "WILL", "WONT", HisOpt', srv'.his)
      BY <1>7, <1>8
    <2>2. Family(toServer', toClient', MyOptions, "WILL", "WONT", "DO", "DONT", MyOpt', srv'.mine)
      BY <1>7, <1>8
    <2> QED
      BY <2>1, <2>2 DEF Deals
  <1> QED
    BY <1>3, <1>7, <1>8, <1>9

-----------------------------------------------------------------------------
(* The steps of this side.                                                  *)

LEMMA HisStep ==
    ASSUME IInv, toClient # <<>>, NEW b \in HisOptions, NEW c \in {"yes", "no"},
           Head(toClient) = Cmd(IF c = "yes" THEN "WILL" ELSE "WONT", b), NEW accept \in BOOLEAN,
           NEW a, a = Heard(HisOpt[b], c, accept), HisBecomes(b, a), toClient' = Tail(toClient),
           AfterHis(b, a.opt), LineModeAfter(b, a.opt, IF c = "yes" THEN {"ECHO", "SGA"} ELSE {"ECHO"}),
           active' = active
    PROVE  IInv'
  <1>1. /\ a.opt \in OptState /\ HisOpt' \in [HisOptions -> OptState]
        /\ toServer' \in Seq(ToServer) /\ toClient' \in Seq(ToClient)
        /\ Deals' /\ Sized'
        /\ (Wish(a.opt) <=> Wish(HisOpt[b])) \/ a.opt.Status \in {"Yes", "No"}
        /\ c = "no" => a.opt.Status # "Yes"
    BY HisHeard
  <1>2. TypeOK /\ Modes
    BY DEF IInv
  <1>3. /\ HisOpt' = [HisOpt EXCEPT ![b] = a.opt] /\ MyOpt' = MyOpt /\ srv' = srv /\ WinSize' = WinSize
        /\ TelEcho' = TelEcho /\ TelBinSend' = TelBinSend
        /\ TelBinRecv' = IF b = "BINARY" THEN Done(a.opt, TelBinRecv) ELSE TelBinRecv
        /\ LocalEcho' = IF b = "ECHO" /\ TelEcho
                          THEN CASE a.opt.Status = "Yes" -> 0 [] a.opt.Status = "No" -> 1 [] OTHER -> LocalEcho
                          ELSE LocalEcho
        /\ TelLineMode' = (TelLineMode /\ ~(b \in (IF c = "yes" THEN {"ECHO", "SGA"} ELSE {"ECHO"}) /\ a.opt.Status = "Yes"))
    BY DEF HisBecomes, AfterHis, LineModeAfter
  <1>4. HisOpt \in [HisOptions -> OptState] /\ HisOpt'[b] = a.opt /\ \A d \in HisOptions : d # b => HisOpt'[d] = HisOpt[d]
    BY <1>2, <1>3 DEF TypeOK
  <1>5. TypeOK'
    <2>0. TelBinRecv \in BOOLEAN /\ LocalEcho \in 0..1 /\ TelLineMode \in BOOLEAN
      BY <1>2 DEF TypeOK
    <2>2. LocalEcho' \in 0..1
      BY <1>3, <2>0
    <2>3. TelBinRecv' \in BOOLEAN
      <3>1. Done(a.opt, TelBinRecv) \in BOOLEAN
        BY <2>0 DEF Done
      <3> QED
        BY <1>3, <2>0, <3>1
    <2>4. TelLineMode' \in BOOLEAN
      <3> DEFINE over == b \in (IF c = "yes" THEN {"ECHO", "SGA"} ELSE {"ECHO"}) /\ a.opt.Status = "Yes"
      <3>1. over \in BOOLEAN /\ TelLineMode' = (TelLineMode /\ ~over)
        BY <1>3
      <3> HIDE DEF over
      <3> QED
        BY <2>0, <3>1
    <2>1. TelBinRecv' \in BOOLEAN /\ LocalEcho' \in 0..1 /\ TelLineMode' \in BOOLEAN
      BY <2>2, <2>3, <2>4
    <2> QED
      BY <1>1, <1>2, <1>3, <2>1 DEF TypeOK
  <1>6. "BINARY" \in HisOptions => Follows(TelBinRecv', HisOpt'["BINARY"])
    <2>1. CASE b = "BINARY"
      BY <1>3, <1>4, <2>1 DEF Follows, Done
    <2>2. CASE b # "BINARY"
      BY <1>2, <1>3, <1>4, <2>2 DEF Modes
    <2> QED
      BY <2>1, <2>2
  <1>7. active' /\ TelEcho' => (LocalEcho' = 0 <=> Wish(HisOpt'["ECHO"]))
    <2> SUFFICES ASSUME active', TelEcho' PROVE LocalEcho' = 0 <=> Wish(HisOpt'["ECHO"])
      OBVIOUS
    <2>1. LocalEcho = 0 <=> Wish(HisOpt["ECHO"])
      BY <1>2, <1>3 DEF Modes
    <2>2. CASE b = "ECHO"
      <3>1. Wish(HisOpt'["ECHO"]) <=> Wish(a.opt)
        BY <1>4, <2>2
      <3>2. CASE a.opt.Status = "Yes"
        BY <1>3, <2>2, <3>1, <3>2 DEF Wish
      <3>3. CASE a.opt.Status = "No"
        <4>1. ~Wish(a.opt)
          BY <3>3 DEF Wish
        <4> QED
          BY <1>3, <2>2, <3>1, <3>3, <4>1
      <3>4. CASE a.opt.Status \notin {"Yes", "No"}
        BY <1>1, <1>3, <2>1, <2>2, <3>1, <3>4
      <3> QED
        BY <3>2, <3>3, <3>4
    <2>3. CASE b # "ECHO"
      BY <1>3, <1>4, <2>1, <2>3, TelnetAssumption
    <2> QED
      BY <2>2, <2>3
  <1>8. \A d \in HisOptions \cap {"ECHO", "SGA"} : HisOpt'[d].Status = "Yes" => ~TelLineMode'
    BY <1>1, <1>2, <1>3, <1>4 DEF Modes
  <1>9. Modes'
    BY <1>2, <1>3, <1>6, <1>7, <1>8 DEF Modes
  <1> QED
    BY <1>1, <1>5, <1>9 DEF IInv

LEMMA MineStep ==
    ASSUME IInv, toClient # <<>>, NEW b \in MyOptions, NEW c \in {"yes", "no"},
           Head(toClient) = Cmd(IF c = "yes" THEN "DO" ELSE "DONT", b), NEW accept \in BOOLEAN,
           NEW a, a = Heard(MyOpt[b], c, accept), MineBecomes(b, a), toClient' = Tail(toClient),
           AfterMine(b, a.opt), TelLineMode' \in BOOLEAN, TelLineMode' => TelLineMode, active' = active
    PROVE  IInv'
  <1>1. /\ a.opt \in OptState /\ MyOpt' \in [MyOptions -> OptState]
        /\ toServer' \in Seq(ToServer) /\ toClient' \in Seq(ToClient)
        /\ Deals' /\ Sized'
    BY MineHeard
  <1>2. TypeOK /\ Modes
    BY DEF IInv
  <1>3. /\ MyOpt' = [MyOpt EXCEPT ![b] = a.opt] /\ HisOpt' = HisOpt /\ srv' = srv /\ WinSize' = WinSize
        /\ TelEcho' = TelEcho /\ TelBinRecv' = TelBinRecv /\ LocalEcho' = LocalEcho
        /\ TelBinSend' = IF b = "BINARY" THEN Done(a.opt, TelBinSend) ELSE TelBinSend
    BY DEF MineBecomes, AfterMine
  <1>4. MyOpt \in [MyOptions -> OptState] /\ MyOpt'[b] = a.opt /\ \A d \in MyOptions : d # b => MyOpt'[d] = MyOpt[d]
    BY <1>2, <1>3 DEF TypeOK
  <1>5. TypeOK'
    <2>1. TelBinSend' \in BOOLEAN
      BY <1>2, <1>3 DEF TypeOK, Done
    <2> QED
      BY <1>1, <1>2, <1>3, <2>1 DEF TypeOK
  <1>6. "BINARY" \in MyOptions => Follows(TelBinSend', MyOpt'["BINARY"])
    <2>1. CASE b = "BINARY"
      BY <1>3, <1>4, <2>1 DEF Follows, Done
    <2>2. CASE b # "BINARY"
      BY <1>2, <1>3, <1>4, <2>2 DEF Modes
    <2> QED
      BY <2>1, <2>2
  <1>7. Modes'
    BY <1>2, <1>3, <1>6 DEF Modes
  <1> QED
    BY <1>1, <1>5, <1>7 DEF IInv

LEMMA MineSaid ==
    ASSUME IInv, toClient # <<>>, NEW b \in MyOptions, NEW c \in {"yes", "no"},
           Head(toClient) = Cmd(IF c = "yes" THEN "DO" ELSE "DONT", b), NEW accept \in BOOLEAN,
           NEW a, a = Heard(MyOpt[b], c, accept)
    PROVE  /\ a.reply \in {"yes", "no", "none"} /\ (c = "no" => a.opt.Status # "Yes")
           /\ toServer \o Reply(a.reply, "WILL", "WONT", b) \in Seq(ToServer)
  <1>1. /\ a.opt \in OptState /\ a.reply \in {"yes", "no", "none"}
        /\ toServer \o Reply(a.reply, "WILL", "WONT", b) \in Seq(ToServer) /\ Tail(toClient) \in Seq(ToClient)
        /\ [MyOpt EXCEPT ![b] = a.opt] \in [MyOptions -> OptState]
        /\ Family(toServer \o Reply(a.reply, "WILL", "WONT", b), Tail(toClient), MyOptions, "WILL", "WONT", "DO", "DONT",
                  [MyOpt EXCEPT ![b] = a.opt], srv.mine)
        /\ (Wish(a.opt) <=> Wish(MyOpt[b])) \/ a.opt.Status \in {"Yes", "No"}
        /\ c = "no" => a.opt.Status # "Yes"
    BY MyParties, FamilyHears
  <1> QED
    BY <1>1

LEMMA ParseTelStep ==
    ASSUME IInv, ParseTel
    PROVE  IInv'
  <1> DEFINE m == Head(toClient)
             b == m.opt
  <1>1. toClient # <<>> /\ toClient' = Tail(toClient) /\ active' = active /\ srv' = srv
    BY DEF ParseTel
  <1>2. m \in ToClient
    BY <1>1, Shorter DEF IInv, TypeOK
  <1>3. /\ m = Cmd(m.cmd, b) /\ m.cmd \in {"WILL", "WONT", "DO", "DONT"}
        /\ m.cmd \in {"WILL", "WONT"} => b \in HisOptions
        /\ m.cmd \in {"DO", "DONT"} => b \in MyOptions
    BY <1>2, Received
  <1>4. TelLineMode \in BOOLEAN /\ toServer \in Seq(ToServer) /\ MyOpt \in [MyOptions -> OptState]
    BY DEF IInv, TypeOK
  <1>5. CASE m.cmd = "WILL" /\ ParseTelWill(b)
    <2> DEFINE a == SaidYes(HisOpt[b], b \in HisAccept)
    <2>1. /\ HisBecomes(b, a) /\ AfterHis(b, a.opt) /\ LineModeAfter(b, a.opt, {"ECHO", "SGA"})
      BY <1>1, <1>5 DEF ParseTelWill, HisBecomes
    <2>2. a = Heard(HisOpt[b], "yes", b \in HisAccept) /\ m = Cmd("WILL", b) /\ (b \in HisAccept) \in BOOLEAN /\ b \in HisOptions
      BY <1>3, <1>5 DEF Heard
    <2> HIDE DEF a, m, b
    <2>3. toClient # <<>> /\ toClient' = Tail(toClient) /\ Head(toClient) = Cmd("WILL", b)
      BY <1>1, <2>2 DEF m
    <2> QED
      BY <1>1, <2>1, <2>2, <2>3, HisStep
  <1>6. CASE m.cmd = "WONT" /\ ParseTelWont(b)
    <2> DEFINE a == SaidNo(HisOpt[b])
    <2>1. /\ HisBecomes(b, a) /\ AfterHis(b, a.opt) /\ LineModeAfter(b, a.opt, {"ECHO"})
      BY <1>1, <1>6 DEF ParseTelWont, HisBecomes
    <2>2. a = Heard(HisOpt[b], "no", TRUE) /\ m = Cmd("WONT", b) /\ b \in HisOptions
      BY <1>3, <1>6 DEF Heard
    <2> HIDE DEF a, m, b
    <2>3. toClient # <<>> /\ toClient' = Tail(toClient) /\ Head(toClient) = Cmd("WONT", b)
      BY <1>1, <2>2 DEF m
    <2> QED
      BY <1>1, <2>1, <2>2, <2>3, HisStep
  <1>7. CASE m.cmd = "DO" /\ ParseTelDo(b)
    <2> DEFINE a == SaidYes(MyOpt[b], b \in MyAccept)
    <2>1. /\ MineBecomes(b, a) /\ AfterMine(b, a.opt) /\ LineModeAfter(b, a.opt, {"SGA"})
      BY <1>1, <1>7 DEF ParseTelDo, MineBecomes
    <2>2. a = Heard(MyOpt[b], "yes", b \in MyAccept) /\ m = Cmd("DO", b) /\ (b \in MyAccept) \in BOOLEAN /\ b \in MyOptions
      BY <1>3, <1>7 DEF Heard
    <2>4. TelLineMode' \in BOOLEAN /\ (TelLineMode' => TelLineMode)
      BY <1>4, <2>1 DEF LineModeAfter
    <2> HIDE DEF a, m, b
    <2>3. toClient # <<>> /\ toClient' = Tail(toClient) /\ Head(toClient) = Cmd("DO", b)
      BY <1>1, <2>2 DEF m
    <2> QED
      BY <1>1, <2>1, <2>2, <2>3, <2>4, MineStep
  <1>8. CASE m.cmd = "DONT" /\ ParseTelDont(b)
    <2> DEFINE a == SaidNo(MyOpt[b])
    <2>2. a = Heard(MyOpt[b], "no", TRUE) /\ m = Cmd("DONT", b) /\ b \in MyOptions
      BY <1>3, <1>8 DEF Heard
    <2>3. toClient # <<>> /\ toClient' = Tail(toClient) /\ Head(toClient) = Cmd("DONT", b)
      BY <1>1, <2>2
    <2>4. TelLineMode' \in BOOLEAN /\ (TelLineMode' => TelLineMode)
      BY <1>4, <1>8 DEF ParseTelDont
    <2>5. MyOpt' = [MyOpt EXCEPT ![b] = a.opt] /\ toServer' = toServer \o Reply(a.reply, "WILL", "WONT", b)
          /\ AfterMine(b, a.opt) /\ HisOpt' = HisOpt /\ WinSize' = WinSize
      BY <1>8 DEF ParseTelDont
    <2> HIDE DEF a, m, b
    <2>6. /\ a.reply \in {"yes", "no", "none"} /\ a.opt.Status # "Yes"
          /\ toServer \o Reply(a.reply, "WILL", "WONT", b) \in Seq(ToServer)
      BY <2>2, <2>3, MineSaid
    <2>7. (toServer \o Reply(a.reply, "WILL", "WONT", b)) \o SizeAfterDo(b, a.opt) = toServer \o Reply(a.reply, "WILL", "WONT", b)
      BY <2>6, ConcatEmptySeq DEF SizeAfterDo
    <2>8. MineBecomes(b, a)
      BY <1>1, <2>5, <2>7 DEF MineBecomes
    <2> QED
      BY <1>1, <2>2, <2>3, <2>4, <2>5, <2>8, MineStep
  <1> QED
    BY <1>5, <1>6, <1>7, <1>8 DEF ParseTel

LEMMA HisAsked ==
    ASSUME IInv, NEW b \in HisOptions, NEW on \in BOOLEAN,
           NEW a, a = IF on THEN Enable(HisOpt[b]) ELSE Disable(HisOpt[b]), HisBecomes(b, a), toClient' = toClient
    PROVE  /\ a.opt \in OptState /\ HisOpt' \in [HisOptions -> OptState]
           /\ toServer' \in Seq(ToServer)
           /\ Deals' /\ Sized'
           /\ Wish(a.opt) <=> on
           /\ a.opt.Status = "Yes" => HisOpt[b].Status = "Yes"
  <1>1. /\ toServer \in Seq(ToServer) /\ toClient \in Seq(ToClient)
        /\ HisOpt \in [HisOptions -> OptState] /\ MyOpt \in [MyOptions -> OptState]
        /\ srv.his \in [HisOptions -> OptState]
    BY DEF IInv, TypeOK
  <1>2. /\ Family(toServer, toClient, HisOptions, "DO", "DONT", "WILL", "WONT", HisOpt, srv.his)
        /\ Family(toServer, toClient, MyOptions, "WILL", "WONT", "DO", "DONT", MyOpt, srv.mine)
    BY DEF IInv, Deals
  <1>3. /\ a.opt \in OptState /\ a.reply \in {"yes", "no", "none"}
        /\ toServer \o Reply(a.reply, "DO", "DONT", b) \in Seq(ToServer)
        /\ [HisOpt EXCEPT ![b] = a.opt] \in [HisOptions -> OptState]
        /\ Family(toServer \o Reply(a.reply, "DO", "DONT", b), toClient, HisOptions, "DO", "DONT", "WILL", "WONT",
                  [HisOpt EXCEPT ![b] = a.opt], srv.his)
        /\ Wish(a.opt) <=> on
        /\ a.opt.Status = "Yes" => HisOpt[b].Status = "Yes"
    BY HisParties, FamilyAsks
  <1>5. Family(toServer \o Reply(a.reply, "DO", "DONT", b), toClient, MyOptions, "WILL", "WONT", "DO", "DONT", MyOpt, srv.mine)
    <2>1. {"DO", "DONT"} \cap {"WILL", "WONT"} = {} /\ Cmd("DO", b) \in ToServer /\ Cmd("DONT", b) \in ToServer
      BY Commands
    <2> QED
      BY <1>1, <1>2, <1>3, <2>1, FamilyReply, Zenon
  <1>6. Deals'
    <2>1. Family(toServer', toClient', HisOptions, "DO", "DONT", "WILL", "WONT", HisOpt', srv'.his)
      BY <1>3 DEF HisBecomes
    <2>2. Family(toServer', toClient', MyOptions, "WILL", "WONT", "DO", "DONT", MyOpt', srv'.mine)
      BY <1>5 DEF HisBecomes
    <2> QED
      BY <2>1, <2>2 DEF Deals
  <1>7. Sized'
    <2>1. Told(toServer, srv.size, WinSize) => Told(toServer \o Reply(a.reply, "DO", "DONT", b), srv.size, WinSize)
      BY <1>1, <1>3, Commands, ToldReply
    <2> QED
      BY <2>1 DEF IInv, Sized, HisBecomes
  <1> QED
    BY <1>3, <1>6, <1>7 DEF HisBecomes

LEMMA TelChangeEchoStep ==
    ASSUME IInv, TelChangeEcho
    PROVE  IInv'
  <1>1. TypeOK /\ Deals /\ Sized /\ Modes
    BY DEF IInv
  <1>2. /\ LocalEcho' \in 0..1 /\ MyOpt' = MyOpt /\ TelEcho' = TelEcho /\ TelBinRecv' = TelBinRecv
        /\ TelBinSend' = TelBinSend /\ TelLineMode' = TelLineMode /\ WinSize' = WinSize
        /\ active' = active /\ toClient' = toClient /\ srv' = srv
    BY DEF TelChangeEcho, sizeVars
  <1>3. CASE TelEcho
    <2> DEFINE on == LocalEcho' = 0
               a == IF on THEN Enable(HisOpt["ECHO"]) ELSE Disable(HisOpt["ECHO"])
    <2>1. HisOpt' = [HisOpt EXCEPT !["ECHO"] = a.opt] /\ toServer' = toServer \o Reply(a.reply, "DO", "DONT", "ECHO")
      BY <1>3 DEF TelChangeEcho
    <2>2. on \in BOOLEAN /\ a = (IF on THEN Enable(HisOpt["ECHO"]) ELSE Disable(HisOpt["ECHO"])) /\ "ECHO" \in HisOptions
      BY TelnetAssumption
    <2>3. on <=> LocalEcho' = 0
      OBVIOUS
    <2> HIDE DEF a, on
    <2>4. HisBecomes("ECHO", a)
      BY <1>2, <2>1 DEF HisBecomes
    <2>5. /\ a.opt \in OptState /\ HisOpt' \in [HisOptions -> OptState]
          /\ toServer' \in Seq(ToServer)
          /\ Deals' /\ Sized'
          /\ Wish(a.opt) <=> on
          /\ a.opt.Status = "Yes" => HisOpt["ECHO"].Status = "Yes"
      BY <1>2, <2>2, <2>4, HisAsked
    <2>6. HisOpt'["ECHO"] = a.opt /\ \A d \in HisOptions : d # "ECHO" => HisOpt'[d] = HisOpt[d]
      BY <1>1, <2>1, <2>2 DEF TypeOK
    <2>7. TypeOK'
      BY <1>1, <1>2, <2>5 DEF TypeOK
    <2>8. "BINARY" \in HisOptions => Follows(TelBinRecv', HisOpt'["BINARY"])
      BY <1>1, <1>2, <2>6 DEF Modes
    <2>9. "BINARY" \in MyOptions => Follows(TelBinSend', MyOpt'["BINARY"])
      BY <1>1, <1>2 DEF Modes
    <2>10. LocalEcho' = 0 <=> Wish(HisOpt'["ECHO"])
      BY <2>3, <2>5, <2>6
    <2>11. \A d \in HisOptions \cap {"ECHO", "SGA"} : HisOpt'[d].Status = "Yes" => ~TelLineMode'
      BY <1>1, <1>2, <2>2, <2>5, <2>6 DEF Modes
    <2>12. Modes'
      BY <2>8, <2>9, <2>10, <2>11 DEF Modes
    <2> QED
      BY <2>5, <2>7, <2>12 DEF IInv
  <1>4. CASE ~TelEcho
    <2>1. HisOpt' = HisOpt /\ toServer' = toServer
      BY <1>4 DEF TelChangeEcho
    <2>2. TypeOK'
      BY <1>1, <1>2, <2>1 DEF TypeOK
    <2>3. Deals'
      BY <1>1, <1>2, <2>1 DEF Deals
    <2>4. Sized'
      BY <1>1, <1>2, <2>1 DEF Sized
    <2>5. Modes'
      BY <1>1, <1>2, <1>4, <2>1 DEF Modes
    <2> QED
      BY <2>2, <2>3, <2>4, <2>5 DEF IInv
  <1> QED
    BY <1>3, <1>4

LEMMA ChangeTerminalSizeStep ==
    ASSUME IInv, ChangeTerminalSize
    PROVE  IInv'
  <1>1. TypeOK /\ Deals /\ Sized /\ Modes
    BY DEF IInv
  <1>2. /\ MyOpt' = MyOpt /\ HisOpt' = HisOpt /\ TelEcho' = TelEcho /\ LocalEcho' = LocalEcho
        /\ TelBinRecv' = TelBinRecv /\ TelBinSend' = TelBinSend /\ TelLineMode' = TelLineMode
        /\ active' = active /\ toClient' = toClient /\ srv' = srv
    BY DEF ChangeTerminalSize, optVars, modeVars
  <1>3. PICK s \in Sizes : Informed(s)
    BY DEF ChangeTerminalSize
  <1>4. Modes'
    BY <1>1, <1>2 DEF Modes
  <1>5. CASE toServer' = Append(toServer, Size(s)) /\ WinSize' = s
    <2> DEFINE e == Size(s)
    <2>1. e \in ToServer /\ e.cmd = "SB" /\ e.size = s
      BY Commands
    <2>2. toServer \in Seq(ToServer) /\ toClient \in Seq(ToClient)
      BY <1>1 DEF TypeOK
    <2>3. toServer' = toServer \o <<e>>
      BY <1>5
    <2> HIDE DEF e
    <2>4. toServer' \in Seq(ToServer)
      BY <2>1, <2>2, <2>3, Grown
    <2>5. /\ Family(toServer, toClient, HisOptions, "DO", "DONT", "WILL", "WONT", HisOpt, srv.his)
          /\ Family(toServer, toClient, MyOptions, "WILL", "WONT", "DO", "DONT", MyOpt, srv.mine)
      BY <1>1 DEF Deals
    <2>6. e.cmd \notin {"WILL", "WONT"} /\ e.cmd \notin {"DO", "DONT"}
      BY <2>1
    <2>7. /\ Family(toServer \o <<e>>, toClient, HisOptions, "DO", "DONT", "WILL", "WONT", HisOpt, srv.his)
          /\ Family(toServer \o <<e>>, toClient, MyOptions, "WILL", "WONT", "DO", "DONT", MyOpt, srv.mine)
      BY <2>1, <2>2, <2>5, <2>6, FamilyOther
    <2>8. Deals'
      BY <1>2, <2>3, <2>7 DEF Deals
    <2>9. Told(toServer \o <<e>>, srv.size, s)
      BY <2>1, <2>2, ToldMore
    <2>10. Sized'
      BY <1>2, <1>5, <2>3, <2>9 DEF Sized
    <2>11. TypeOK'
      BY <1>1, <1>2, <1>5, <2>4 DEF TypeOK
    <2> QED
      BY <1>4, <2>8, <2>10, <2>11 DEF IInv
  <1>6. CASE toServer' = toServer /\ WinSize' = WinSize
    <2>1. TypeOK'
      BY <1>1, <1>2, <1>6 DEF TypeOK
    <2>2. Deals'
      BY <1>1, <1>2, <1>6 DEF Deals
    <2>3. Sized'
      BY <1>1, <1>2, <1>6 DEF Sized
    <2> QED
      BY <1>4, <2>1, <2>2, <2>3 DEF IInv
  <1> QED
    BY <1>3, <1>5, <1>6 DEF Informed

-----------------------------------------------------------------------------
(* The steps of the server.                                                 *)

LEMMA ClientAlike ==
    ASSUME IInv, clientVars' = clientVars, toServer' \in Seq(ToServer), toClient' \in Seq(ToClient),
           srv' \in [his : [HisOptions -> OptState], mine : [MyOptions -> OptState], size : Sizes \cup {0}]
    PROVE  TypeOK' /\ Modes'
  <1>1. /\ MyOpt' = MyOpt /\ HisOpt' = HisOpt /\ TelEcho' = TelEcho /\ LocalEcho' = LocalEcho
        /\ TelBinRecv' = TelBinRecv /\ TelBinSend' = TelBinSend /\ TelLineMode' = TelLineMode
        /\ WinSize' = WinSize /\ active' = active
    BY DEF clientVars, optVars, modeVars, sizeVars
  <1>2. TypeOK'
    BY <1>1 DEF IInv, TypeOK
  <1>3. Modes'
    BY <1>1 DEF IInv, Modes
  <1> QED
    BY <1>2, <1>3

LEMMA SrvHisHears ==
    ASSUME IInv, toServer # <<>>, NEW b \in HisOptions, NEW c \in {"yes", "no"},
           Head(toServer) = Cmd(IF c = "yes" THEN "DO" ELSE "DONT", b), NEW accept \in BOOLEAN,
           NEW a, a = Heard(srv.his[b], c, accept),
           srv' = [srv EXCEPT !.his[b] = a.opt], toClient' = toClient \o Reply(a.reply, "WILL", "WONT", b),
           toServer' = Tail(toServer), clientVars' = clientVars
    PROVE  IInv'
  <1>1. /\ toServer \in Seq(ToServer) /\ toClient \in Seq(ToClient)
        /\ HisOpt \in [HisOptions -> OptState] /\ MyOpt \in [MyOptions -> OptState]
        /\ srv.his \in [HisOptions -> OptState] /\ srv.mine \in [MyOptions -> OptState] /\ srv.size \in Sizes \cup {0}
    BY DEF IInv, TypeOK
  <1>2. Family(toClient, toServer, MyOptions, "DO", "DONT", "WILL", "WONT", srv.mine, MyOpt)
    BY FamilyAlike DEF IInv, Deals
  <1>3. /\ a.opt \in OptState /\ a.reply \in {"yes", "no", "none"}
        /\ toClient \o Reply(a.reply, "WILL", "WONT", b) \in Seq(ToClient) /\ Tail(toServer) \in Seq(ToServer)
        /\ [srv.his EXCEPT ![b] = a.opt] \in [HisOptions -> OptState]
        /\ Family(toClient \o Reply(a.reply, "WILL", "WONT", b), Tail(toServer), HisOptions, "WILL", "WONT", "DO", "DONT",
                  [srv.his EXCEPT ![b] = a.opt], HisOpt)
    BY HisParties, FamilyHears
  <1>4. Family(toClient, Tail(toServer), MyOptions, "DO", "DONT", "WILL", "WONT", srv.mine, MyOpt)
    <2>1. Head(toServer).cmd \notin {"WILL", "WONT"}
      BY DEF Cmd
    <2> QED
      BY <1>1, <1>2, <2>1, FamilyOther
  <1>5. Family(toClient \o Reply(a.reply, "WILL", "WONT", b), Tail(toServer), MyOptions, "DO", "DONT", "WILL", "WONT", srv.mine, MyOpt)
    <2>1. {"WILL", "WONT"} \cap {"DO", "DONT"} = {} /\ Cmd("WILL", b) \in ToClient /\ Cmd("WONT", b) \in ToClient
      BY Commands
    <2> QED
      BY <1>1, <1>3, <1>4, <2>1, FamilyReply, Zenon
  <1>6. /\ srv'.his = [srv.his EXCEPT ![b] = a.opt] /\ srv'.mine = srv.mine /\ srv'.size = srv.size
        /\ srv' \in [his : [HisOptions -> OptState], mine : [MyOptions -> OptState], size : Sizes \cup {0}]
    BY <1>1, <1>3 DEF IInv, TypeOK
  <1>7. HisOpt' = HisOpt /\ MyOpt' = MyOpt /\ WinSize' = WinSize
    BY DEF clientVars, optVars, sizeVars
  <1>8. Deals'
    <2>1. Family(toClient', toServer', HisOptions, "WILL", "WONT", "DO", "DONT", srv'.his, HisOpt')
      BY <1>3, <1>6, <1>7
    <2>2. Family(toClient', toServer', MyOptions, "DO", "DONT", "WILL", "WONT", srv'.mine, MyOpt')
      BY <1>5, <1>6, <1>7
    <2> QED
      BY <2>1, <2>2, FamilyAlike DEF Deals
  <1>9. Sized'
    <2>1. Head(toServer).cmd # "SB"
      BY DEF Cmd
    <2>2. Told(toServer, srv.size, WinSize) => Told(Tail(toServer), srv.size, WinSize)
      BY <1>1, <2>1, ToldRest
    <2> QED
      BY <1>6, <1>7, <2>2 DEF IInv, Sized
  <1>10. TypeOK' /\ Modes'
    BY <1>3, <1>6, ClientAlike
  <1> QED
    BY <1>8, <1>9, <1>10 DEF IInv

LEMMA SrvHisSaysYes ==
    ASSUME IInv, toServer # <<>>, NEW b \in HisOptions, NEW c \in {"yes", "no"},
           Head(toServer) = Cmd(IF c = "yes" THEN "DO" ELSE "DONT", b), NEW accept \in BOOLEAN,
           NEW a, a = Heard(srv.his[b], c, accept)
    PROVE  c = "yes" => SrvSaidYes(srv.his[b], accept) = a
  <1>1. /\ a.opt \in OptState /\ a.reply \in {"yes", "no", "none"}
        /\ toClient \o Reply(a.reply, "WILL", "WONT", b) \in Seq(ToClient) /\ Tail(toServer) \in Seq(ToServer)
        /\ [srv.his EXCEPT ![b] = a.opt] \in [HisOptions -> OptState]
        /\ Family(toClient \o Reply(a.reply, "WILL", "WONT", b), Tail(toServer), HisOptions, "WILL", "WONT", "DO", "DONT",
                  [srv.his EXCEPT ![b] = a.opt], HisOpt)
        /\ (Wish(a.opt) <=> Wish(srv.his[b])) \/ a.opt.Status \in {"Yes", "No"}
        /\ c = "yes" => SrvSaidYes(srv.his[b], accept) = a
    BY HisParties, FamilyHears
  <1> QED
    BY <1>1

LEMMA SrvMineHears ==
    ASSUME IInv, toServer # <<>>, NEW b \in MyOptions, NEW c \in {"yes", "no"},
           Head(toServer) = Cmd(IF c = "yes" THEN "WILL" ELSE "WONT", b), NEW accept \in BOOLEAN,
           NEW a, a = Heard(srv.mine[b], c, accept),
           srv' = [srv EXCEPT !.mine[b] = a.opt], toClient' = toClient \o Reply(a.reply, "DO", "DONT", b),
           toServer' = Tail(toServer), clientVars' = clientVars
    PROVE  IInv'
  <1>1. /\ toServer \in Seq(ToServer) /\ toClient \in Seq(ToClient)
        /\ HisOpt \in [HisOptions -> OptState] /\ MyOpt \in [MyOptions -> OptState]
        /\ srv.his \in [HisOptions -> OptState] /\ srv.mine \in [MyOptions -> OptState] /\ srv.size \in Sizes \cup {0}
    BY DEF IInv, TypeOK
  <1>2. Family(toClient, toServer, HisOptions, "WILL", "WONT", "DO", "DONT", srv.his, HisOpt)
    BY FamilyAlike DEF IInv, Deals
  <1>3. /\ a.opt \in OptState /\ a.reply \in {"yes", "no", "none"}
        /\ toClient \o Reply(a.reply, "DO", "DONT", b) \in Seq(ToClient) /\ Tail(toServer) \in Seq(ToServer)
        /\ [srv.mine EXCEPT ![b] = a.opt] \in [MyOptions -> OptState]
        /\ Family(toClient \o Reply(a.reply, "DO", "DONT", b), Tail(toServer), MyOptions, "DO", "DONT", "WILL", "WONT",
                  [srv.mine EXCEPT ![b] = a.opt], MyOpt)
    BY MyParties, FamilyHears
  <1>4. Family(toClient, Tail(toServer), HisOptions, "WILL", "WONT", "DO", "DONT", srv.his, HisOpt)
    <2>1. Head(toServer).cmd \notin {"DO", "DONT"}
      BY DEF Cmd
    <2> QED
      BY <1>1, <1>2, <2>1, FamilyOther
  <1>5. Family(toClient \o Reply(a.reply, "DO", "DONT", b), Tail(toServer), HisOptions, "WILL", "WONT", "DO", "DONT", srv.his, HisOpt)
    <2>1. {"DO", "DONT"} \cap {"WILL", "WONT"} = {} /\ Cmd("DO", b) \in ToClient /\ Cmd("DONT", b) \in ToClient
      BY Commands
    <2> QED
      BY <1>1, <1>3, <1>4, <2>1, FamilyReply, Zenon
  <1>6. /\ srv'.mine = [srv.mine EXCEPT ![b] = a.opt] /\ srv'.his = srv.his /\ srv'.size = srv.size
        /\ srv' \in [his : [HisOptions -> OptState], mine : [MyOptions -> OptState], size : Sizes \cup {0}]
    BY <1>1, <1>3 DEF IInv, TypeOK
  <1>7. HisOpt' = HisOpt /\ MyOpt' = MyOpt /\ WinSize' = WinSize
    BY DEF clientVars, optVars, sizeVars
  <1>8. Deals'
    <2>1. Family(toClient', toServer', MyOptions, "DO", "DONT", "WILL", "WONT", srv'.mine, MyOpt')
      BY <1>3, <1>6, <1>7
    <2>2. Family(toClient', toServer', HisOptions, "WILL", "WONT", "DO", "DONT", srv'.his, HisOpt')
      BY <1>5, <1>6, <1>7
    <2> QED
      BY <2>1, <2>2, FamilyAlike DEF Deals
  <1>9. Sized'
    <2>1. Head(toServer).cmd # "SB"
      BY DEF Cmd
    <2>2. Told(toServer, srv.size, WinSize) => Told(Tail(toServer), srv.size, WinSize)
      BY <1>1, <2>1, ToldRest
    <2> QED
      BY <1>6, <1>7, <2>2 DEF IInv, Sized
  <1>10. TypeOK' /\ Modes'
    BY <1>3, <1>6, ClientAlike
  <1> QED
    BY <1>8, <1>9, <1>10 DEF IInv

LEMMA SrvMineSaysYes ==
    ASSUME IInv, toServer # <<>>, NEW b \in MyOptions, NEW c \in {"yes", "no"},
           Head(toServer) = Cmd(IF c = "yes" THEN "WILL" ELSE "WONT", b), NEW accept \in BOOLEAN,
           NEW a, a = Heard(srv.mine[b], c, accept)
    PROVE  c = "yes" => SrvSaidYes(srv.mine[b], accept) = a
  <1>1. /\ a.opt \in OptState /\ a.reply \in {"yes", "no", "none"}
        /\ toClient \o Reply(a.reply, "DO", "DONT", b) \in Seq(ToClient) /\ Tail(toServer) \in Seq(ToServer)
        /\ [srv.mine EXCEPT ![b] = a.opt] \in [MyOptions -> OptState]
        /\ Family(toClient \o Reply(a.reply, "DO", "DONT", b), Tail(toServer), MyOptions, "DO", "DONT", "WILL", "WONT",
                  [srv.mine EXCEPT ![b] = a.opt], MyOpt)
        /\ (Wish(a.opt) <=> Wish(srv.mine[b])) \/ a.opt.Status \in {"Yes", "No"}
        /\ c = "yes" => SrvSaidYes(srv.mine[b], accept) = a
    BY MyParties, FamilyHears
  <1> QED
    BY <1>1

LEMMA SrvHisAsks ==
    ASSUME IInv, NEW b \in HisOptions, NEW on \in BOOLEAN,
           NEW a, a = IF on THEN Enable(srv.his[b]) ELSE Disable(srv.his[b]),
           srv' = [srv EXCEPT !.his[b] = a.opt], toClient' = toClient \o Reply(a.reply, "WILL", "WONT", b),
           toServer' = toServer, clientVars' = clientVars
    PROVE  IInv'
  <1>1. /\ toServer \in Seq(ToServer) /\ toClient \in Seq(ToClient)
        /\ HisOpt \in [HisOptions -> OptState] /\ MyOpt \in [MyOptions -> OptState]
        /\ srv.his \in [HisOptions -> OptState] /\ srv.mine \in [MyOptions -> OptState] /\ srv.size \in Sizes \cup {0}
    BY DEF IInv, TypeOK
  <1>2. Family(toClient, toServer, MyOptions, "DO", "DONT", "WILL", "WONT", srv.mine, MyOpt)
    BY FamilyAlike DEF IInv, Deals
  <1>3. /\ a.opt \in OptState /\ a.reply \in {"yes", "no", "none"}
        /\ toClient \o Reply(a.reply, "WILL", "WONT", b) \in Seq(ToClient)
        /\ [srv.his EXCEPT ![b] = a.opt] \in [HisOptions -> OptState]
        /\ Family(toClient \o Reply(a.reply, "WILL", "WONT", b), toServer, HisOptions, "WILL", "WONT", "DO", "DONT",
                  [srv.his EXCEPT ![b] = a.opt], HisOpt)
        /\ Wish(a.opt) <=> on
        /\ a.opt.Status = "Yes" => srv.his[b].Status = "Yes"
    BY HisParties, FamilyAsks
  <1>5. Family(toClient \o Reply(a.reply, "WILL", "WONT", b), toServer, MyOptions, "DO", "DONT", "WILL", "WONT", srv.mine, MyOpt)
    <2>1. {"WILL", "WONT"} \cap {"DO", "DONT"} = {} /\ Cmd("WILL", b) \in ToClient /\ Cmd("WONT", b) \in ToClient
      BY Commands
    <2> QED
      BY <1>1, <1>2, <1>3, <2>1, FamilyReply, Zenon
  <1>6. /\ srv'.his = [srv.his EXCEPT ![b] = a.opt] /\ srv'.mine = srv.mine /\ srv'.size = srv.size
        /\ srv' \in [his : [HisOptions -> OptState], mine : [MyOptions -> OptState], size : Sizes \cup {0}]
    BY <1>1, <1>3 DEF IInv, TypeOK
  <1>7. HisOpt' = HisOpt /\ MyOpt' = MyOpt /\ WinSize' = WinSize
    BY DEF clientVars, optVars, sizeVars
  <1>8. Deals'
    <2>1. Family(toClient', toServer', HisOptions, "WILL", "WONT", "DO", "DONT", srv'.his, HisOpt')
      BY <1>3, <1>6, <1>7
    <2>2. Family(toClient', toServer', MyOptions, "DO", "DONT", "WILL", "WONT", srv'.mine, MyOpt')
      BY <1>5, <1>6, <1>7
    <2> QED
      BY <2>1, <2>2, FamilyAlike DEF Deals
  <1>9. Sized'
    BY <1>6, <1>7 DEF IInv, Sized
  <1>10. TypeOK' /\ Modes'
    BY <1>1, <1>3, <1>6, ClientAlike
  <1> QED
    BY <1>8, <1>9, <1>10 DEF IInv

LEMMA SrvMineAsks ==
    ASSUME IInv, NEW b \in MyOptions, NEW on \in BOOLEAN,
           NEW a, a = IF on THEN Enable(srv.mine[b]) ELSE Disable(srv.mine[b]),
           srv' = [srv EXCEPT !.mine[b] = a.opt], toClient' = toClient \o Reply(a.reply, "DO", "DONT", b),
           toServer' = toServer, clientVars' = clientVars
    PROVE  IInv'
  <1>1. /\ toServer \in Seq(ToServer) /\ toClient \in Seq(ToClient)
        /\ HisOpt \in [HisOptions -> OptState] /\ MyOpt \in [MyOptions -> OptState]
        /\ srv.his \in [HisOptions -> OptState] /\ srv.mine \in [MyOptions -> OptState] /\ srv.size \in Sizes \cup {0}
    BY DEF IInv, TypeOK
  <1>2. Family(toClient, toServer, HisOptions, "WILL", "WONT", "DO", "DONT", srv.his, HisOpt)
    BY FamilyAlike DEF IInv, Deals
  <1>3. /\ a.opt \in OptState /\ a.reply \in {"yes", "no", "none"}
        /\ toClient \o Reply(a.reply, "DO", "DONT", b) \in Seq(ToClient)
        /\ [srv.mine EXCEPT ![b] = a.opt] \in [MyOptions -> OptState]
        /\ Family(toClient \o Reply(a.reply, "DO", "DONT", b), toServer, MyOptions, "DO", "DONT", "WILL", "WONT",
                  [srv.mine EXCEPT ![b] = a.opt], MyOpt)
        /\ Wish(a.opt) <=> on
        /\ a.opt.Status = "Yes" => srv.mine[b].Status = "Yes"
    BY MyParties, FamilyAsks
  <1>5. Family(toClient \o Reply(a.reply, "DO", "DONT", b), toServer, HisOptions, "WILL", "WONT", "DO", "DONT", srv.his, HisOpt)
    <2>1. {"DO", "DONT"} \cap {"WILL", "WONT"} = {} /\ Cmd("DO", b) \in ToClient /\ Cmd("DONT", b) \in ToClient
      BY Commands
    <2> QED
      BY <1>1, <1>2, <1>3, <2>1, FamilyReply, Zenon
  <1>6. /\ srv'.mine = [srv.mine EXCEPT ![b] = a.opt] /\ srv'.his = srv.his /\ srv'.size = srv.size
        /\ srv' \in [his : [HisOptions -> OptState], mine : [MyOptions -> OptState], size : Sizes \cup {0}]
    BY <1>1, <1>3 DEF IInv, TypeOK
  <1>7. HisOpt' = HisOpt /\ MyOpt' = MyOpt /\ WinSize' = WinSize
    BY DEF clientVars, optVars, sizeVars
  <1>8. Deals'
    <2>1. Family(toClient', toServer', MyOptions, "DO", "DONT", "WILL", "WONT", srv'.mine, MyOpt')
      BY <1>3, <1>6, <1>7
    <2>2. Family(toClient', toServer', HisOptions, "WILL", "WONT", "DO", "DONT", srv'.his, HisOpt')
      BY <1>5, <1>6, <1>7
    <2> QED
      BY <2>1, <2>2, FamilyAlike DEF Deals
  <1>9. Sized'
    BY <1>6, <1>7 DEF IInv, Sized
  <1>10. TypeOK' /\ Modes'
    BY <1>1, <1>3, <1>6, ClientAlike
  <1> QED
    BY <1>8, <1>9, <1>10 DEF IInv

LEMMA SrvReceiveStep ==
    ASSUME IInv, SrvReceive
    PROVE  IInv'
  <1> DEFINE m == Head(toServer)
             b == m.opt
  <1>1. toServer # <<>> /\ toServer' = Tail(toServer) /\ clientVars' = clientVars
    BY DEF SrvReceive
  <1>2. m \in ToServer /\ toServer \in Seq(ToServer) /\ toClient \in Seq(ToClient) /\ Tail(toServer) \in Seq(ToServer)
    BY <1>1, Shorter DEF IInv, TypeOK
  <1>3. /\ m.cmd \in {"WILL", "WONT", "DO", "DONT", "SB"}
        /\ m.cmd # "SB" => m = Cmd(m.cmd, b)
        /\ m.cmd \in {"DO", "DONT"} => b \in HisOptions
        /\ m.cmd \in {"WILL", "WONT"} => b \in MyOptions
        /\ m.cmd = "SB" => m.size \in Sizes
    BY <1>2, Received
  <1>4. ASSUME m.cmd = "DO", NEW accept \in BOOLEAN,
               srv' = [srv EXCEPT !.his[b] = SrvSaidYes(srv.his[b], accept).opt],
               toClient' = toClient \o Reply(SrvSaidYes(srv.his[b], accept).reply, "WILL", "WONT", b)
        PROVE  IInv'
    <2> DEFINE a == SaidYes(srv.his[b], accept)
    <2>2. a = Heard(srv.his[b], "yes", accept) /\ b \in HisOptions /\ Head(toServer) = Cmd("DO", b)
      BY <1>3, <1>4 DEF Heard
    <2> HIDE DEF a
    <2>3. SrvSaidYes(srv.his[b], accept) = a
      BY <1>1, <2>2, SrvHisSaysYes
    <2>4. srv' = [srv EXCEPT !.his[b] = a.opt] /\ toClient' = toClient \o Reply(a.reply, "WILL", "WONT", b)
      BY <1>4, <2>3
    <2> QED
      BY <1>1, <2>2, <2>4, SrvHisHears
  <1>5. ASSUME m.cmd = "DONT", NEW accept \in BOOLEAN,
               srv' = [srv EXCEPT !.his[b] = SaidNo(srv.his[b]).opt],
               toClient' = toClient \o Reply(SaidNo(srv.his[b]).reply, "WILL", "WONT", b)
        PROVE  IInv'
    <2> DEFINE a == SaidNo(srv.his[b])
    <2>2. a = Heard(srv.his[b], "no", accept) /\ b \in HisOptions /\ Head(toServer) = Cmd("DONT", b)
      BY <1>3, <1>5 DEF Heard
    <2>4. srv' = [srv EXCEPT !.his[b] = a.opt] /\ toClient' = toClient \o Reply(a.reply, "WILL", "WONT", b)
      BY <1>5
    <2> HIDE DEF a
    <2> QED
      BY <1>1, <2>2, <2>4, SrvHisHears
  <1>6. ASSUME m.cmd = "WILL", NEW accept \in BOOLEAN,
               srv' = [srv EXCEPT !.mine[b] = SrvSaidYes(srv.mine[b], accept).opt],
               toClient' = toClient \o Reply(SrvSaidYes(srv.mine[b], accept).reply, "DO", "DONT", b)
        PROVE  IInv'
    <2> DEFINE a == SaidYes(srv.mine[b], accept)
    <2>2. a = Heard(srv.mine[b], "yes", accept) /\ b \in MyOptions /\ Head(toServer) = Cmd("WILL", b)
      BY <1>3, <1>6 DEF Heard
    <2> HIDE DEF a
    <2>3. SrvSaidYes(srv.mine[b], accept) = a
      BY <1>1, <2>2, SrvMineSaysYes
    <2>4. srv' = [srv EXCEPT !.mine[b] = a.opt] /\ toClient' = toClient \o Reply(a.reply, "DO", "DONT", b)
      BY <1>6, <2>3
    <2> QED
      BY <1>1, <2>2, <2>4, SrvMineHears
  <1>7. ASSUME m.cmd = "WONT", NEW accept \in BOOLEAN,
               srv' = [srv EXCEPT !.mine[b] = SaidNo(srv.mine[b]).opt],
               toClient' = toClient \o Reply(SaidNo(srv.mine[b]).reply, "DO", "DONT", b)
        PROVE  IInv'
    <2> DEFINE a == SaidNo(srv.mine[b])
    <2>2. a = Heard(srv.mine[b], "no", accept) /\ b \in MyOptions /\ Head(toServer) = Cmd("WONT", b)
      BY <1>3, <1>7 DEF Heard
    <2>4. srv' = [srv EXCEPT !.mine[b] = a.opt] /\ toClient' = toClient \o Reply(a.reply, "DO", "DONT", b)
      BY <1>7
    <2> HIDE DEF a
    <2> QED
      BY <1>1, <2>2, <2>4, SrvMineHears
  <1>8. ASSUME m.cmd = "SB", srv' = [srv EXCEPT !.size = m.size], toClient' = toClient
        PROVE  IInv'
    <2>1. /\ srv'.his = srv.his /\ srv'.mine = srv.mine /\ srv'.size = m.size
          /\ srv' \in [his : [HisOptions -> OptState], mine : [MyOptions -> OptState], size : Sizes \cup {0}]
      BY <1>3, <1>8 DEF IInv, TypeOK
    <2>2. TypeOK' /\ Modes'
      BY <1>1, <1>2, <1>8, <2>1, ClientAlike
    <2>3. HisOpt' = HisOpt /\ MyOpt' = MyOpt /\ WinSize' = WinSize
      BY <1>1 DEF clientVars, optVars, sizeVars
    <2>4. m.cmd \notin {"WILL", "WONT"} /\ m.cmd \notin {"DO", "DONT"}
      BY <1>8
    <2>5. /\ Family(toClient, toServer, HisOptions, "WILL", "WONT", "DO", "DONT", srv.his, HisOpt)
          /\ Family(toClient, toServer, MyOptions, "DO", "DONT", "WILL", "WONT", srv.mine, MyOpt)
      BY FamilyAlike DEF IInv, Deals
    <2>6. /\ Family(toClient, Tail(toServer), HisOptions, "WILL", "WONT", "DO", "DONT", srv.his, HisOpt)
          /\ Family(toClient, Tail(toServer), MyOptions, "DO", "DONT", "WILL", "WONT", srv.mine, MyOpt)
      BY <1>1, <1>2, <2>4, <2>5, FamilyOther
    <2>7. Deals'
      BY <1>1, <1>8, <2>1, <2>3, <2>6, FamilyAlike DEF Deals
    <2>8. Told(toServer, srv.size, WinSize) => Told(Tail(toServer), m.size, WinSize)
      BY <1>1, <1>2, <1>8, ToldRest
    <2>9. Sized'
      BY <1>1, <2>1, <2>3, <2>8 DEF IInv, Sized
    <2> QED
      BY <2>2, <2>7, <2>9 DEF IInv
  <1>9. CASE m.cmd \in {"DO", "DONT"}
    <2>1. PICK accept \in BOOLEAN :
            LET a == IF m.cmd = "DO" THEN SrvSaidYes(srv.his[b], accept) ELSE SaidNo(srv.his[b]) IN
            srv' = [srv EXCEPT !.his[b] = a.opt] /\ toClient' = toClient \o Reply(a.reply, "WILL", "WONT", b)
      BY <1>9 DEF SrvReceive
    <2>2. CASE m.cmd = "DO"
      BY <1>4, <2>1, <2>2
    <2>3. CASE m.cmd = "DONT"
      BY <1>5, <2>1, <2>3
    <2> QED
      BY <1>9, <2>2, <2>3
  <1>10. CASE m.cmd \in {"WILL", "WONT"}
    <2>1. PICK accept \in BOOLEAN :
            LET a == IF m.cmd = "WILL" THEN SrvSaidYes(srv.mine[b], accept) ELSE SaidNo(srv.mine[b]) IN
            srv' = [srv EXCEPT !.mine[b] = a.opt] /\ toClient' = toClient \o Reply(a.reply, "DO", "DONT", b)
      BY <1>10 DEF SrvReceive
    <2>2. CASE m.cmd = "WILL"
      BY <1>6, <2>1, <2>2
    <2>3. CASE m.cmd = "WONT"
      BY <1>7, <2>1, <2>3
    <2> QED
      BY <1>10, <2>2, <2>3
  <1>11. CASE m.cmd = "SB"
    <2>1. srv' = [srv EXCEPT !.size = m.size] /\ toClient' = toClient
      BY <1>11 DEF SrvReceive
    <2> QED
      BY <1>8, <1>11, <2>1
  <1> QED
    BY <1>3, <1>9, <1>10, <1>11

LEMMA SrvOffersStep ==
    ASSUME IInv, SrvOffers
    PROVE  IInv'
  <1>1. toServer' = toServer /\ clientVars' = clientVars
    BY DEF SrvOffers
  <1>2. PICK on \in BOOLEAN : (\E b \in HisOptions : SrvChangesHis(b, on)) \/ (\E b \in MyOptions : SrvChangesMine(b, on))
    BY DEF SrvOffers
  <1>3. ASSUME NEW b \in HisOptions, SrvChangesHis(b, on) PROVE IInv'
    <2> DEFINE a == IF on THEN Enable(srv.his[b]) ELSE Disable(srv.his[b])
    <2>1. srv' = [srv EXCEPT !.his[b] = a.opt] /\ toClient' = toClient \o Reply(a.reply, "WILL", "WONT", b)
      BY <1>3 DEF SrvChangesHis
    <2>2. a = IF on THEN Enable(srv.his[b]) ELSE Disable(srv.his[b])
      OBVIOUS
    <2> HIDE DEF a
    <2> QED
      BY <1>1, <2>1, <2>2, SrvHisAsks
  <1>4. ASSUME NEW b \in MyOptions, SrvChangesMine(b, on) PROVE IInv'
    <2> DEFINE a == IF on THEN Enable(srv.mine[b]) ELSE Disable(srv.mine[b])
    <2>1. srv' = [srv EXCEPT !.mine[b] = a.opt] /\ toClient' = toClient \o Reply(a.reply, "DO", "DONT", b)
      BY <1>4 DEF SrvChangesMine
    <2>2. a = IF on THEN Enable(srv.mine[b]) ELSE Disable(srv.mine[b])
      OBVIOUS
    <2> HIDE DEF a
    <2> QED
      BY <1>1, <2>1, <2>2, SrvMineAsks
  <1> QED
    BY <1>2, <1>3, <1>4

LEMMA StepKeepsIInv ==
    IInv /\ [Next]_vars => IInv'
  <1>1. ASSUME IInv, UNCHANGED vars PROVE IInv'
    <2>1. clientVars' = clientVars /\ toServer' = toServer /\ toClient' = toClient /\ srv' = srv
      BY <1>1 DEF vars
    <2>2. MyOpt' = MyOpt /\ HisOpt' = HisOpt /\ WinSize' = WinSize
      BY <2>1 DEF clientVars, optVars, sizeVars
    <2>3. TypeOK' /\ Modes'
      BY <1>1, <2>1, ClientAlike DEF IInv, TypeOK
    <2>4. Deals' /\ Sized'
      BY <1>1, <2>1, <2>2 DEF IInv, Deals, Sized
    <2> QED
      BY <2>3, <2>4 DEF IInv
  <1> QED
    BY <1>1, ParseTelStep, TelChangeEchoStep, ChangeTerminalSizeStep, SrvReceiveStep, SrvOffersStep DEF Next

-----------------------------------------------------------------------------
(* What is asked for at the opening.                                        *)

\* Every command in q is a first request, of M, and none is there twice.
Opened(q, M) ==
    /\ q \in Seq(ToServer)
    /\ \A i \in DOMAIN q : q[i] \in M /\ q[i].cmd \in {"DO", "WILL"}
    /\ \A i, j \in DOMAIN q : q[i] = q[j] => i = j

LEMMA NothingOpened ==
    Opened(<<>>, {}) /\ ~AskedFor(<<>>, "DO", "ECHO")
  <1>1. <<>> \in Seq(ToServer) /\ DOMAIN <<>> = {}
    OBVIOUS
  <1> QED
    BY <1>1 DEF Opened, AskedFor

LEMMA OpenedMore ==
    ASSUME NEW q, NEW M, Opened(q, M), NEW c \in {"DO", "WILL"}, NEW b, NEW wanted \in BOOLEAN, Cmd(c, b) \notin M
    PROVE  /\ Opened(q \o Ask(c, b, wanted), M \cup {Cmd(c, b)})
           /\ c # "DO" \/ b # "ECHO" => (AskedFor(q \o Ask(c, b, wanted), "DO", "ECHO") <=> AskedFor(q, "DO", "ECHO"))
           /\ c = "DO" /\ b = "ECHO" => (AskedFor(q \o Ask(c, b, wanted), "DO", "ECHO") <=> AskedFor(q, "DO", "ECHO") \/ wanted)
  <1> DEFINE e == Cmd(c, b)
             r == q \o Ask(c, b, wanted)
             k == Len(q)
  <1>1. q \in Seq(ToServer)
    BY DEF Opened
  <1>2. CASE b \in (IF c = "WILL" THEN MyOptions ELSE HisOptions) /\ wanted
    <2>1. r = q \o <<e>> /\ e \in ToServer /\ e.cmd \in {"DO", "WILL"} /\ e \notin M
      <3>1. r = q \o <<e>>
        BY <1>2 DEF Ask
      <3>2. e \in ToServer
        BY <1>2, Commands
      <3>3. e.cmd \in {"DO", "WILL"}
        BY DEF Cmd
      <3> QED
        BY <3>1, <3>2, <3>3
    <2>2. e = Cmd("DO", "ECHO") <=> c = "DO" /\ b = "ECHO" /\ wanted
      BY <1>2 DEF Cmd
    <2> HIDE DEF e, r
    <2>3. /\ r \in Seq(ToServer) /\ k \in Nat /\ DOMAIN q = 1..k /\ DOMAIN r = 1..(k + 1) /\ r[k + 1] = e
          /\ \A i \in 1..k : r[i] = q[i]
      BY <1>1, <2>1, Grown
    <2> HIDE DEF k
    <2>4. Opened(r, M \cup {e})
      BY <2>1, <2>3 DEF Opened
    <2>5. AskedFor(r, "DO", "ECHO") <=> AskedFor(q, "DO", "ECHO") \/ e = Cmd("DO", "ECHO")
      BY <2>3 DEF AskedFor
    <2> QED
      BY <2>2, <2>4, <2>5 DEF e, r
  <1>3. CASE ~(b \in (IF c = "WILL" THEN MyOptions ELSE HisOptions) /\ wanted)
    <2>1. r = q
      BY <1>1, <1>3, ConcatEmptySeq DEF Ask
    <2>2. ~(c = "DO" /\ b = "ECHO" /\ wanted)
      BY <1>3, TelnetAssumption
    <2> HIDE DEF r, e
    <2>3. Opened(q, M \cup {e})
      BY DEF Opened
    <2> QED
      BY <2>1, <2>2, <2>3 DEF r, e
  <1> QED
    BY <1>2, <1>3

LEMMA OpenedEcho ==
    ASSUME NEW q, NEW M, Opened(q, M), NEW wanted \in BOOLEAN, Cmd("DO", "ECHO") \notin M
    PROVE  AskedFor(q \o Ask("DO", "ECHO", wanted), "DO", "ECHO") <=> AskedFor(q, "DO", "ECHO") \/ wanted
  <1> DEFINE c == "DO"
             b == "ECHO"
  <1>1. c \in {"DO", "WILL"} /\ c = "DO" /\ b = "ECHO" /\ Cmd(c, b) \notin M
    OBVIOUS
  <1> HIDE DEF c, b
  <1>2. AskedFor(q \o Ask(c, b, wanted), "DO", "ECHO") <=> AskedFor(q, "DO", "ECHO") \/ wanted
    BY <1>1, OpenedMore
  <1> QED
    BY <1>1, <1>2

LEMMA OpeningOpened ==
    ASSUME NEW bin \in BOOLEAN, NEW echo \in BOOLEAN
    PROVE  \E M : Opened(Opening(bin, echo), M) /\ (AskedFor(Opening(bin, echo), "DO", "ECHO") <=> echo)
  <1> DEFINE M0 == {}
             M1 == M0 \cup {Cmd("WILL", "TERMTYPE")}
             M2 == M1 \cup {Cmd("DO", "SGA")}
             M3 == M2 \cup {Cmd("WILL", "SGA")}
             M4 == M3 \cup {Cmd("DO", "ECHO")}
             M5 == M4 \cup {Cmd("WILL", "NAWS")}
             M6 == M5 \cup {Cmd("WILL", "BINARY")}
             M7 == M6 \cup {Cmd("DO", "BINARY")}
             M8 == M7 \cup {Cmd("WILL", "TERMSPEED")}
             q1 == Ask("WILL", "TERMTYPE", TRUE)
             q2 == q1 \o Ask("DO", "SGA", TRUE)
             q3 == q2 \o Ask("WILL", "SGA", TRUE)
             q4 == q3 \o Ask("DO", "ECHO", echo)
             q5 == q4 \o Ask("WILL", "NAWS", TRUE)
             q6 == q5 \o Ask("WILL", "BINARY", bin)
             q7 == q6 \o Ask("DO", "BINARY", bin)
             q8 == q7 \o Ask("WILL", "TERMSPEED", TRUE)
  <1>1. /\ Cmd("WILL", "TERMTYPE") \notin M0
        /\ Cmd("DO", "SGA") \notin M1
        /\ Cmd("WILL", "SGA") \notin M2
        /\ Cmd("DO", "ECHO") \notin M3
        /\ Cmd("WILL", "NAWS") \notin M4
        /\ Cmd("WILL", "BINARY") \notin M5
        /\ Cmd("DO", "BINARY") \notin M6
        /\ Cmd("WILL", "TERMSPEED") \notin M7
    BY DEF Cmd
  <1>2. Opening(bin, echo) = q8
    BY DEF Opening
  <1>3. q1 = <<>> \o Ask("WILL", "TERMTYPE", TRUE)
    <2>1. Ask("WILL", "TERMTYPE", TRUE) \in Seq(ToServer)
      BY Commands DEF Ask
    <2> QED
      BY <2>1, ConcatEmptySeq
  <1> DEFINE Got(q, M, has) == Opened(q, M) /\ (AskedFor(q, "DO", "ECHO") <=> has)
  <1>4. Got(q1, M1, FALSE)
    <2>1. q1 = <<>> \o Ask("WILL", "TERMTYPE", TRUE) /\ M1 = M0 \cup {Cmd("WILL", "TERMTYPE")} /\ Cmd("WILL", "TERMTYPE") \notin M0
      BY <1>1, <1>3
    <2>2. Opened(<<>>, M0) /\ (AskedFor(<<>>, "DO", "ECHO") <=> FALSE)
      BY NothingOpened
    <2> HIDE DEF q1, M1, M0
    <2>3. Opened(<<>> \o Ask("WILL", "TERMTYPE", TRUE), M0 \cup {Cmd("WILL", "TERMTYPE")})
      BY <2>1, <2>2, OpenedMore
    <2>4. AskedFor(<<>> \o Ask("WILL", "TERMTYPE", TRUE), "DO", "ECHO") <=> AskedFor(<<>>, "DO", "ECHO")
      BY <2>1, <2>2, OpenedMore
    <2> QED
      BY <2>1, <2>2, <2>3, <2>4
  <1>5. Got(q2, M2, FALSE)
    <2>1. q2 = q1 \o Ask("DO", "SGA", TRUE) /\ M2 = M1 \cup {Cmd("DO", "SGA")} /\ Cmd("DO", "SGA") \notin M1
      BY <1>1
    <2>2. Opened(q1, M1) /\ (AskedFor(q1, "DO", "ECHO") <=> FALSE)
      BY <1>4
    <2> HIDE DEF q2, q1, M2, M1
    <2>3. Opened(q1 \o Ask("DO", "SGA", TRUE), M1 \cup {Cmd("DO", "SGA")})
      BY <2>1, <2>2, OpenedMore
    <2>4. AskedFor(q1 \o Ask("DO", "SGA", TRUE), "DO", "ECHO") <=> AskedFor(q1, "DO", "ECHO")
      BY <2>1, <2>2, OpenedMore
    <2> QED
      BY <2>1, <2>2, <2>3, <2>4
  <1>6. Got(q3, M3, FALSE)
    <2>1. q3 = q2 \o Ask("WILL", "SGA", TRUE) /\ M3 = M2 \cup {Cmd("WILL", "SGA")} /\ Cmd("WILL", "SGA") \notin M2
      BY <1>1
    <2>2. Opened(q2, M2) /\ (AskedFor(q2, "DO", "ECHO") <=> FALSE)
      BY <1>5
    <2> HIDE DEF q3, q2, M3, M2
    <2>3. Opened(q2 \o Ask("WILL", "SGA", TRUE), M2 \cup {Cmd("WILL", "SGA")})
      BY <2>1, <2>2, OpenedMore
    <2>4. AskedFor(q2 \o Ask("WILL", "SGA", TRUE), "DO", "ECHO") <=> AskedFor(q2, "DO", "ECHO")
      BY <2>1, <2>2, OpenedMore
    <2> QED
      BY <2>1, <2>2, <2>3, <2>4
  <1>7. Got(q4, M4, echo)
    <2>1. q4 = q3 \o Ask("DO", "ECHO", echo) /\ M4 = M3 \cup {Cmd("DO", "ECHO")} /\ Cmd("DO", "ECHO") \notin M3
      BY <1>1
    <2>2. Opened(q3, M3) /\ (AskedFor(q3, "DO", "ECHO") <=> FALSE)
      BY <1>6
    <2> HIDE DEF q4, q3, M4, M3
    <2>3. Opened(q3 \o Ask("DO", "ECHO", echo), M3 \cup {Cmd("DO", "ECHO")})
      BY <2>1, <2>2, OpenedMore
    <2>4. AskedFor(q3 \o Ask("DO", "ECHO", echo), "DO", "ECHO") <=> AskedFor(q3, "DO", "ECHO") \/ echo
      BY <2>1, <2>2, OpenedEcho
    <2> QED
      BY <2>1, <2>2, <2>3, <2>4
  <1>8. Got(q5, M5, echo)
    <2>1. q5 = q4 \o Ask("WILL", "NAWS", TRUE) /\ M5 = M4 \cup {Cmd("WILL", "NAWS")} /\ Cmd("WILL", "NAWS") \notin M4
      BY <1>1
    <2>2. Opened(q4, M4) /\ (AskedFor(q4, "DO", "ECHO") <=> echo)
      BY <1>7
    <2> HIDE DEF q5, q4, M5, M4
    <2>3. Opened(q4 \o Ask("WILL", "NAWS", TRUE), M4 \cup {Cmd("WILL", "NAWS")})
      BY <2>1, <2>2, OpenedMore
    <2>4. AskedFor(q4 \o Ask("WILL", "NAWS", TRUE), "DO", "ECHO") <=> AskedFor(q4, "DO", "ECHO")
      BY <2>1, <2>2, OpenedMore
    <2> QED
      BY <2>1, <2>2, <2>3, <2>4
  <1>9. Got(q6, M6, echo)
    <2>1. q6 = q5 \o Ask("WILL", "BINARY", bin) /\ M6 = M5 \cup {Cmd("WILL", "BINARY")} /\ Cmd("WILL", "BINARY") \notin M5
      BY <1>1
    <2>2. Opened(q5, M5) /\ (AskedFor(q5, "DO", "ECHO") <=> echo)
      BY <1>8
    <2> HIDE DEF q6, q5, M6, M5
    <2>3. Opened(q5 \o Ask("WILL", "BINARY", bin), M5 \cup {Cmd("WILL", "BINARY")})
      BY <2>1, <2>2, OpenedMore
    <2>4. AskedFor(q5 \o Ask("WILL", "BINARY", bin), "DO", "ECHO") <=> AskedFor(q5, "DO", "ECHO")
      BY <2>1, <2>2, OpenedMore
    <2> QED
      BY <2>1, <2>2, <2>3, <2>4
  <1>10. Got(q7, M7, echo)
    <2>1. q7 = q6 \o Ask("DO", "BINARY", bin) /\ M7 = M6 \cup {Cmd("DO", "BINARY")} /\ Cmd("DO", "BINARY") \notin M6
      BY <1>1
    <2>2. Opened(q6, M6) /\ (AskedFor(q6, "DO", "ECHO") <=> echo)
      BY <1>9
    <2> HIDE DEF q7, q6, M7, M6
    <2>3. Opened(q6 \o Ask("DO", "BINARY", bin), M6 \cup {Cmd("DO", "BINARY")})
      BY <2>1, <2>2, OpenedMore
    <2>4. AskedFor(q6 \o Ask("DO", "BINARY", bin), "DO", "ECHO") <=> AskedFor(q6, "DO", "ECHO")
      BY <2>1, <2>2, OpenedMore
    <2> QED
      BY <2>1, <2>2, <2>3, <2>4
  <1>11. Got(q8, M8, echo)
    <2>1. q8 = q7 \o Ask("WILL", "TERMSPEED", TRUE) /\ M8 = M7 \cup {Cmd("WILL", "TERMSPEED")} /\ Cmd("WILL", "TERMSPEED") \notin M7
      BY <1>1
    <2>2. Opened(q7, M7) /\ (AskedFor(q7, "DO", "ECHO") <=> echo)
      BY <1>10
    <2> HIDE DEF q8, q7, M8, M7
    <2>3. Opened(q7 \o Ask("WILL", "TERMSPEED", TRUE), M7 \cup {Cmd("WILL", "TERMSPEED")})
      BY <2>1, <2>2, OpenedMore
    <2>4. AskedFor(q7 \o Ask("WILL", "TERMSPEED", TRUE), "DO", "ECHO") <=> AskedFor(q7, "DO", "ECHO")
      BY <2>1, <2>2, OpenedMore
    <2> QED
      BY <2>1, <2>2, <2>3, <2>4
  <1> QED
    BY <1>2, <1>11

\* A request is there once or not at all.
LEMMA OpenedCarries ==
    ASSUME NEW q, NEW M, Opened(q, M), NEW c \in {"DO", "WILL"}, NEW no \in {"DONT", "WONT"}, NEW b
    PROVE  Carries(q, Cmd(c, b), Cmd(no, b), IF AskedFor(q, c, b) THEN "yes" ELSE "nothing")
  <1>1. \A i \in DOMAIN q : q[i] # Cmd(no, b)
    BY DEF Opened, Cmd
  <1>2. CASE AskedFor(q, c, b)
    <2>1. Single(q, {Cmd(c, b), Cmd(no, b)}, Cmd(c, b))
      BY <1>1, <1>2 DEF Opened, Single, AskedFor
    <2> QED
      BY <1>2, <2>1 DEF Carries
  <1>3. CASE ~AskedFor(q, c, b)
    <2>1. Free(q, {Cmd(c, b), Cmd(no, b)})
      BY <1>1, <1>3 DEF Free, AskedFor
    <2> QED
      BY <1>3, <2>1 DEF Carries
  <1> QED
    BY <1>2, <1>3

LEMMA OpenedFamily ==
    ASSUME NEW q, NEW M, Opened(q, M), NEW O, NEW c \in {"DO", "WILL"}, NEW no \in {"DONT", "WONT"}, NEW cc, NEW nno,
           NEW f, f = [b \in O |-> IF AskedFor(q, c, b) THEN Asked ELSE Off],
           NEW g, g = [b \in O |-> Off]
    PROVE  Family(q, <<>>, O, c, no, cc, nno, f, g)
  <1>1. ASSUME NEW b \in O
        PROVE  Deal(q, <<>>, Cmd(c, b), Cmd(no, b), Cmd(cc, b), Cmd(nno, b), f[b], g[b])
    <2> DEFINE l == IF AskedFor(q, c, b) THEN "yes" ELSE "nothing"
    <2>1. Carries(q, Cmd(c, b), Cmd(no, b), l)
      BY OpenedCarries
    <2>2. Carries(<<>>, Cmd(cc, b), Cmd(nno, b), "nothing")
      <3>1. DOMAIN <<>> = {}
        OBVIOUS
      <3> QED
        BY <3>1 DEF Carries, Free
    <2>3. Agree(f[b], g[b], l, "nothing")
      <3>1. g[b] = Off /\ f[b] = IF AskedFor(q, c, b) THEN Asked ELSE Off
        OBVIOUS
      <3>2. Agree(Asked, Off, "yes", "nothing") /\ Agree(Off, Off, "nothing", "nothing")
        BY DEF Agree, Half, Tidy, Asked, Off
      <3> QED
        BY <3>1, <3>2
    <2>4. l \in Lines /\ "nothing" \in Lines
      BY DEF Lines
    <2> HIDE DEF l
    <2> QED
      BY <2>1, <2>2, <2>3, <2>4 DEF Deal
  <1> QED
    BY <1>1 DEF Family

LEMMA InitIInv ==
    ASSUME Init
    PROVE  IInv
  <1>1. PICK M : Opened(toServer, M) /\ (active => (AskedFor(toServer, "DO", "ECHO") <=> ~TelEcho \/ LocalEcho = 0))
    <2>1. CASE active
      <3> DEFINE echo == ~TelEcho \/ LocalEcho = 0
      <3>1. PICK bin \in BOOLEAN : toServer = Opening(bin, echo)
        BY <2>1 DEF Init
      <3>2. echo \in BOOLEAN
        OBVIOUS
      <3> HIDE DEF echo
      <3>3. \E M : Opened(toServer, M) /\ (AskedFor(toServer, "DO", "ECHO") <=> echo)
        BY <3>1, <3>2, OpeningOpened
      <3> QED
        BY <3>3 DEF echo
    <2>2. CASE ~active
      <3>1. toServer = <<>>
        BY <2>2 DEF Init
      <3> QED
        BY <2>2, <3>1, NothingOpened
    <2> QED
      BY <2>1, <2>2
  <1>2. /\ MyOpt  = [b \in MyOptions  |-> IF AskedFor(toServer, "WILL", b) THEN Asked ELSE Off]
        /\ HisOpt = [b \in HisOptions |-> IF AskedFor(toServer, "DO", b) THEN Asked ELSE Off]
        /\ toClient = <<>>
        /\ srv.his = [b \in HisOptions |-> Off] /\ srv.mine = [b \in MyOptions |-> Off] /\ srv.size = 0
        /\ active \in BOOLEAN /\ TelEcho \in BOOLEAN /\ LocalEcho \in 0..1
        /\ TelLineMode = TRUE /\ TelBinRecv = FALSE /\ TelBinSend = FALSE
    BY DEF Init
  <1>3. Off \in OptState /\ Asked \in OptState
    BY DEF Off, Asked, OptState
  <1>4. /\ MyOpt \in [MyOptions -> OptState] /\ HisOpt \in [HisOptions -> OptState]
        /\ [b \in HisOptions |-> Off] \in [HisOptions -> OptState] /\ [b \in MyOptions |-> Off] \in [MyOptions -> OptState]
    BY <1>2, <1>3
  <1>5. WinSize \in Sizes
    <2>1. WinSize = CHOOSE s \in Sizes : TRUE
      BY DEF Init
    <2> QED
      BY <2>1, TelnetAssumption
  <1>6. TypeOK
    <2>1. toServer \in Seq(ToServer) /\ <<>> \in Seq(ToClient)
      BY <1>1 DEF Opened
    <2>2. srv \in [his : [HisOptions -> OptState], mine : [MyOptions -> OptState], size : Sizes \cup {0}]
      BY <1>4 DEF Init
    <2> QED
      BY <1>2, <1>4, <1>5, <2>1, <2>2 DEF TypeOK
  <1>7. Deals
    <2>1. Family(toServer, <<>>, HisOptions, "DO", "DONT", "WILL", "WONT", HisOpt, srv.his)
      BY <1>1, <1>2, OpenedFamily
    <2>2. Family(toServer, <<>>, MyOptions, "WILL", "WONT", "DO", "DONT", MyOpt, srv.mine)
      BY <1>1, <1>2, OpenedFamily
    <2> QED
      BY <1>2, <2>1, <2>2 DEF Deals
  <1>8. \A b \in HisOptions : HisOpt[b].Status # "Yes" /\ (HisOpt[b].Status # "No" <=> AskedFor(toServer, "DO", b))
    BY <1>2 DEF Off, Asked
  <1>9. \A b \in MyOptions : MyOpt[b].Status # "Yes"
    BY <1>2 DEF Off, Asked
  <1>10. Sized
    BY <1>9, TelnetAssumption DEF Sized
  <1>11. active /\ TelEcho => (LocalEcho = 0 <=> Wish(HisOpt["ECHO"]))
    <2>1. Wish(Asked) /\ ~Wish(Off)
      BY DEF Wish, Asked, Off
    <2>2. Wish(HisOpt["ECHO"]) <=> AskedFor(toServer, "DO", "ECHO")
      BY <1>2, <2>1, TelnetAssumption
    <2> QED
      BY <1>1, <2>2
  <1>12. Modes
    BY <1>2, <1>8, <1>9, <1>11 DEF Modes, Follows
  <1> QED
    BY <1>6, <1>7, <1>10, <1>12 DEF IInv

-----------------------------------------------------------------------------
(* What the invariant says when nothing is on its way.                      *)

LEMMA QuietDeal ==
    ASSUME NEW y, NEW n, NEW yy, NEW nn, NEW o \in OptState, NEW s \in OptState,
           Deal(<<>>, <<>>, y, n, yy, nn, o, s)
    PROVE  o = s /\ o.Status \in {"No", "Yes"}
  <1>1. PICK u \in Lines, d \in Lines : Carries(<<>>, y, n, u) /\ Carries(<<>>, yy, nn, d) /\ Agree(o, s, u, d)
    BY DEF Deal
  <1>2. ASSUME NEW a, NEW b, NEW l \in Lines, Carries(<<>>, a, b, l) PROVE l = "nothing"
    <2>1. DOMAIN <<>> = {}
      OBVIOUS
    <2>2. \A S, m, k : ~Single(<<>>, S, m) /\ ~Couple(<<>>, S, m, k)
      BY <2>1 DEF Single, Couple
    <2> QED
      BY <1>2, <2>2 DEF Carries, Lines
  <1>3. u = "nothing" /\ d = "nothing"
    BY <1>1, <1>2
  <1>4. o.Status = s.Status /\ o.Status \in {"No", "Yes"}
    BY <1>1, <1>3 DEF Agree, Half
  <1>5. o.Que = "Empty" /\ s.Que = "Empty"
    BY <1>1, <1>4 DEF Agree, Tidy
  <1>6. o = s
    BY <1>4, <1>5 DEF OptState
  <1> QED
    BY <1>4, <1>6

LEMMA IInvImpliesEndsAgree ==
    IInv => EndsAgree
  <1> SUFFICES ASSUME IInv, Quiet PROVE EndsAgree
    BY DEF EndsAgree
  <1>1. toServer = <<>> /\ toClient = <<>>
    BY DEF Quiet
  <1>2. TypeOK /\ Modes /\ Sized
    BY DEF IInv
  <1>3. /\ MyOpt \in [MyOptions -> OptState] /\ HisOpt \in [HisOptions -> OptState]
        /\ srv.his \in [HisOptions -> OptState] /\ srv.mine \in [MyOptions -> OptState]
        /\ TelBinRecv \in BOOLEAN /\ TelBinSend \in BOOLEAN
    BY <1>2 DEF TypeOK
  <1>4. \A b \in HisOptions : HisOpt[b] = srv.his[b] /\ HisOpt[b].Status \in {"No", "Yes"}
    <2> TAKE b \in HisOptions
    <2>1. Deal(<<>>, <<>>, Cmd("DO", b), Cmd("DONT", b), Cmd("WILL", b), Cmd("WONT", b), HisOpt[b], srv.his[b])
      BY <1>1 DEF IInv, Deals, Family
    <2>2. HisOpt[b] \in OptState /\ srv.his[b] \in OptState
      BY <1>3
    <2> QED
      BY <2>1, <2>2, QuietDeal
  <1>5. \A b \in MyOptions : MyOpt[b] = srv.mine[b] /\ MyOpt[b].Status \in {"No", "Yes"}
    <2> TAKE b \in MyOptions
    <2>1. Deal(<<>>, <<>>, Cmd("WILL", b), Cmd("WONT", b), Cmd("DO", b), Cmd("DONT", b), MyOpt[b], srv.mine[b])
      BY <1>1 DEF IInv, Deals, Family
    <2>2. MyOpt[b] \in OptState /\ srv.mine[b] \in OptState
      BY <1>3
    <2> QED
      BY <2>1, <2>2, QuietDeal
  <1>6. BinaryAgreed
    <2>1. ASSUME NEW flag \in BOOLEAN, NEW o, Follows(flag, o), o.Status \in {"No", "Yes"} PROVE flag = (o.Status = "Yes")
      BY <2>1 DEF Follows
    <2>2. "BINARY" \in HisOptions => TelBinRecv = (srv.his["BINARY"].Status = "Yes")
      BY <1>2, <1>3, <1>4, <2>1 DEF Modes
    <2>3. "BINARY" \in MyOptions => TelBinSend = (srv.mine["BINARY"].Status = "Yes")
      BY <1>2, <1>3, <1>5, <2>1 DEF Modes
    <2> QED
      BY <2>2, <2>3 DEF BinaryAgreed
  <1>7. SizeKnown
    <2>1. DOMAIN toServer = {}
      BY <1>1
    <2> QED
      BY <1>2, <2>1 DEF Sized, Told, SizeKnown
  <1>8. EchoedOnce
    <2>1. Wish(HisOpt["ECHO"]) <=> srv.his["ECHO"].Status = "Yes"
      BY <1>4, TelnetAssumption DEF Wish
    <2>2. active /\ TelEcho => (LocalEcho = 0 <=> srv.his["ECHO"].Status = "Yes")
      BY <1>2, <2>1 DEF Modes
    <2>3. TelLineMode => \A b \in HisOptions \cap {"ECHO", "SGA"} : srv.his[b].Status = "No"
      BY <1>2, <1>4 DEF Modes
    <2> QED
      BY <2>2, <2>3 DEF EchoedOnce
  <1> QED
    BY <1>4, <1>5, <1>6, <1>7, <1>8 DEF EndsAgree

-----------------------------------------------------------------------------
(* The theorems.                                                            *)

\* Whatever crosses, at most two commands of an option are on their way in each
\* direction and they fit what the two ends have of it; the last size sent is
\* tr.WinSize whenever NAWS is on; and the echo, the binary and the line modes
\* follow the options (ParseTel, TelChangeEcho, TelInformWinSize).
THEOREM InvariantHolds ==
    Spec => []IInv
  BY InitIInv, StepKeepsIInv, PTL DEF Spec

\* Once nothing is on its way the two ends agree on every option and on the
\* modes and the size that hang on it (ParseTelWill, ParseTelWont, ParseTelDo,
\* ParseTelDont against TelEnable and TelDisable).
THEOREM AgreementHolds ==
    Spec => []EndsAgree
  BY InvariantHolds, IInvImpliesEndsAgree, PTL

=============================================================================
