----------------------------- MODULE IkeProofs ------------------------------
(***************************************************************************)
(* What holds between the two hosts of an IKE connection at every moment,   *)
(* and that every step of Ike keeps it.                                     *)
(*                                                                          *)
(* The steps are put into a few kinds: a Runner forgets (Fades), gets an    *)
(* IKE SA (Begins), draws an SPI for a rekey (Draws), asks for a child      *)
(* (Asks), installs one for a request (Responds) and answers (Replies), or  *)
(* installs the one it asked for (Concludes).  For each kind there are two  *)
(* lemmas about two Runners a and b and the datagrams qa to a and qb to b:  *)
(* one for the keys (Whole) and one for the agreement on the latest child   *)
(* (Sides).  A third layer (Names) says which IKE SAs a datagram may belong *)
(* to, so that a new one has none, and Sane is about one Runner by itself.  *)
(* The handlers are then shown to be of these kinds, one by one.            *)
(***************************************************************************)
EXTENDS Ike, TLAPS

-----------------------------------------------------------------------------
(* Hosts *)

\* The other host of the connection.
LEMMA PeerFacts ==
  ASSUME NEW n \in Host
  PROVE  /\ Peer(n) \in Host /\ Peer(n) # n /\ Peer(Peer(n)) = n
         /\ \A h \in Host : h = n \/ h = Peer(n)
<1>1. PICK x, y \in Host : x # y /\ Host = {x, y}
  BY IkeAssumption, Zenon
<1>2. \A h \in Host : Peer(h) \in Host /\ Peer(h) # h
  <2> TAKE h \in Host
  <2>1. \E q \in Host : q # h
    BY <1>1, Zenon
  <2> QED BY <2>1, Zenon DEF Peer
<1> QED BY <1>1, <1>2, Zenon

-----------------------------------------------------------------------------
(* Datagrams under way *)

Exchange == {"SA_INIT", "AUTH", "CREATE_CHILD", "INFORMATIONAL"}
Message == [exchange : Exchange, response : BOOLEAN, sa : Token \X (Token \cup {None}),
            token : Token \cup {None}]

\* A message that belongs to exchange x under the IKE SA S: its request or
\* its answer.
Kind(m) == IF m.response THEN "ans" ELSE "req"
Of(m, x, w, S) == m.exchange = x /\ Kind(m) = w /\ m.sa = S

\* What is in a queue; that there is none, or one, of a kind; and that those
\* of one kind come before those of another.
Wire(q) == {q[i] : i \in DOMAIN q}
Absent(q, x, w, S) == \A m \in Wire(q) : ~Of(m, x, w, S)
Lone(q, x, w, S) ==
    \A i, j \in DOMAIN q : Of(q[i], x, w, S) /\ Of(q[j], x, w, S) => i = j
Ahead(q, x, w, y, v, S) ==
    \A i, j \in DOMAIN q : Of(q[i], x, w, S) /\ Of(q[j], y, v, S) => i < j

\* q2 is q without some of its datagrams.
Shrinks(q, q2) ==
    /\ q2 \in Seq(Message) /\ Wire(q2) \subseteq Wire(q)
    /\ \A x, w, S : Lone(q, x, w, S) => Lone(q2, x, w, S)
    /\ \A x, w, y, v, S : Ahead(q, x, w, y, v, S) => Ahead(q2, x, w, y, v, S)

\* q2 is q without its first datagram h.
Takes(q, h, q2) ==
    /\ Shrinks(q, q2) /\ h \in Wire(q)
    /\ \A x, w, S : Of(h, x, w, S) /\ Lone(q, x, w, S) => Absent(q2, x, w, S)
    /\ \A x, w, y, v, S : Of(h, y, v, S) /\ Ahead(q, x, w, y, v, S) => Absent(q, x, w, S)

\* q2 is q with m at its end.
Grows(q, m, q2) ==
    /\ q2 \in Seq(Message) /\ Wire(q2) = Wire(q) \cup {m}
    /\ \A x, w, S : Lone(q, x, w, S) /\ ~Of(m, x, w, S) => Lone(q2, x, w, S)
    /\ \A x, w, S : Absent(q, x, w, S) => Lone(q2, x, w, S)
    /\ \A x, w, y, v, S : Ahead(q, x, w, y, v, S) /\ ~Of(m, x, w, S) => Ahead(q2, x, w, y, v, S)
    /\ \A x, w, y, v, S : Absent(q, y, v, S) /\ ~Of(m, y, v, S) => Ahead(q2, x, w, y, v, S)

\* A queue whose datagrams are those of another, in their order.
LEMMA EmbedShrinks ==
  ASSUME NEW q, NEW q2 \in Seq(Message), NEW f,
         \A i \in DOMAIN q2 : f[i] \in DOMAIN q /\ q2[i] = q[f[i]],
         \A i, j \in DOMAIN q2 : i < j => f[i] < f[j],
         \A i \in DOMAIN q2 : f[i] \in Nat
  PROVE  Shrinks(q, q2)
<1>1. Wire(q2) \subseteq Wire(q)
  <2>1. ASSUME NEW z \in Wire(q2) PROVE z \in Wire(q)
    <3>1. PICK i \in DOMAIN q2 : z = q2[i]
      BY Zenon DEF Wire
    <3> QED BY <3>1, Zenon DEF Wire
  <2> QED BY <2>1, Zenon
<1>2. DOMAIN q2 \subseteq Nat
  <2>1. DOMAIN q2 = 1 .. Len(q2)
    OBVIOUS
  <2> QED BY <2>1
<1>3. \A i, j \in DOMAIN q2 : f[i] = f[j] => i = j
  BY <1>2
<1>4. \A i, j \in DOMAIN q2 : f[i] < f[j] => i < j
  BY <1>2
<1>5. \A x, w, S : Lone(q, x, w, S) => Lone(q2, x, w, S)
  BY <1>3, Zenon DEF Lone
<1>6. \A x, w, y, v, S : Ahead(q, x, w, y, v, S) => Ahead(q2, x, w, y, v, S)
  BY <1>4, ZenonT(40) DEF Ahead
<1> QED BY <1>1, <1>5, <1>6, Zenon DEF Shrinks

\* Nothing is lost.
LEMMA AllShrinks ==
  ASSUME NEW q \in Seq(Message)
  PROVE  Shrinks(q, q)
BY Zenon DEF Shrinks

\* Everything is.
LEMMA NoneShrinks ==
  ASSUME NEW q
  PROVE  Shrinks(q, <<>>)
<1>1. <<>> \in Seq(Message) /\ DOMAIN <<>> = {}
  OBVIOUS
<1> QED BY <1>1, Zenon DEF Shrinks, Wire, Lone, Ahead

\* The network loses one.
LEMMA LoseShrinks ==
  ASSUME NEW q \in Seq(Message), NEW k \in DOMAIN q
  PROVE  Shrinks(q, Without(q, k))
<1> DEFINE q2 == SubSeq(q, 1, k - 1) \o SubSeq(q, k + 1, Len(q))
           f == [i \in DOMAIN q2 |-> IF i < k THEN i ELSE i + 1]
<1>1. k \in 1 .. Len(q) /\ Len(q) \in Nat
  OBVIOUS
<1>2. q2 \in Seq(Message) /\ DOMAIN q2 = 1 .. (Len(q) - 1)
  BY <1>1
<1>3. \A i \in DOMAIN q2 : f[i] \in DOMAIN q /\ q2[i] = q[f[i]] /\ f[i] \in Nat
  <2> TAKE i \in DOMAIN q2
  <2> HIDE DEF q2
  <2>1. f[i] = IF i < k THEN i ELSE i + 1
    BY Zenon
  <2>2. i \in 1 .. (Len(q) - 1)
    BY <1>2, Zenon
  <2>3. f[i] \in 1 .. Len(q)
    BY <1>1, <2>1, <2>2
  <2>4. q2[i] = IF i < k THEN q[i] ELSE q[i + 1]
    <3>1. PICK s, t : s = SubSeq(q, 1, k - 1) /\ t = SubSeq(q, k + 1, Len(q))
      BY Zenon
    <3>2. /\ s \in Seq(Message) /\ Len(s) = k - 1 /\ \A j \in 1 .. (k - 1) : s[j] = q[j]
      BY <1>1, <3>1
    <3>3. /\ t \in Seq(Message) /\ Len(t) = Len(q) - k
          /\ \A j \in 1 .. (Len(q) - k) : t[j] = q[k + j]
      BY <1>1, <3>1
    <3>4. q2 = s \o t
      BY <3>1, Zenon DEF q2
    <3>5. i < k => q2[i] = s[i] /\ i \in 1 .. (k - 1)
      BY <1>1, <2>2, <3>2, <3>3, <3>4
    <3>6. ~(i < k) => /\ q2[i] = t[i - (k - 1)] /\ i - (k - 1) \in 1 .. (Len(q) - k)
                      /\ k + (i - (k - 1)) = i + 1
      BY <1>1, <2>2, <3>2, <3>3, <3>4, SMTT(30)
    <3> QED BY <3>2, <3>3, <3>5, <3>6, Zenon
  <2>5. q2[i] = q[f[i]]
    BY <2>1, <2>4, Zenon
  <2>6. DOMAIN q = 1 .. Len(q)
    OBVIOUS
  <2> QED BY <2>3, <2>5, <2>6
<1>4. \A i, j \in DOMAIN q2 : i < j => f[i] < f[j]
  <2> HIDE DEF q2
  <2>1. \A i \in DOMAIN q2 : f[i] = IF i < k THEN i ELSE i + 1
    BY Zenon
  <2> HIDE DEF f
  <2> QED BY <1>1, <1>2, <2>1
<1> HIDE DEF f, q2
<1>5. Shrinks(q, q2)
  BY <1>2, <1>3, <1>4, EmbedShrinks, Zenon
<1> QED BY <1>5, Zenon DEF q2, Without

\* The first datagram is taken out.
LEMMA HeadTakes ==
  ASSUME NEW q \in Seq(Message), q # <<>>
  PROVE  Takes(q, Head(q), Tail(q)) /\ Head(q) \in Message
<1> DEFINE q2 == Tail(q)
           f == [i \in DOMAIN q2 |-> i + 1]
<1>1. /\ q2 \in Seq(Message) /\ DOMAIN q = 1 .. Len(q) /\ DOMAIN q2 = 1 .. (Len(q) - 1)
      /\ Len(q) \in Nat \ {0} /\ Head(q) = q[1] /\ 1 \in DOMAIN q /\ Head(q) \in Message
      /\ \A i \in 1 .. (Len(q) - 1) : q2[i] = q[i + 1]
  OBVIOUS
<1> HIDE DEF q2
<1>2. \A i \in DOMAIN q2 : f[i] = i + 1
  BY Zenon
<1> HIDE DEF f
<1>3. \A i \in DOMAIN q2 : f[i] \in DOMAIN q /\ q2[i] = q[f[i]] /\ f[i] \in Nat /\ f[i] # 1
  BY <1>1, <1>2
<1>4. \A i, j \in DOMAIN q2 : i < j => f[i] < f[j]
  BY <1>1, <1>2
<1>5. Shrinks(q, q2)
  BY <1>1, <1>3, <1>4, EmbedShrinks, Zenon
<1>6. \A x, w, S : Of(q[1], x, w, S) /\ Lone(q, x, w, S) => Absent(q2, x, w, S)
  <2> SUFFICES ASSUME NEW x, NEW w, NEW S, Of(q[1], x, w, S), Lone(q, x, w, S),
                      NEW i \in DOMAIN q2, Of(q2[i], x, w, S)
               PROVE  FALSE
    BY Zenon DEF Absent, Wire
  <2> QED BY <1>1, <1>3, Zenon DEF Lone
<1>7. \A i \in DOMAIN q : ~(i < 1)
  BY <1>1
<1>8. \A x, w, y, v, S : Of(q[1], y, v, S) /\ Ahead(q, x, w, y, v, S) => Absent(q, x, w, S)
  BY <1>1, <1>7, Zenon DEF Ahead, Absent, Wire
<1>9. q[1] \in Wire(q)
  BY <1>1, Zenon DEF Wire
<1> QED BY <1>1, <1>5, <1>6, <1>8, <1>9, Zenon DEF Takes, q2

\* One is sent.
LEMMA AppendGrows ==
  ASSUME NEW q \in Seq(Message), NEW m \in Message
  PROVE  Grows(q, m, q \o <<m>>)
<1> DEFINE q2 == q \o <<m>>
           last == Len(q) + 1
<1>1. /\ q2 \in Seq(Message) /\ DOMAIN q = 1 .. Len(q) /\ DOMAIN q2 = 1 .. (Len(q) + 1)
      /\ Len(q) \in Nat /\ q2[Len(q) + 1] = m
      /\ \A i \in 1 .. Len(q) : q2[i] = q[i]
  OBVIOUS
<1> HIDE DEF q2
<1>2. /\ \A i \in DOMAIN q2 : i = last \/ i \in DOMAIN q
      /\ \A i \in DOMAIN q : i \in DOMAIN q2 /\ i < last /\ q2[i] = q[i]
      /\ last \in DOMAIN q2 /\ q2[last] = m
  BY <1>1
<1> HIDE DEF last
<1>3. Wire(q2) = Wire(q) \cup {m}
  <2>1. \A z \in Wire(q2) : z \in Wire(q) \cup {m}
    BY <1>2, Zenon DEF Wire
  <2>2. \A z \in Wire(q) \cup {m} : z \in Wire(q2)
    BY <1>2, Zenon DEF Wire
  <2> QED BY <2>1, <2>2, Zenon
<1>4. \A x, w, S : Lone(q, x, w, S) /\ ~Of(m, x, w, S) => Lone(q2, x, w, S)
  BY <1>2, Zenon DEF Lone
<1>5. \A x, w, S : Absent(q, x, w, S) => Lone(q2, x, w, S)
  BY <1>2, Zenon DEF Lone, Absent, Wire
<1>6. \A x, w, y, v, S : Ahead(q, x, w, y, v, S) /\ ~Of(m, x, w, S) => Ahead(q2, x, w, y, v, S)
  <2> SUFFICES ASSUME NEW x, NEW w, NEW y, NEW v, NEW S, Ahead(q, x, w, y, v, S),
                      ~Of(m, x, w, S), NEW i \in DOMAIN q2, NEW j \in DOMAIN q2,
                      Of(q2[i], x, w, S), Of(q2[j], y, v, S)
               PROVE  i < j
    BY Zenon, SMTT(30) DEF Ahead
  <2>1. i \in DOMAIN q /\ q2[i] = q[i]
    BY <1>2, Zenon
  <2>2. CASE j \in DOMAIN q
    BY <1>2, <2>1, <2>2, Zenon DEF Ahead
  <2>3. CASE j = last
    BY <1>2, <2>1, <2>3, Zenon
  <2> QED BY <1>2, <2>2, <2>3, Zenon
<1>7. \A x, w, y, v, S : Absent(q, y, v, S) /\ ~Of(m, y, v, S) => Ahead(q2, x, w, y, v, S)
  BY <1>2, Zenon DEF Ahead, Absent, Wire
<1> QED BY <1>1, <1>3, <1>4, <1>5, <1>6, <1>7, Zenon DEF Grows, q2

-----------------------------------------------------------------------------
(* Random values *)

\* t is in use nowhere in a pair of Runners and the datagrams between them.
SpareIn(t, r) ==
    /\ t # r.pending_rekey
    /\ r.ike # None =>
          /\ t # r.ike.local_child_spi
          /\ r.ike.child # None => t # r.ike.child.local_spi /\ t # r.ike.child.remote_spi
Spare(t, a, b, qa, qb) ==
    /\ t \in Token /\ t # None
    /\ SpareIn(t, a) /\ SpareIn(t, b)
    /\ \A m \in Wire(qa) \cup Wire(qb) : t # m.token

-----------------------------------------------------------------------------
(* Keys: what holds between two Runners a and b, with qa the datagrams on    *)
(* their way to a and qb those to b.                                         *)

\* The exchanges that install a child, the SPI that r asks for in each, and
\* what the keys of the child are derived from.
Ex == {"AUTH", "CREATE_CHILD"}
Spi(r, x) == IF x = "AUTH" THEN r.ike.local_child_spi ELSE r.pending_rekey
Seed(S, x, t, u) ==
    [sa |-> S, nonce_i |-> IF x = "AUTH" THEN None ELSE t,
               nonce_r |-> IF x = "AUTH" THEN None ELSE u]
HasChild(r) == r.ike # None /\ r.ike.child # None

\* At most one request of a, or its answer, is under way; the request asks
\* for the SPI that a expects.
OpenX(x, S, t, qa, qb) ==
    /\ Lone(qb, x, "req", S) /\ Lone(qa, x, "ans", S)
    /\ Absent(qb, x, "req", S) \/ Absent(qa, x, "ans", S)
    /\ \A m \in Wire(qb) : Of(m, x, "req", S) => m.token = t
    /\ t = None => Absent(qb, x, "req", S) /\ Absent(qa, x, "ans", S)
Open(a, qa, qb) ==
    a.ike # None => \A x \in Ex : OpenX(x, a.ike.sa, Spi(a, x), qa, qb)

\* The SPIs of different children and requests differ.
ApartReq(a, m) ==
    /\ HasChild(a) => a.ike.child.local_spi # m.token
    /\ a.ike # None => \A x \in Ex : Spi(a, x) = m.token => m.sa = a.ike.sa
ApartAns(a, m) == a.ike # None => \A x \in Ex : m.token # Spi(a, x)
Apart(a, qa, qb) ==
    /\ \A m \in Wire(qb) : m.exchange \in Ex /\ Kind(m) = "req" => ApartReq(a, m)
    /\ \A m \in Wire(qa) \cup Wire(qb) : m.exchange \in Ex /\ Kind(m) = "ans" => ApartAns(a, m)
    /\ a.ike # None /\ a.pending_rekey # None =>
          /\ a.ike.local_child_spi # a.pending_rekey
          /\ HasChild(a) => a.ike.child.local_spi # a.pending_rekey

\* A child of b that shares an SPI with the answer that a waits for is the
\* other end of the child a will install.
Ends(a, b, x, m) ==
    /\ b.ike.sa = a.ike.sa
    /\ b.ike.child.local_spi = m.token /\ b.ike.child.remote_spi = Spi(a, x)
    /\ b.ike.child.seed = Seed(a.ike.sa, x, Spi(a, x), m.token)
Match(a, b, qa) ==
    a.ike # None /\ HasChild(b) =>
        \A x \in Ex : \A m \in Wire(qa) :
            Of(m, x, "ans", a.ike.sa)
              /\ (b.ike.child.local_spi = m.token \/ b.ike.child.remote_spi = Spi(a, x))
            => Ends(a, b, x, m)

\* The SPI that a sends to stands for the same keys at b.
Keyed(a, b) ==
    HasChild(a) /\ HasChild(b) /\ a.ike.child.remote_spi = b.ike.child.local_spi
        => a.ike.child.seed = b.ike.child.seed

Half(a, b, qa, qb) ==
    Open(a, qa, qb) /\ Apart(a, qa, qb) /\ Match(a, b, qa) /\ Keyed(a, b)
Whole(a, b, qa, qb) == Half(a, b, qa, qb) /\ Half(b, a, qb, qa)

\* The datagrams of AUTH and CREATE_CHILD_SA in q2 are some of those in q.
Calm(q, q2) ==
    /\ \A m \in Wire(q2) : m.exchange \in Ex => m \in Wire(q)
    /\ \A x \in Ex : \A w, S : Lone(q, x, w, S) => Lone(q2, x, w, S)
    /\ \A x, y \in Ex : \A w, v, S : Ahead(q, x, w, y, v, S) => Ahead(q2, x, w, y, v, S)

\* Nothing happens to a queue.
LEMMA CalmSelf ==
  ASSUME NEW q
  PROVE  Calm(q, q)
BY Zenon DEF Calm

\* Datagrams are taken out or lost.
LEMMA ShrinksCalm ==
  ASSUME NEW q, NEW q2, Shrinks(q, q2)
  PROVE  Calm(q, q2)
BY Zenon DEF Shrinks, Calm

\* A datagram of another exchange is sent.
LEMMA GrowsCalm ==
  ASSUME NEW q, NEW m, NEW q2, Grows(q, m, q2), m.exchange \notin Ex
  PROVE  Calm(q, q2)
BY Zenon DEF Grows, Calm, Of

\* What is not there does not appear.
LEMMA CalmAbsent ==
  ASSUME NEW q, NEW q2, Calm(q, q2), NEW x \in Ex, NEW w, NEW S, Absent(q, x, w, S)
  PROVE  Absent(q2, x, w, S)
BY Zenon DEF Calm, Absent, Of

\* A Runner forgets: its child, or all of its IKE SA.
Fades(a, a2) ==
    \/ a2.ike = None
    \/ /\ a.ike # None /\ a2.ike # None /\ a2.ike.role = a.ike.role /\ a2.ike.sa = a.ike.sa
       /\ a2.ike.local_child_spi = a.ike.local_child_spi
       /\ a2.pending_rekey = a.pending_rekey
       /\ HasChild(a2) => HasChild(a) /\ a2.ike.child = a.ike.child

\* The SPIs that a Runner asked for stay, as long as its IKE SA does.
LEMMA FadesSpi ==
  ASSUME NEW a, NEW a2, Fades(a, a2), a2.ike # None
  PROVE  /\ a.ike # None /\ a2.ike.sa = a.ike.sa
         /\ \A x \in Ex : Spi(a2, x) = Spi(a, x)
         /\ a2.pending_rekey = a.pending_rekey
         /\ a2.ike.local_child_spi = a.ike.local_child_spi
         /\ HasChild(a2) => HasChild(a) /\ a2.ike.child = a.ike.child
BY Zenon DEF Fades, Spi

\* One exchange with fewer datagrams.
LEMMA OpenCalm ==
  ASSUME NEW x \in Ex, NEW S, NEW t, NEW qa, NEW qb, NEW qa2, NEW qb2,
         OpenX(x, S, t, qa, qb), Calm(qa, qa2), Calm(qb, qb2)
  PROVE  OpenX(x, S, t, qa2, qb2)
<1>1. Lone(qb2, x, "req", S) /\ Lone(qa2, x, "ans", S)
  BY Zenon DEF OpenX, Calm
<1>2. /\ Absent(qb, x, "req", S) => Absent(qb2, x, "req", S)
      /\ Absent(qa, x, "ans", S) => Absent(qa2, x, "ans", S)
  BY CalmAbsent, Zenon
<1>3. \A m \in Wire(qb2) : Of(m, x, "req", S) => m.token = t
  BY Zenon DEF OpenX, Calm, Of
<1> QED BY <1>1, <1>2, <1>3, Zenon DEF OpenX

\* Forgetting, and sending what is not of these exchanges, keeps everything.
LEMMA FadeWhole ==
  ASSUME NEW a, NEW b, NEW qa, NEW qb, Whole(a, b, qa, qb),
         NEW a2, Fades(a, a2), NEW qa2, Calm(qa, qa2), NEW qb2, Calm(qb, qb2)
  PROVE  Whole(a2, b, qa2, qb2)
<1>1. a2.ike # None => /\ a.ike # None /\ a2.ike.sa = a.ike.sa
                       /\ \A x \in Ex : Spi(a2, x) = Spi(a, x)
                       /\ a2.pending_rekey = a.pending_rekey
                       /\ a2.ike.local_child_spi = a.ike.local_child_spi
  BY FadesSpi, Zenon
<1>2. HasChild(a2) => /\ HasChild(a) /\ a2.ike.child = a.ike.child /\ a2.ike.sa = a.ike.sa
                      /\ a2.ike # None
  BY FadesSpi, Zenon DEF HasChild
<1>3. Open(a2, qa2, qb2)
  <2> SUFFICES ASSUME a2.ike # None, NEW x \in Ex
               PROVE  OpenX(x, a2.ike.sa, Spi(a2, x), qa2, qb2)
    BY Zenon DEF Open
  <2>1. OpenX(x, a2.ike.sa, Spi(a2, x), qa, qb)
    BY <1>1, Zenon DEF Open, Whole, Half
  <2> QED BY <2>1, OpenCalm, Zenon
<1>4. Open(b, qb2, qa2)
  BY OpenCalm, Zenon DEF Open, Whole, Half
<1>5. Apart(a2, qa2, qb2)
  <2>1. ASSUME NEW m, ApartReq(a, m) PROVE ApartReq(a2, m)
    BY <1>1, <1>2, <2>1, Zenon DEF ApartReq
  <2>2. ASSUME NEW m, ApartAns(a, m) PROVE ApartAns(a2, m)
    BY <1>1, <2>2, Zenon DEF ApartAns
  <2>3. \A m \in Wire(qb2) : m.exchange \in Ex /\ Kind(m) = "req" => ApartReq(a2, m)
    BY <2>1, Zenon DEF Apart, Whole, Half, Calm
  <2>4. \A m \in Wire(qa2) \cup Wire(qb2) :
           m.exchange \in Ex /\ Kind(m) = "ans" => ApartAns(a2, m)
    BY <2>2, Zenon DEF Apart, Whole, Half, Calm
  <2> QED BY <1>1, <1>2, <2>3, <2>4, Zenon DEF Apart, Whole, Half
<1>6. Apart(b, qb2, qa2)
  BY Zenon DEF Apart, Whole, Half, Calm
<1>7. Match(a2, b, qa2)
  <2> SUFFICES ASSUME a2.ike # None, HasChild(b), NEW x \in Ex, NEW m \in Wire(qa2),
                      Of(m, x, "ans", a2.ike.sa),
                      b.ike.child.local_spi = m.token \/ b.ike.child.remote_spi = Spi(a2, x)
               PROVE  Ends(a2, b, x, m)
    BY Zenon DEF Match
  <2>1. m \in Wire(qa)
    BY Zenon DEF Calm, Of
  <2>2. Ends(a, b, x, m)
    BY <1>1, <2>1, Zenon DEF Whole, Half, Match
  <2> QED BY <1>1, <2>2, Zenon DEF Ends
<1>8. Match(b, a2, qb2)
  <2> SUFFICES ASSUME b.ike # None, HasChild(a2), NEW x \in Ex, NEW m \in Wire(qb2),
                      Of(m, x, "ans", b.ike.sa),
                      a2.ike.child.local_spi = m.token \/ a2.ike.child.remote_spi = Spi(b, x)
               PROVE  Ends(b, a2, x, m)
    BY Zenon DEF Match
  <2>1. m \in Wire(qb)
    BY Zenon DEF Calm, Of
  <2>2. Ends(b, a, x, m)
    BY <1>2, <2>1, Zenon DEF Whole, Half, Match
  <2> QED BY <1>2, <2>2, Zenon DEF Ends
<1>9. Keyed(a2, b) /\ Keyed(b, a2)
  BY <1>2, Zenon DEF Keyed, Whole, Half
<1> QED BY <1>3, <1>4, <1>5, <1>6, <1>7, <1>8, <1>9, Zenon DEF Whole, Half

\* A Runner gets an IKE SA that nothing under way belongs to, with an SPI that
\* is new or none.
Begins(a, a2, b, qa, qb) ==
    /\ a.ike = None /\ a2.ike # None /\ a2.ike.child = None /\ a2.pending_rekey = None
    /\ a2.ike.local_child_spi = None \/ Spare(a2.ike.local_child_spi, a, b, qa, qb)
    /\ \A m \in Wire(qa) \cup Wire(qb) : m.exchange \in Ex => m.sa # a2.ike.sa /\ m.token # None

\* The new IKE SA of handle_sa_init_request or handle_sa_init_response keeps
\* everything.
LEMMA BeginWhole ==
  ASSUME NEW a, NEW b, NEW qa, NEW qb, Whole(a, b, qa, qb),
         NEW a2, Begins(a, a2, b, qa, qb)
  PROVE  /\ Whole(a2, b, qa, qb)
         /\ \A x \in Ex : \A w : Absent(qa, x, w, a2.ike.sa) /\ Absent(qb, x, w, a2.ike.sa)
<1>1. \A x \in Ex : \A w : Absent(qa, x, w, a2.ike.sa) /\ Absent(qb, x, w, a2.ike.sa)
  BY Zenon DEF Begins, Absent, Of
<1>2. \A x \in Ex : \A m \in Wire(qa) \cup Wire(qb) : m.exchange \in Ex => m.token # Spi(a2, x)
  BY Zenon DEF Begins, Spi, Spare
<1>3. ~HasChild(a2) /\ a2.pending_rekey = None
  BY Zenon DEF Begins, HasChild
<1>4. Open(a2, qa, qb)
  <2>1. \A q, x, w, S : Absent(q, x, w, S) => Lone(q, x, w, S)
    BY Zenon DEF Absent, Lone, Wire
  <2> QED BY <1>1, <2>1, Zenon DEF Open, OpenX, Absent
<1>5. Apart(a2, qa, qb)
  BY <1>2, <1>3, Zenon DEF Apart, ApartReq, ApartAns
<1>6. Match(a2, b, qa)
  BY <1>1, Zenon DEF Match, Absent
<1> QED BY <1>1, <1>3, <1>4, <1>5, <1>6, Zenon DEF Whole, Half, Match, Keyed

\* A rekey draws an SPI.
Draws(a, a2, b, qa, qb) ==
    /\ a.ike # None /\ a2.ike = a.ike /\ a.pending_rekey = None
    /\ Spare(a2.pending_rekey, a, b, qa, qb)

\* The SPI that initiate_rekey draws keeps everything.
LEMMA DrawWhole ==
  ASSUME NEW a, NEW b, NEW qa, NEW qb, Whole(a, b, qa, qb), NEW a2, Draws(a, a2, b, qa, qb)
  PROVE  /\ Whole(a2, b, qa, qb)
         /\ Absent(qb, "CREATE_CHILD", "req", a2.ike.sa)
         /\ Absent(qa, "CREATE_CHILD", "ans", a2.ike.sa)
<1>1. PICK t : t = a2.pending_rekey
  BY Zenon
<1>2. /\ Spi(a, "CREATE_CHILD") = None /\ Spi(a2, "CREATE_CHILD") = t
      /\ Spi(a2, "AUTH") = Spi(a, "AUTH") /\ "CREATE_CHILD" \in Ex
      /\ a2.ike = a.ike /\ a.ike # None /\ Spare(t, a, b, qa, qb)
      /\ \A x \in Ex : x = "AUTH" \/ x = "CREATE_CHILD"
  BY <1>1, Zenon DEF Draws, Spi, Ex
<1>3. /\ Absent(qb, "CREATE_CHILD", "req", a2.ike.sa)
      /\ Absent(qa, "CREATE_CHILD", "ans", a2.ike.sa)
  BY <1>2, Zenon DEF Whole, Half, Open, OpenX
<1>4. Open(a2, qa, qb)
  <2>1. ASSUME NEW x \in Ex PROVE OpenX(x, a2.ike.sa, Spi(a2, x), qa, qb)
    <3>1. OpenX(x, a2.ike.sa, Spi(a, x), qa, qb)
      BY <1>2, Zenon DEF Whole, Half, Open
    <3>2. CASE x = "AUTH"
      BY <1>2, <3>1, <3>2, Zenon
    <3>3. CASE x = "CREATE_CHILD"
      BY <1>3, <3>1, <3>3, Zenon DEF OpenX, Absent
    <3> QED BY <1>2, <3>2, <3>3, Zenon
  <2> QED BY <2>1, Zenon DEF Open
<1>5. Apart(a2, qa, qb)
  <2>1. HasChild(a2) <=> HasChild(a)
    BY <1>2, Zenon DEF HasChild
  <2>2. \A m \in Wire(qb) : m.exchange \in Ex /\ Kind(m) = "req" => ApartReq(a2, m)
    <3>1. \A m \in Wire(qb) : m.exchange \in Ex /\ Kind(m) = "req" => ApartReq(a, m) /\ m.token # t
      BY <1>2, Zenon DEF Whole, Half, Apart, Spare
    <3> QED BY <1>2, <2>1, <3>1, Zenon DEF ApartReq
  <2>3. \A m \in Wire(qa) \cup Wire(qb) :
           m.exchange \in Ex /\ Kind(m) = "ans" => ApartAns(a2, m)
    <3>1. \A m \in Wire(qa) \cup Wire(qb) :
             m.exchange \in Ex /\ Kind(m) = "ans" => ApartAns(a, m) /\ m.token # t
      BY <1>2, Zenon DEF Whole, Half, Apart, Spare
    <3> QED BY <1>2, <3>1, Zenon DEF ApartAns
  <2> QED BY <1>1, <1>2, <2>1, <2>2, <2>3, Zenon DEF Apart, Spare, SpareIn, HasChild
<1>6. Match(a2, b, qa)
  <2> SUFFICES ASSUME HasChild(b), NEW x \in Ex, NEW m \in Wire(qa),
                      Of(m, x, "ans", a2.ike.sa),
                      b.ike.child.local_spi = m.token \/ b.ike.child.remote_spi = Spi(a2, x)
               PROVE  Ends(a2, b, x, m)
    BY Zenon DEF Match
  <2>1. x = "AUTH"
    BY <1>2, <1>3, Zenon DEF Absent
  <2>2. Ends(a, b, x, m)
    BY <1>2, <2>1, Zenon DEF Whole, Half, Match
  <2> QED BY <1>2, <2>1, <2>2, Zenon DEF Ends
<1>7. Match(b, a2, qb) /\ Keyed(a2, b) /\ Keyed(b, a2)
  BY <1>2, ZenonT(40) DEF Whole, Half, Match, Ends, Keyed, HasChild
<1> QED BY <1>3, <1>4, <1>5, <1>6, <1>7, Zenon DEF Whole, Half

\* The SPIs of the two exchanges differ.
LEMMA SpiApart ==
  ASSUME NEW a, NEW qa, NEW qb, Apart(a, qa, qb), a.ike # None,
         NEW x \in Ex, NEW y \in Ex, Spi(a, x) = Spi(a, y), Spi(a, x) # None
  PROVE  x = y
<1>1. x \in {"AUTH", "CREATE_CHILD"} /\ y \in {"AUTH", "CREATE_CHILD"}
  BY Zenon DEF Ex
<1> QED BY <1>1 DEF Apart, Spi

\* A request is no answer, and belongs to one exchange.
LEMMA KindsApart ==
  ASSUME NEW m, NEW x, NEW w, NEW S, Of(m, x, w, S)
  PROVE  \A y, v, T : Of(m, y, v, T) => y = x /\ v = w /\ T = S
BY Zenon DEF Of

\* Other datagrams than m stay as they are.
LEMMA GrowsAbsent ==
  ASSUME NEW q, NEW m, NEW q2, Grows(q, m, q2), NEW x, NEW w, NEW S, ~Of(m, x, w, S)
  PROVE  /\ Absent(q, x, w, S) => Absent(q2, x, w, S)
         /\ Lone(q, x, w, S) => Lone(q2, x, w, S)
BY Zenon DEF Grows, Absent

\* a asks for a child, with nothing of the exchange under way.
Asks(a, m, x, qa, qb) ==
    /\ a.ike # None /\ x \in Ex /\ Of(m, x, "req", a.ike.sa)
    /\ m.token = Spi(a, x) /\ m.token # None
    /\ Absent(qb, x, "req", a.ike.sa) /\ Absent(qa, x, "ans", a.ike.sa)
    /\ HasChild(a) => a.ike.child.local_spi # m.token

\* The request of send_auth, initiate_rekey or a retransmission keeps everything.
LEMMA AskWhole ==
  ASSUME NEW a, NEW b, NEW qa, NEW qb, Whole(a, b, qa, qb),
         NEW m, NEW x, Asks(a, m, x, qa, qb), NEW qb2, Grows(qb, m, qb2)
  PROVE  Whole(a, b, qa, qb2)
<1>1. /\ \A y, v, T : Of(m, y, v, T) => y = x /\ v = "req" /\ T = a.ike.sa
      /\ Wire(qb2) = Wire(qb) \cup {m}
      /\ x \in Ex /\ a.ike # None
  BY KindsApart, Zenon DEF Asks, Grows
<1>2. Open(a, qa, qb2)
  <2>1. ASSUME NEW y \in Ex, y # x PROVE OpenX(y, a.ike.sa, Spi(a, y), qa, qb2)
    <3>1. OpenX(y, a.ike.sa, Spi(a, y), qa, qb) /\ ~Of(m, y, "req", a.ike.sa)
      BY <1>1, <2>1, Zenon DEF Whole, Half, Open
    <3>2. /\ Absent(qb, y, "req", a.ike.sa) => Absent(qb2, y, "req", a.ike.sa)
          /\ Lone(qb, y, "req", a.ike.sa) => Lone(qb2, y, "req", a.ike.sa)
      BY <3>1, GrowsAbsent
    <3> QED BY <1>1, <3>1, <3>2, Zenon DEF OpenX
  <2>2. OpenX(x, a.ike.sa, Spi(a, x), qa, qb2)
    <3>1. OpenX(x, a.ike.sa, Spi(a, x), qa, qb)
      BY <1>1, Zenon DEF Whole, Half, Open
    <3>2. Lone(qb2, x, "req", a.ike.sa)
      BY Zenon DEF Asks, Grows
    <3> QED BY <1>1, <3>1, <3>2, Zenon DEF OpenX, Asks, Absent
  <2> QED BY <2>1, <2>2, Zenon DEF Open
<1>3. Open(b, qb2, qa)
  <2> SUFFICES ASSUME b.ike # None, NEW y \in Ex
               PROVE  OpenX(y, b.ike.sa, Spi(b, y), qb2, qa)
    BY Zenon DEF Open
  <2>1. OpenX(y, b.ike.sa, Spi(b, y), qb, qa) /\ ~Of(m, y, "ans", b.ike.sa)
    BY <1>1 DEF Whole, Half, Open
  <2>2. /\ Absent(qb, y, "ans", b.ike.sa) => Absent(qb2, y, "ans", b.ike.sa)
        /\ Lone(qb, y, "ans", b.ike.sa) => Lone(qb2, y, "ans", b.ike.sa)
    BY <2>1, GrowsAbsent
  <2> QED BY <2>1, <2>2, Zenon DEF OpenX
<1>4. Kind(m) = "req" /\ ApartReq(a, m)
  BY Zenon DEF Asks, Of, ApartReq
<1>5. Apart(a, qa, qb2)
  BY <1>1, <1>4, Zenon DEF Whole, Half, Apart
<1>6. Apart(b, qb2, qa)
  BY <1>1, <1>4, Zenon DEF Whole, Half, Apart
<1>7. Match(b, a, qb2)
  BY <1>1 DEF Whole, Half, Match
<1> QED BY <1>2, <1>3, <1>5, <1>6, <1>7, Zenon DEF Whole, Half

\* a installs a child with the SPIs s and t, where x is the exchange and h the
\* datagram that made it.
Installs(a, a2, s, t, seed) ==
    /\ a.ike # None /\ a2.ike # None /\ a2.ike.role = a.ike.role /\ a2.ike.sa = a.ike.sa
    /\ a2.ike.local_child_spi = a.ike.local_child_spi
    /\ HasChild(a2)
    /\ a2.ike.child.local_spi = s /\ a2.ike.child.remote_spi = t /\ a2.ike.child.seed = seed
Responds(a, a2, b, x, h, t, qa, qb) ==
    /\ x \in Ex /\ Of(h, x, "req", a.ike.sa) /\ h.token # None
    /\ Installs(a, a2, t, h.token, Seed(a.ike.sa, x, h.token, t))
    /\ a2.pending_rekey = a.pending_rekey
    /\ Spare(t, a, b, qa, qb)

\* The child of handle_auth_request or handle_create_child_request keeps
\* everything, and its request was the open one of b if the IKE SA still is.
LEMMA RespondWhole ==
  ASSUME NEW a, NEW b, NEW qa, NEW qb, Whole(a, b, qa, qb),
         NEW a2, NEW x, NEW h, NEW t, Responds(a, a2, b, x, h, t, qa, qb),
         NEW qa2, Takes(qa, h, qa2)
  PROVE  /\ Whole(a2, b, qa2, qb)
         /\ b.ike # None /\ b.ike.sa = a.ike.sa =>
               /\ Spi(b, x) = h.token
               /\ Absent(qa2, x, "req", b.ike.sa) /\ Absent(qb, x, "ans", b.ike.sa)
<1>1. /\ x \in Ex /\ a.ike # None /\ a2.ike # None /\ a2.ike.sa = a.ike.sa
      /\ HasChild(a2) /\ Spare(t, a, b, qa, qb) /\ h.token # None
      /\ a2.ike.child.local_spi = t /\ a2.ike.child.remote_spi = h.token
      /\ a2.pending_rekey = a.pending_rekey
      /\ a2.ike.local_child_spi = a.ike.local_child_spi
      /\ h \in Wire(qa) /\ h.exchange = x /\ Kind(h) = "req" /\ h.sa = a.ike.sa
  BY Zenon DEF Responds, Installs, Takes, Of
<1>2. \A y \in Ex : Spi(a2, y) = Spi(a, y)
  BY <1>1, Zenon DEF Spi
<1>3. Calm(qa, qa2)
  BY ShrinksCalm, Zenon DEF Takes
<1>4. ASSUME b.ike # None, h.sa = b.ike.sa
      PROVE  /\ Spi(b, x) = h.token
             /\ Absent(qa2, x, "req", b.ike.sa) /\ Absent(qb, x, "ans", b.ike.sa)
  <2>1. OpenX(x, b.ike.sa, Spi(b, x), qb, qa) /\ Of(h, x, "req", b.ike.sa)
    BY <1>1, <1>4, Zenon DEF Whole, Half, Open, Of
  <2>2. ~Absent(qa, x, "req", b.ike.sa)
    BY <1>1, <2>1, Zenon DEF Absent
  <2> QED BY <1>1, <2>1, <2>2, Zenon DEF OpenX, Takes
<1>5. Open(a2, qa2, qb)
  <2> SUFFICES ASSUME NEW y \in Ex PROVE OpenX(y, a2.ike.sa, Spi(a2, y), qa2, qb)
    BY Zenon DEF Open
  <2>1. OpenX(y, a2.ike.sa, Spi(a2, y), qa, qb)
    BY <1>1, <1>2, Zenon DEF Whole, Half, Open
  <2> QED BY <1>3, <2>1, CalmSelf, OpenCalm, Zenon
<1>6. Open(b, qb, qa2)
  BY <1>3, CalmSelf, OpenCalm, Zenon DEF Whole, Half, Open
<1>7. Apart(a2, qa2, qb)
  <2>1. ASSUME NEW m \in Wire(qb), ApartReq(a, m) PROVE ApartReq(a2, m)
    BY <1>1, <1>2, <2>1, Zenon DEF ApartReq, Spare
  <2>2. ASSUME NEW m, ApartAns(a, m) PROVE ApartAns(a2, m)
    BY <1>1, <1>2, <2>2, Zenon DEF ApartAns
  <2>3. \A m \in Wire(qb) : m.exchange \in Ex /\ Kind(m) = "req" => ApartReq(a2, m)
    BY <2>1, Zenon DEF Apart, Whole, Half
  <2>4. \A m \in Wire(qa2) \cup Wire(qb) :
           m.exchange \in Ex /\ Kind(m) = "ans" => ApartAns(a2, m)
    BY <1>3, <2>2, Zenon DEF Apart, Whole, Half, Calm
  <2>5. t # a.pending_rekey
    BY <1>1, Zenon DEF Spare, SpareIn
  <2> QED BY <1>1, <2>3, <2>4, <2>5, Zenon DEF Apart, Whole, Half
<1>8. Apart(b, qb, qa2)
  BY <1>3, Zenon DEF Apart, Whole, Half, Calm
<1>9. Match(a2, b, qa2)
  <2> SUFFICES ASSUME HasChild(b), NEW y \in Ex, NEW m \in Wire(qa2),
                      Of(m, y, "ans", a2.ike.sa),
                      b.ike.child.local_spi = m.token \/ b.ike.child.remote_spi = Spi(a2, y)
               PROVE  Ends(a2, b, y, m)
    BY Zenon DEF Match
  <2>1. m \in Wire(qa)
    BY <1>3, Zenon DEF Calm, Of
  <2>2. Ends(a, b, y, m)
    BY <1>1, <1>2, <2>1, Zenon DEF Whole, Half, Match
  <2> QED BY <1>1, <1>2, <2>2, Zenon DEF Ends
<1>10. ApartReq(b, h)
  BY <1>1, Zenon DEF Whole, Half, Apart
<1>11. Match(b, a2, qb)
  <2> SUFFICES ASSUME b.ike # None, NEW y \in Ex, NEW m \in Wire(qb),
                      Of(m, y, "ans", b.ike.sa),
                      a2.ike.child.local_spi = m.token \/ a2.ike.child.remote_spi = Spi(b, y)
               PROVE  FALSE
    BY Zenon DEF Match
  <2>1. t # m.token
    BY <1>1, Zenon DEF Spare
  <2>2. h.token = Spi(b, y)
    BY <1>1, <2>1, Zenon
  <2>3. h.sa = b.ike.sa
    BY <1>10, <2>2, Zenon DEF ApartReq
  <2>4. Spi(b, x) = h.token /\ Absent(qb, x, "ans", b.ike.sa)
    BY <1>4, <2>3, Zenon
  <2>5. x = y
    BY <1>1, <2>2, <2>4, SpiApart, Zenon DEF Whole, Half
  <2> QED BY <2>4, <2>5, Zenon DEF Absent
<1>12. Keyed(a2, b) /\ Keyed(b, a2)
  <2>1. HasChild(b) => b.ike.child.local_spi # h.token /\ b.ike.child.remote_spi # t
    BY <1>1, <1>10, Zenon DEF ApartReq, Spare, SpareIn, HasChild
  <2> QED BY <1>1, <2>1, Zenon DEF Keyed
<1> QED BY <1>1, <1>4, <1>5, <1>6, <1>7, <1>8, <1>9, <1>11, <1>12, Zenon DEF Whole, Half

\* a answers, with the SPI of the child it has just installed.
Replies(a, b, m, x, qa, qb) ==
    /\ x \in Ex /\ m.exchange = x /\ Kind(m) = "ans"
    /\ ApartAns(a, m) /\ ApartAns(b, m)
    /\ b.ike # None /\ b.ike.sa = m.sa =>
          /\ Absent(qa, x, "req", m.sa) /\ Absent(qb, x, "ans", m.sa)
          /\ Spi(b, x) # None
          /\ Ends(b, a, x, m)

\* The answer keeps everything.
LEMMA ReplyWhole ==
  ASSUME NEW a, NEW b, NEW qa, NEW qb, Whole(a, b, qa, qb),
         NEW m, NEW x, Replies(a, b, m, x, qa, qb), NEW qb2, Grows(qb, m, qb2)
  PROVE  Whole(a, b, qa, qb2)
<1>1. /\ \A y, v, T : Of(m, y, v, T) => y = x /\ v = "ans" /\ T = m.sa
      /\ Wire(qb2) = Wire(qb) \cup {m}
      /\ x \in Ex
  BY Zenon DEF Replies, Grows, Of
<1>2. Open(a, qa, qb2)
  <2> SUFFICES ASSUME a.ike # None, NEW y \in Ex
               PROVE  OpenX(y, a.ike.sa, Spi(a, y), qa, qb2)
    BY Zenon DEF Open
  <2>1. OpenX(y, a.ike.sa, Spi(a, y), qa, qb) /\ ~Of(m, y, "req", a.ike.sa)
    BY <1>1 DEF Whole, Half, Open
  <2>2. /\ Absent(qb, y, "req", a.ike.sa) => Absent(qb2, y, "req", a.ike.sa)
        /\ Lone(qb, y, "req", a.ike.sa) => Lone(qb2, y, "req", a.ike.sa)
    BY <2>1, GrowsAbsent
  <2> QED BY <1>1, <2>1, <2>2, Zenon DEF OpenX
<1>3. Open(b, qb2, qa)
  <2> SUFFICES ASSUME b.ike # None, NEW y \in Ex
               PROVE  OpenX(y, b.ike.sa, Spi(b, y), qb2, qa)
    BY Zenon DEF Open
  <2>1. OpenX(y, b.ike.sa, Spi(b, y), qb, qa)
    BY Zenon DEF Whole, Half, Open
  <2>2. CASE ~Of(m, y, "ans", b.ike.sa)
    <3>1. /\ Absent(qb, y, "ans", b.ike.sa) => Absent(qb2, y, "ans", b.ike.sa)
          /\ Lone(qb, y, "ans", b.ike.sa) => Lone(qb2, y, "ans", b.ike.sa)
      BY <2>2, GrowsAbsent
    <3> QED BY <2>1, <3>1, Zenon DEF OpenX
  <2>3. CASE Of(m, y, "ans", b.ike.sa)
    <3>1. y = x /\ b.ike.sa = m.sa
      BY <1>1, <2>3
    <3>2. /\ Absent(qa, x, "req", m.sa) /\ Absent(qb, x, "ans", m.sa)
          /\ Spi(b, x) # None
      BY <3>1, Zenon DEF Replies
    <3>3. Lone(qb2, x, "ans", m.sa)
      BY <3>2, Zenon DEF Grows
    <3> QED BY <2>1, <3>1, <3>2, <3>3, Zenon DEF OpenX
  <2> QED BY <2>2, <2>3, Zenon
<1>4. Kind(m) = "ans" /\ ApartAns(a, m) /\ ApartAns(b, m)
  BY Zenon DEF Replies
<1>5. Apart(a, qa, qb2)
  BY <1>1, <1>4, Zenon DEF Whole, Half, Apart
<1>6. Apart(b, qb2, qa)
  BY <1>1, <1>4, Zenon DEF Whole, Half, Apart
<1>7. Match(b, a, qb2)
  <2>1. \A y : Of(m, y, "ans", b.ike.sa) /\ b.ike # None => Ends(b, a, y, m)
    BY <1>1 DEF Replies
  <2> QED BY <1>1, <2>1, Zenon DEF Whole, Half, Match
<1> QED BY <1>2, <1>3, <1>5, <1>6, <1>7, Zenon DEF Whole, Half

\* a installs the child it asked for, on the answer h.
Concludes(a, a2, x, h) ==
    /\ x \in Ex /\ Of(h, x, "ans", a.ike.sa)
    /\ Installs(a, a2, Spi(a, x), h.token, Seed(a.ike.sa, x, Spi(a, x), h.token))
    /\ x = "AUTH" => a2.pending_rekey = a.pending_rekey
    /\ x = "CREATE_CHILD" => a2.pending_rekey = None

\* The child of handle_auth_response or handle_create_child_response keeps
\* everything.
LEMMA ConcludeWhole ==
  ASSUME NEW a, NEW b, NEW qa, NEW qb, Whole(a, b, qa, qb),
         NEW a2, NEW x, NEW h, Concludes(a, a2, x, h), NEW qa2, Takes(qa, h, qa2),
         \A m \in Wire(qa) \cup Wire(qb) : m.exchange \in Ex => m.token # None
  PROVE  Whole(a2, b, qa2, qb)
<1>1. /\ x \in Ex /\ a.ike # None /\ a2.ike # None /\ a2.ike.sa = a.ike.sa
      /\ HasChild(a2)
      /\ a2.ike.child.local_spi = Spi(a, x) /\ a2.ike.child.remote_spi = h.token
      /\ a2.ike.child.seed = Seed(a.ike.sa, x, Spi(a, x), h.token)
      /\ h \in Wire(qa) /\ h.exchange = x /\ Kind(h) = "ans" /\ h.sa = a.ike.sa
      /\ Of(h, x, "ans", a.ike.sa)
  BY Zenon DEF Concludes, Installs, Takes, Of
<1>2. \A y \in Ex : Spi(a2, y) = Spi(a, y) \/ (y = x /\ Spi(a2, y) = None)
  BY Zenon DEF Spi, Concludes, Installs, Ex
<1>3. Calm(qa, qa2)
  BY ShrinksCalm, Zenon DEF Takes
<1>4. Spi(a, x) # None /\ Absent(qb, x, "req", a.ike.sa) /\ Absent(qa2, x, "ans", a.ike.sa)
  <2>1. OpenX(x, a.ike.sa, Spi(a, x), qa, qb)
    BY <1>1, Zenon DEF Whole, Half, Open
  <2>2. ~Absent(qa, x, "ans", a.ike.sa)
    BY <1>1, Zenon DEF Absent
  <2> QED BY <1>1, <2>1, <2>2, Zenon DEF OpenX, Takes
<1>5. Open(a2, qa2, qb)
  <2> SUFFICES ASSUME NEW y \in Ex PROVE OpenX(y, a2.ike.sa, Spi(a2, y), qa2, qb)
    BY Zenon DEF Open
  <2>1. OpenX(y, a.ike.sa, Spi(a, y), qa, qb)
    BY <1>1, Zenon DEF Whole, Half, Open
  <2>2. OpenX(y, a.ike.sa, Spi(a, y), qa2, qb)
    BY <1>3, <2>1, CalmSelf, OpenCalm, Zenon
  <2>3. CASE Spi(a2, y) = Spi(a, y)
    BY <1>1, <2>2, <2>3, Zenon
  <2>4. CASE y = x /\ Spi(a2, y) = None
    BY <1>1, <1>4, <2>2, <2>4, Zenon DEF OpenX, Absent
  <2> QED BY <1>2, <2>3, <2>4, Zenon
<1>6. Open(b, qb, qa2)
  BY <1>3, CalmSelf, OpenCalm, Zenon DEF Whole, Half, Open
<1>7. Apart(a2, qa2, qb)
  <2>1. ASSUME NEW m \in Wire(qb), m.exchange \in Ex, Kind(m) = "req" PROVE ApartReq(a2, m)
    <3>1. ApartReq(a, m) /\ m.token # None
      BY <2>1, Zenon DEF Whole, Half, Apart
    <3>2. Spi(a, x) # m.token
      <4> SUFFICES ASSUME Spi(a, x) = m.token PROVE FALSE
        BY Zenon
      <4>1. Of(m, m.exchange, "req", a.ike.sa)
        BY <1>1, <2>1, <3>1, Zenon DEF ApartReq, Of
      <4>2. m.token = Spi(a, m.exchange)
        BY <1>1, <2>1, <4>1, Zenon DEF Whole, Half, Open, OpenX
      <4>3. m.exchange = x
        BY <1>1, <1>4, <2>1, <4>2, SpiApart, Zenon DEF Whole, Half
      <4> QED BY <1>4, <4>1, <4>3, Zenon DEF Absent
    <3> QED BY <1>1, <1>2, <3>1, <3>2, Zenon DEF ApartReq
  <2>2. ASSUME NEW m \in Wire(qa2) \cup Wire(qb), m.exchange \in Ex, Kind(m) = "ans"
        PROVE  ApartAns(a2, m)
    <3>1. ApartAns(a, m) /\ m.token # None
      BY <1>3, <2>2, Zenon DEF Whole, Half, Apart, Calm
    <3> QED BY <1>1, <1>2, <3>1, Zenon DEF ApartAns
  <2>3. a2.pending_rekey # None =>
           /\ a2.ike.local_child_spi # a2.pending_rekey
           /\ a2.ike.child.local_spi # a2.pending_rekey
    <3>1. a2.pending_rekey # None => x = "AUTH"
      BY Zenon DEF Concludes, Ex
    <3> QED BY <1>1, <3>1, Zenon DEF Whole, Half, Apart, Concludes, Installs, Spi
  <2> QED BY <2>1, <2>2, <2>3, Zenon DEF Apart
<1>8. Apart(b, qb, qa2)
  BY <1>3, Zenon DEF Apart, Whole, Half, Calm
<1>9. Match(a2, b, qa2)
  <2> SUFFICES ASSUME HasChild(b), NEW y \in Ex, NEW m \in Wire(qa2),
                      Of(m, y, "ans", a2.ike.sa),
                      b.ike.child.local_spi = m.token \/ b.ike.child.remote_spi = Spi(a2, y)
               PROVE  Ends(a2, b, y, m)
    BY Zenon DEF Match
  <2>1. m \in Wire(qa)
    BY <1>3, Zenon DEF Calm, Of
  <2>2. Spi(a2, y) = Spi(a, y)
    BY <1>1, <1>2, <1>4, Zenon DEF Absent
  <2>3. Ends(a, b, y, m)
    BY <1>1, <2>1, <2>2, Zenon DEF Whole, Half, Match
  <2> QED BY <1>1, <2>2, <2>3, Zenon DEF Ends
<1>10. ApartAns(b, h)
  BY <1>1, Zenon DEF Whole, Half, Apart
<1>11. Match(b, a2, qb)
  <2> SUFFICES ASSUME b.ike # None, NEW y \in Ex, NEW m \in Wire(qb),
                      Of(m, y, "ans", b.ike.sa),
                      a2.ike.child.local_spi = m.token \/ a2.ike.child.remote_spi = Spi(b, y)
               PROVE  FALSE
    BY Zenon DEF Match
  <2>1. ApartAns(a, m)
    BY Zenon DEF Whole, Half, Apart, Of
  <2> QED BY <1>1, <1>10, <2>1, Zenon DEF ApartAns
<1>12. Keyed(a2, b) /\ Keyed(b, a2)
  <2>1. ASSUME HasChild(b), b.ike.child.local_spi = h.token \/ b.ike.child.remote_spi = Spi(a, x)
        PROVE  b.ike.child.seed = a2.ike.child.seed
    <3>1. Ends(a, b, x, h)
      BY <1>1, <2>1, Zenon DEF Whole, Half, Match
    <3> QED BY <1>1, <3>1, Zenon DEF Ends
  <2> QED BY <1>1, <2>1, Zenon DEF Keyed
<1> QED BY <1>5, <1>6, <1>7, <1>8, <1>9, <1>11, <1>12, Zenon DEF Whole, Half

-----------------------------------------------------------------------------
(* Agreement: what else holds between two Runners, cr being whether the last *)
(* rekeys overlapped.                                                        *)

Same(a, b) == a.ike # None /\ b.ike # None /\ a.ike.sa = b.ike.sa

\* The first request of a goes before everything about a rekey, and if a has
\* a child before b has seen that request, it is one that b asked for.
Order(a, b, qa, qb) ==
    a.ike # None =>
        /\ Ahead(qb, "AUTH", "req", "CREATE_CHILD", "req", a.ike.sa)
        /\ Ahead(qb, "AUTH", "req", "CREATE_CHILD", "ans", a.ike.sa)
        /\ Absent(qa, "CREATE_CHILD", "ans", a.ike.sa) \/ Absent(qb, "AUTH", "req", a.ike.sa)
        /\ HasChild(a) /\ Same(a, b) /\ b.pending_rekey = None => Absent(qb, "AUTH", "req", a.ike.sa)
        /\ a.phase = "AuthSent" => Absent(qb, "CREATE_CHILD", "ans", a.ike.sa)

\* The answer that a waits for is about the child that b has, if it has one.
Latest(a, b, qa, cr) ==
    Same(a, b) /\ HasChild(b) =>
        /\ ~cr => \A m \in Wire(qa) :
              Of(m, "CREATE_CHILD", "ans", a.ike.sa) => b.ike.child.local_spi = m.token
        /\ a.phase = "AuthSent" /\ b.pending_rekey = None => \A m \in Wire(qa) :
              Of(m, "AUTH", "ans", a.ike.sa) => b.ike.child.local_spi = m.token

\* With no rekey pending the two children are the ends of one pair.
Agree(a, b, cr) ==
    ~cr =>
        /\ a.pending_rekey = None \/ b.pending_rekey = None
        /\ (/\ Same(a, b) /\ HasChild(a) /\ HasChild(b)
            /\ a.pending_rekey = None /\ b.pending_rekey = None)
              => Mirrored(a.ike.child, b.ike.child)

Side(a, b, qa, qb, cr) == Order(a, b, qa, qb) /\ Latest(a, b, qa, cr) /\ Agree(a, b, cr)
Sides(a, b, qa, qb, cr) == Side(a, b, qa, qb, cr) /\ Side(b, a, qb, qa, cr)

\* Agreement is the same seen from either end.
LEMMA AgreeSwap ==
  ASSUME NEW a, NEW b, NEW cr, Agree(a, b, cr)
  PROVE  Agree(b, a, cr)
BY Zenon DEF Agree, Same, Mirrored

\* The two exchanges.
LEMMA ExIs ==
  "AUTH" \in Ex /\ "CREATE_CHILD" \in Ex /\ \A x \in Ex : x = "AUTH" \/ x = "CREATE_CHILD"
BY Zenon DEF Ex

\* Fewer datagrams keep the order.
LEMMA OrderCalm ==
  ASSUME NEW a, NEW b, NEW qa, NEW qb, Order(a, b, qa, qb),
         NEW qa2, Calm(qa, qa2), NEW qb2, Calm(qb, qb2)
  PROVE  Order(a, b, qa2, qb2)
<1>1. \A x \in Ex : \A w, S : /\ Absent(qa, x, w, S) => Absent(qa2, x, w, S)
                              /\ Absent(qb, x, w, S) => Absent(qb2, x, w, S)
  BY CalmAbsent, Zenon
<1>2. \A x, y \in Ex : \A w, v, S : Ahead(qb, x, w, y, v, S) => Ahead(qb2, x, w, y, v, S)
  BY Zenon DEF Calm
<1> QED BY <1>1, <1>2, ExIs, Zenon DEF Order

\* Fewer datagrams keep what the answers are about.
LEMMA LatestCalm ==
  ASSUME NEW a, NEW b, NEW qa, NEW cr, Latest(a, b, qa, cr), NEW qa2, Calm(qa, qa2)
  PROVE  Latest(a, b, qa2, cr)
<1>1. \A m \in Wire(qa2) : \A w, S : Of(m, "AUTH", w, S) \/ Of(m, "CREATE_CHILD", w, S) => m \in Wire(qa)
  BY ExIs, Zenon DEF Calm, Of
<1> QED BY <1>1, Zenon DEF Latest

\* Forgetting.
LEMMA FadeSides ==
  ASSUME NEW a, NEW b, NEW qa, NEW qb, NEW cr, Sides(a, b, qa, qb, cr),
         NEW a2, Fades(a, a2), a2.ike = None => a2.pending_rekey = None,
         a2.ike # None /\ a2.phase = "AuthSent" => a.phase = "AuthSent",
         NEW qa2, Calm(qa, qa2), NEW qb2, Calm(qb, qb2)
  PROVE  Sides(a2, b, qa2, qb2, cr)
<1>1. /\ Order(a, b, qa2, qb2) /\ Order(b, a, qb2, qa2)
      /\ Latest(a, b, qa2, cr) /\ Latest(b, a, qb2, cr)
  BY OrderCalm, LatestCalm, Zenon DEF Sides, Side
<1>2. a2.ike # None => /\ a.ike # None /\ a2.ike.sa = a.ike.sa
                       /\ a2.pending_rekey = a.pending_rekey
                       /\ a2.phase = "AuthSent" => a.phase = "AuthSent"
  BY FadesSpi, Zenon
<1>3. HasChild(a2) => HasChild(a) /\ a2.ike.child = a.ike.child /\ a2.ike # None
  BY FadesSpi, Zenon DEF HasChild
<1>4. Same(a2, b) => Same(a, b) /\ a2.ike.sa = a.ike.sa /\ a2.pending_rekey = a.pending_rekey
  BY <1>2, Zenon DEF Same
<1>5. Same(b, a2) => Same(b, a) /\ a2.ike.sa = a.ike.sa /\ a2.pending_rekey = a.pending_rekey
  BY <1>2, Zenon DEF Same
<1>6. Order(a2, b, qa2, qb2)
  BY <1>1, <1>2, <1>3, <1>4, Zenon DEF Order
<1>7. Order(b, a2, qb2, qa2)
  BY <1>1, <1>5, Zenon DEF Order
<1>8. Latest(a2, b, qa2, cr)
  BY <1>1, <1>2, <1>4, Zenon DEF Latest, Same
<1>9. Latest(b, a2, qb2, cr)
  BY <1>1, <1>3, <1>5, Zenon DEF Latest
<1>10. Agree(a2, b, cr)
  BY <1>2, <1>3, <1>4, Zenon DEF Agree, Sides, Side
<1> QED BY <1>6, <1>7, <1>8, <1>9, <1>10, AgreeSwap, Zenon DEF Sides, Side

\* A new IKE SA.
LEMMA BeginSides ==
  ASSUME NEW a, NEW b, NEW qa, NEW qb, NEW cr, Sides(a, b, qa, qb, cr),
         NEW a2, a2.ike # None, ~HasChild(a2), a2.pending_rekey = None,
         \A x \in Ex : \A w : Absent(qa, x, w, a2.ike.sa) /\ Absent(qb, x, w, a2.ike.sa)
  PROVE  Sides(a2, b, qa, qb, cr)
<1>1. Order(a2, b, qa, qb)
  <2>1. \A q, x, w, y, v, S : Absent(q, x, w, S) => Ahead(q, x, w, y, v, S)
    BY Zenon, SMTT(30) DEF Absent, Ahead, Wire
  <2> QED BY <2>1, ExIs, Zenon DEF Order
<1>2. Order(b, a2, qb, qa)
  <2>1. Same(b, a2) => Absent(qa, "AUTH", "req", b.ike.sa)
    BY ExIs, Zenon DEF Same
  <2> QED BY <2>1, Zenon DEF Order, Sides, Side
<1>3. Latest(a2, b, qa, cr)
  BY ExIs, Zenon DEF Latest, Absent
<1> QED BY <1>1, <1>2, <1>3, Zenon DEF Sides, Side, Latest, Agree

\* A rekey begins.
LEMMA DrawSides ==
  ASSUME NEW a, NEW b, NEW qa, NEW qb, NEW cr, Sides(a, b, qa, qb, cr), Whole(a, b, qa, qb),
         NEW a2, Draws(a, a2, b, qa, qb), a2.phase = a.phase,
         NEW cr2, cr2 = (b.pending_rekey # None)
  PROVE  Sides(a2, b, qa, qb, cr2)
<1>1. /\ a2.ike = a.ike /\ a2.pending_rekey # None /\ (HasChild(a2) <=> HasChild(a))
      /\ Absent(qa, "CREATE_CHILD", "ans", a2.ike.sa)
  BY DrawWhole, Zenon DEF Draws, Spare, HasChild
<1>2. b.ike # None /\ ~cr2 => Absent(qb, "CREATE_CHILD", "ans", b.ike.sa)
  BY ExIs, Zenon DEF Whole, Half, Open, OpenX, Spi
<1>3. (Same(a2, b) <=> Same(a, b)) /\ (Same(b, a2) <=> Same(b, a))
  BY <1>1, Zenon DEF Same
<1>4. Order(a2, b, qa, qb)
  BY <1>1, <1>3, Zenon DEF Order, Sides, Side
<1>5. Order(b, a2, qb, qa)
  BY <1>1, <1>3, Zenon DEF Order, Sides, Side
<1>6. Latest(a2, b, qa, cr2)
  BY <1>1, <1>3, Zenon DEF Latest, Sides, Side, Absent
<1>7. Latest(b, a2, qb, cr2)
  BY <1>1, <1>2, Zenon DEF Latest, Absent, Same
<1>8. Agree(a2, b, cr2) /\ Agree(b, a2, cr2)
  BY <1>1, Zenon DEF Agree
<1> QED BY <1>4, <1>5, <1>6, <1>7, <1>8, Zenon DEF Sides, Side

\* A request, where nothing about a rekey is under way with the first one.
LEMMA AskSides ==
  ASSUME NEW a, NEW b, NEW qa, NEW qb, NEW cr, Sides(a, b, qa, qb, cr),
         NEW m, NEW x, Asks(a, m, x, qa, qb), NEW qb2, Grows(qb, m, qb2),
         x = "AUTH" => /\ ~HasChild(a)
                       /\ Absent(qb, "CREATE_CHILD", "req", a.ike.sa)
                       /\ Absent(qb, "CREATE_CHILD", "ans", a.ike.sa)
                       /\ Absent(qa, "CREATE_CHILD", "ans", a.ike.sa)
  PROVE  Sides(a, b, qa, qb2, cr)
<1>1. /\ \A y, v, S : Of(m, y, v, S) => y = x /\ v = "req" /\ S = a.ike.sa
      /\ Wire(qb2) = Wire(qb) \cup {m}
      /\ x \in Ex /\ a.ike # None
  BY KindsApart, Zenon DEF Asks, Grows
<1>2. \A y, S : Absent(qb, y, "ans", S) => Absent(qb2, y, "ans", S)
  BY <1>1 DEF Absent
<1>3. Order(a, b, qa, qb2)
  <2>1. CASE x = "CREATE_CHILD"
    <3>1. ~Of(m, "AUTH", "req", a.ike.sa)
      BY <1>1, <2>1
    <3>2. Absent(qb, "AUTH", "req", a.ike.sa) => Absent(qb2, "AUTH", "req", a.ike.sa)
      BY <3>1, GrowsAbsent, Zenon
    <3>3. \A y, v : Ahead(qb, "AUTH", "req", y, v, a.ike.sa) => Ahead(qb2, "AUTH", "req", y, v, a.ike.sa)
      BY <3>1, Zenon DEF Grows
    <3> QED BY <1>2, <3>2, <3>3, Zenon DEF Order, Sides, Side
  <2>2. CASE x = "AUTH"
    <3>1. ~Of(m, "CREATE_CHILD", "req", a.ike.sa) /\ ~Of(m, "CREATE_CHILD", "ans", a.ike.sa)
      BY <1>1, <2>2
    <3>2. /\ Ahead(qb2, "AUTH", "req", "CREATE_CHILD", "req", a.ike.sa)
          /\ Ahead(qb2, "AUTH", "req", "CREATE_CHILD", "ans", a.ike.sa)
      BY <2>2, <3>1, Zenon DEF Grows
    <3> QED BY <1>2, <2>2, <3>2, Zenon DEF Order
  <2> QED BY <1>1, <2>1, <2>2, ExIs, Zenon
<1>4. Order(b, a, qb2, qa)
  BY <1>2, Zenon DEF Order, Sides, Side
<1>5. Latest(b, a, qb2, cr)
  <2>1. \A z \in Wire(qb2) : \A y, S : Of(z, y, "ans", S) => z \in Wire(qb)
    BY <1>1
  <2> QED BY <2>1, Zenon DEF Latest, Sides, Side
<1> QED BY <1>3, <1>4, <1>5, Zenon DEF Sides, Side

\* A child is installed for a request of b.
LEMMA RespondSides ==
  ASSUME NEW a, NEW b, NEW qa, NEW qb, NEW cr, Sides(a, b, qa, qb, cr), Whole(a, b, qa, qb),
         NEW a2, NEW x, NEW h, NEW t, Responds(a, a2, b, x, h, t, qa, qb),
         NEW qa2, Takes(qa, h, qa2), a2.phase # "AuthSent",
         b.phase = "AuthSent" => b.pending_rekey = None,
         x = "AUTH" => Absent(qb, "AUTH", "req", a.ike.sa)
  PROVE  /\ Sides(a2, b, qa2, qb, cr)
         /\ b.ike # None /\ b.ike.sa = a.ike.sa /\ x = "CREATE_CHILD" =>
               Absent(qa2, "AUTH", "req", b.ike.sa)
<1>1. /\ x \in Ex /\ a.ike # None /\ a2.ike # None /\ a2.ike.sa = a.ike.sa
      /\ HasChild(a2) /\ h.token # None
      /\ a2.pending_rekey = a.pending_rekey
      /\ h \in Wire(qa) /\ Of(h, x, "req", a.ike.sa)
  BY Zenon DEF Responds, Installs, Takes
<1>2. Calm(qa, qa2) /\ Calm(qb, qb)
  BY ShrinksCalm, CalmSelf, Zenon DEF Takes
<1>3. /\ Order(a, b, qa2, qb) /\ Order(b, a, qb, qa2)
      /\ Latest(a, b, qa2, cr)
  BY <1>2, OrderCalm, LatestCalm, Zenon DEF Sides, Side
<1>4. (Same(a2, b) <=> Same(a, b)) /\ (Same(b, a2) <=> Same(b, a)) /\ (Same(a, b) <=> Same(b, a))
  BY <1>1, Zenon DEF Same
<1>5. Same(a, b) => /\ Spi(b, x) = h.token /\ b.ike # None /\ b.ike.sa = a.ike.sa
                    /\ Absent(qa2, x, "req", b.ike.sa) /\ Absent(qb, x, "ans", b.ike.sa)
  <2>1. b.ike # None /\ b.ike.sa = a.ike.sa =>
           /\ Spi(b, x) = h.token
           /\ Absent(qa2, x, "req", b.ike.sa) /\ Absent(qb, x, "ans", b.ike.sa)
    BY RespondWhole, Zenon
  <2> QED BY <2>1, Zenon DEF Same
<1>6. Same(a, b) /\ x = "CREATE_CHILD" => b.pending_rekey # None
  BY <1>1, <1>5, Zenon DEF Spi
<1>7. Order(a2, b, qa2, qb)
  <2>1. Same(a2, b) /\ b.pending_rekey = None => Absent(qb, "AUTH", "req", a.ike.sa)
    BY <1>1, <1>4, <1>6, ExIs, Zenon
  <2> QED BY <1>1, <1>3, <2>1, Zenon DEF Order
<1>8. Order(b, a2, qb, qa2)
  BY <1>1, <1>3, <1>4, Zenon DEF Order
<1>9. Latest(a2, b, qa2, cr)
  BY <1>1, <1>3, <1>4, Zenon DEF Latest
<1>10. Same(a, b) => Absent(qb, "CREATE_CHILD", "ans", b.ike.sa)
  <2>1. Same(a, b) /\ x = "AUTH" => ~Absent(qa, "AUTH", "req", b.ike.sa)
    BY <1>1, <1>5, Zenon DEF Absent
  <2>2. Same(a, b) /\ x = "AUTH" => Absent(qb, "CREATE_CHILD", "ans", b.ike.sa)
    BY <1>5, <2>1, Zenon DEF Sides, Side, Order
  <2> QED BY <1>1, <1>5, <2>2, ExIs, Zenon
<1>11. Same(a, b) /\ b.phase = "AuthSent" => Absent(qb, "AUTH", "ans", b.ike.sa)
  BY <1>1, <1>5, <1>6, ExIs, Zenon
<1>12. Latest(b, a2, qb, cr)
  BY <1>4, <1>10, <1>11, Zenon DEF Latest, Absent
<1>13. Agree(a2, b, cr)
  <2>1. Same(a, b) /\ HasChild(b) /\ a.pending_rekey = None => b.pending_rekey # None
    <3>1. Same(a, b) /\ x = "AUTH" => ~Absent(qa, "AUTH", "req", b.ike.sa)
      BY <1>1, <1>5, Zenon DEF Absent
    <3>2. Same(a, b) /\ HasChild(b) /\ a.pending_rekey = None => x # "AUTH"
      BY <1>4, <1>5, <3>1, Zenon DEF Sides, Side, Order
    <3> QED BY <1>1, <1>6, <3>2, ExIs, Zenon
  <2> QED BY <1>1, <1>4, <2>1, Zenon DEF Agree, Sides, Side
<1>14. b.ike # None /\ b.ike.sa = a.ike.sa /\ x = "CREATE_CHILD" =>
          Absent(qa2, "AUTH", "req", b.ike.sa)
  <2> SUFFICES ASSUME b.ike # None, b.ike.sa = a.ike.sa, x = "CREATE_CHILD"
               PROVE  Absent(qa2, "AUTH", "req", b.ike.sa)
    BY Zenon
  <2>1. Ahead(qa, "AUTH", "req", "CREATE_CHILD", "req", b.ike.sa)
    BY Zenon DEF Sides, Side, Order
  <2>2. Of(h, "CREATE_CHILD", "req", b.ike.sa)
    BY <1>1, Zenon
  <2>3. Absent(qa, "AUTH", "req", b.ike.sa)
    BY <2>1, <2>2, Zenon DEF Takes
  <2> QED BY <1>2, <2>3, CalmAbsent, ExIs, Zenon
<1> QED BY <1>7, <1>8, <1>9, <1>12, <1>13, <1>14, AgreeSwap, Zenon DEF Sides, Side

\* Its answer.
LEMMA ReplySides ==
  ASSUME NEW a, NEW b, NEW qa, NEW qb, NEW cr, Sides(a, b, qa, qb, cr),
         NEW m, NEW x, Replies(a, b, m, x, qa, qb), NEW qb2, Grows(qb, m, qb2),
         a.phase # "AuthSent",
         b.ike # None /\ b.ike.sa = m.sa /\ x = "CREATE_CHILD" => Absent(qa, "AUTH", "req", m.sa)
  PROVE  Sides(a, b, qa, qb2, cr)
<1>1. /\ \A y, v, S : Of(m, y, v, S) => y = x /\ v = "ans" /\ S = m.sa
      /\ Wire(qb2) = Wire(qb) \cup {m}
      /\ x \in Ex
  BY Zenon DEF Replies, Grows, Of
<1>2. \A y, S : ~Of(m, y, "req", S)
  BY <1>1
<1>3. Order(a, b, qa, qb2)
  <2>1. \A S : Absent(qb, "AUTH", "req", S) => Absent(qb2, "AUTH", "req", S)
    BY <1>2, GrowsAbsent, Zenon
  <2>2. \A y, v, S : Ahead(qb, "AUTH", "req", y, v, S) => Ahead(qb2, "AUTH", "req", y, v, S)
    BY <1>2, Zenon DEF Grows
  <2> QED BY <2>1, <2>2, Zenon DEF Order, Sides, Side
<1>4. Order(b, a, qb2, qa)
  <2>1. CASE b.ike # None /\ Of(m, "CREATE_CHILD", "ans", b.ike.sa)
    <3>1. x = "CREATE_CHILD" /\ b.ike.sa = m.sa
      BY <1>1, <2>1
    <3>2. Absent(qa, "AUTH", "req", b.ike.sa)
      BY <2>1, <3>1, Zenon
    <3> QED BY <3>2, Zenon DEF Order, Sides, Side
  <2>2. CASE ~Of(m, "CREATE_CHILD", "ans", b.ike.sa)
    <3>1. Absent(qb, "CREATE_CHILD", "ans", b.ike.sa) => Absent(qb2, "CREATE_CHILD", "ans", b.ike.sa)
      BY <2>2, GrowsAbsent, Zenon
    <3> QED BY <3>1, Zenon DEF Order, Sides, Side
  <2>3. CASE b.ike = None
    BY <2>3, Zenon DEF Order
  <2> QED BY <2>1, <2>2, <2>3, Zenon
<1>5. Latest(b, a, qb2, cr)
  <2>1. ASSUME b.ike # None, NEW y, Of(m, y, "ans", b.ike.sa)
        PROVE  a.ike.child.local_spi = m.token
    <3>1. b.ike.sa = m.sa
      BY <1>1, <2>1
    <3>2. Ends(b, a, x, m)
      BY <2>1, <3>1, Zenon DEF Replies
    <3> QED BY <3>2, Zenon DEF Ends
  <2> QED BY <1>1, <2>1, Zenon DEF Latest, Sides, Side, Same
<1> QED BY <1>3, <1>4, <1>5, Zenon DEF Sides, Side

\* The answer arrives.
LEMMA ConcludeSides ==
  ASSUME NEW a, NEW b, NEW qa, NEW qb, NEW cr, Sides(a, b, qa, qb, cr), Whole(a, b, qa, qb),
         NEW a2, NEW x, NEW h, Concludes(a, a2, x, h), NEW qa2, Takes(qa, h, qa2),
         a2.phase # "AuthSent", x = "AUTH" => a.phase = "AuthSent",
         x = "AUTH" => Absent(qb, "AUTH", "ans", a.ike.sa)
  PROVE  Sides(a2, b, qa2, qb, cr)
<1>1. /\ x \in Ex /\ a.ike # None /\ a2.ike # None /\ a2.ike.sa = a.ike.sa
      /\ HasChild(a2)
      /\ a2.ike.child.local_spi = Spi(a, x) /\ a2.ike.child.remote_spi = h.token
      /\ h \in Wire(qa) /\ Of(h, x, "ans", a.ike.sa)
      /\ x = "AUTH" => a2.pending_rekey = a.pending_rekey
      /\ x = "CREATE_CHILD" => a2.pending_rekey = None
  BY Zenon DEF Concludes, Installs, Takes
<1>2. Calm(qa, qa2) /\ Calm(qb, qb)
  BY ShrinksCalm, CalmSelf, Zenon DEF Takes
<1>3. /\ Order(a, b, qa2, qb) /\ Order(b, a, qb, qa2)
      /\ Latest(a, b, qa2, cr)
  BY <1>2, OrderCalm, LatestCalm, Zenon DEF Sides, Side
<1>4. (Same(a2, b) <=> Same(a, b)) /\ (Same(b, a2) <=> Same(b, a)) /\ (Same(a, b) <=> Same(b, a))
  BY <1>1, Zenon DEF Same
<1>5. Spi(a, x) # None /\ Absent(qb, x, "req", a.ike.sa)
  <2>1. OpenX(x, a.ike.sa, Spi(a, x), qa, qb)
    BY <1>1, Zenon DEF Whole, Half, Open
  <2>2. ~Absent(qa, x, "ans", a.ike.sa)
    BY <1>1, Zenon DEF Absent
  <2> QED BY <1>1, <2>1, <2>2, Zenon DEF OpenX
<1>6. Absent(qb, "AUTH", "req", a.ike.sa)
  <2>1. CASE x = "AUTH"
    BY <1>5, <2>1, Zenon
  <2>2. CASE x = "CREATE_CHILD"
    <3>1. ~Absent(qa, "CREATE_CHILD", "ans", a.ike.sa)
      BY <1>1, <2>2, Zenon DEF Absent
    <3> QED BY <1>1, <3>1, Zenon DEF Sides, Side, Order
  <2> QED BY <1>1, <2>1, <2>2, ExIs, Zenon
<1>7. Order(a2, b, qa2, qb)
  BY <1>1, <1>3, <1>6, Zenon DEF Order
<1>8. Order(b, a2, qb, qa2)
  <2>1. Same(b, a) /\ x = "CREATE_CHILD" => Absent(qa2, "AUTH", "req", b.ike.sa)
    <3> SUFFICES ASSUME Same(b, a), x = "CREATE_CHILD"
                 PROVE  Absent(qa2, "AUTH", "req", b.ike.sa)
      BY Zenon
    <3>1. Ahead(qa, "AUTH", "req", "CREATE_CHILD", "ans", b.ike.sa)
      BY Zenon DEF Sides, Side, Order, Same
    <3>2. Of(h, "CREATE_CHILD", "ans", b.ike.sa)
      BY <1>1, Zenon DEF Same
    <3>3. Absent(qa, "AUTH", "req", b.ike.sa)
      BY <3>1, <3>2, Zenon DEF Takes
    <3> QED BY <1>2, <3>3, CalmAbsent, ExIs, Zenon
  <2> QED BY <1>1, <1>3, <1>4, <2>1, ExIs, Zenon DEF Order
<1>9. Latest(a2, b, qa2, cr)
  BY <1>1, <1>3, <1>4, Zenon DEF Latest
<1>10. ASSUME Same(a, b), ~cr PROVE Absent(qb, "CREATE_CHILD", "ans", b.ike.sa)
  <2>1. CASE x = "AUTH"
    BY <1>1, <1>10, <2>1, Zenon DEF Sides, Side, Order, Same
  <2>2. CASE x = "CREATE_CHILD"
    <3>1. b.pending_rekey = None
      BY <1>5, <1>10, <2>2, Zenon DEF Sides, Side, Agree, Spi
    <3> QED BY <1>10, <3>1, ExIs, Zenon DEF Whole, Half, Open, OpenX, Spi, Same
  <2> QED BY <1>1, <2>1, <2>2, ExIs, Zenon
<1>11. ASSUME Same(a, b), b.phase = "AuthSent" PROVE Absent(qb, "AUTH", "ans", b.ike.sa)
  <2>1. b.ike # None /\ b.ike.sa = a.ike.sa
    BY <1>11, Zenon DEF Same
  <2>2. Absent(qa, "CREATE_CHILD", "ans", b.ike.sa)
    BY <1>11, <2>1, Zenon DEF Sides, Side, Order
  <2>3. x = "AUTH"
    BY <1>1, <2>1, <2>2, ExIs, Zenon DEF Absent
  <2> QED BY <2>1, <2>3, Zenon
<1>12. Latest(b, a2, qb, cr)
  BY <1>4, <1>10, <1>11, Zenon DEF Latest, Absent
<1>13. Agree(a2, b, cr)
  <2> SUFFICES ASSUME ~cr, Same(a, b), HasChild(b), b.pending_rekey = None
               PROVE  Mirrored(a2.ike.child, b.ike.child)
    BY <1>1, <1>4, ExIs, Zenon DEF Agree, Sides, Side
  <2>1. b.ike.child.local_spi = h.token
    <3>1. CASE x = "AUTH"
      BY <1>1, <3>1, Zenon DEF Sides, Side, Latest
    <3>2. CASE x = "CREATE_CHILD"
      BY <1>1, <3>2, Zenon DEF Sides, Side, Latest
    <3> QED BY <1>1, <3>1, <3>2, ExIs, Zenon
  <2>2. Ends(a, b, x, h)
    BY <1>1, <2>1, Zenon DEF Whole, Half, Match
  <2> QED BY <1>1, <2>2, Zenon DEF Ends, Mirrored
<1> QED BY <1>7, <1>8, <1>9, <1>12, <1>13, AgreeSwap, Zenon DEF Sides, Side

-----------------------------------------------------------------------------
(* One Runner, and the names of the IKE SAs *)

Name == Token \X Token

\* The number of the Runner of host n in an IKE SA between the two hosts, and
\* that this Runner has, or had, an IKE SA.
Part(n, S) == IF S[1][1] = n THEN S[1][2] ELSE S[2][2]
Used(n, r, S) == Part(n, S) < r.gen \/ (Part(n, S) = r.gen /\ r.ike # None)
Between(n, S) ==
    /\ S \in Name
    /\ (S[1][1] = n /\ S[2][1] = Peer(n)) \/ (S[1][1] = Peer(n) /\ S[2][1] = n)

\* A datagram that n, the host of a, sent to b.
Fit(n, a, b, m) ==
    /\ m \in Message
    /\ m.exchange = "SA_INIT" /\ Kind(m) = "req" => m.sa[1][1] = n
    /\ m.exchange = "SA_INIT" /\ Kind(m) = "ans" =>
          Between(n, m.sa) /\ m.sa[2][1] = n /\ Used(n, a, m.sa)
    /\ m.exchange # "SA_INIT" =>
          Between(n, m.sa) /\ Used(n, a, m.sa) /\ Used(Peer(n), b, m.sa)
    /\ m.exchange = "AUTH" /\ Kind(m) = "req" => m.sa[1][1] = n
    /\ m.exchange = "AUTH" /\ Kind(m) = "ans" => m.sa[2][1] = n
    /\ m.exchange \in Ex => m.token # None

\* Once b has shown that it has the keys of its IKE SA, a has taken part in it.
Known(n, a, b) ==
    b.ike # None /\ (b.ike.role = "initiator" \/ b.phase # "AuthSent") => Used(n, a, b.ike.sa)

IsRunner(r) ==
    r = [up |-> r.up, gen |-> r.gen, started |-> r.started, state |-> r.state,
         phase |-> r.phase, ike |-> r.ike, pending_sa_init |-> r.pending_sa_init,
         retransmit |-> r.retransmit, dpd_deadline |-> r.dpd_deadline,
         dpd_failures |-> r.dpd_failures, rekey_deadline |-> r.rekey_deadline,
         pending_rekey |-> r.pending_rekey]

Typed(r) ==
    /\ IsRunner(r) /\ r.gen \in Nat
    /\ r.ike \in IkeRuntime \cup {None} /\ r.pending_rekey \in Token \cup {None}

\* The role follows from the name of the IKE SA, and the child's keys from both.
Role(n, r) ==
    r.ike # None =>
        /\ Between(n, r.ike.sa) /\ Part(n, r.ike.sa) = r.gen
        /\ r.ike.role = "initiator" <=> r.ike.sa[1][1] = n
        /\ HasChild(r) => r.ike.child.seed.sa = r.ike.sa /\ r.ike.child.outbound = r.ike.role

Phased(n, r) ==
    /\ r.phase = "Init" => r.ike = None
    /\ r.phase \in {"AuthSent", "Established", "Closed"} => r.ike # None
    /\ r.phase = "SaInitSent" /\ r.pending_sa_init => r.ike = None
    /\ n \in Initiators /\ ~r.started => r.phase = "Init"
    /\ r.phase = "AuthSent" => ~HasChild(r) /\ r.pending_rekey = None
    /\ r.ike = None => r.pending_rekey = None

\* What a Runner may send again.
Resendable(n, r, m) ==
    /\ m \in Message
    /\ m.exchange # "SA_INIT" => Kind(m) = "req" /\ r.ike # None /\ m.sa = r.ike.sa
    /\ m.exchange = "AUTH" =>
          /\ m.token = r.ike.local_child_spi /\ m.token # None
          /\ r.phase = "AuthSent" /\ r.ike.role = "initiator"
    /\ m.exchange = "CREATE_CHILD" => m.token = r.pending_rekey /\ m.token # None
    /\ m.exchange = "INFORMATIONAL" => r.phase # "AuthSent"
    /\ m.exchange = "SA_INIT" /\ Kind(m) = "req" => m.sa[1][1] = n
    /\ m.exchange = "SA_INIT" /\ Kind(m) = "ans" =>
          r.ike # None /\ m.sa = r.ike.sa /\ r.ike.sa[2][1] = n
IsResend(t) == t = [message |-> t.message, attempts |-> t.attempts, max |-> t.max]
Resends(n, r) ==
    r.retransmit # None => IsResend(r.retransmit) /\ Resendable(n, r, r.retransmit.message)

Sane(n, r) == Typed(r) /\ Role(n, r) /\ Phased(n, r) /\ Resends(n, r)

\* Everything about the two ends of the connection.
Names(n, a, b, qb) == Known(n, a, b) /\ \A m \in Wire(qb) : Fit(n, a, b, m)
Pair(n, a, b, qa, qb, cr) ==
    /\ Sane(n, a) /\ Sane(Peer(n), b)
    /\ qa \in Seq(Message) /\ qb \in Seq(Message)
    /\ Names(n, a, b, qb) /\ Names(Peer(n), b, a, qa)
    /\ Whole(a, b, qa, qb) /\ Sides(a, b, qa, qb, cr)

\* Everything is the same seen from either end.
LEMMA PairSwap ==
  ASSUME NEW n \in Host, NEW a, NEW b, NEW qa, NEW qb, NEW cr, Pair(n, a, b, qa, qb, cr)
  PROVE  Pair(Peer(n), b, a, qb, qa, cr)
<1>1. Peer(Peer(n)) = n
  BY PeerFacts, Zenon
<1>2. Whole(b, a, qb, qa) /\ Sides(b, a, qb, qa, cr)
  BY Zenon DEF Pair, Whole, Sides
<1> QED BY <1>1, <1>2, Zenon DEF Pair

\* A Runner gets older.
Ages(r, r2) ==
    \/ r2.gen = r.gen /\ (r.ike # None => r2.ike # None)
    \/ r2.gen = r.gen + 1

\* An IKE SA that a Runner took part in stays one.
LEMMA UsedAges ==
  ASSUME NEW n \in Host, NEW r, NEW r2, Ages(r, r2), r.gen \in Nat,
         NEW S, Between(n, S), Used(n, r, S)
  PROVE  Used(n, r2, S)
<1>1. PICK k : k = Part(n, S)
  BY Zenon
<1>2. k \in Nat
  BY <1>1, PeerFacts DEF Part, Between, Name, Token
<1>3. k < r.gen \/ (k = r.gen /\ r.ike # None)
  BY <1>1, Zenon DEF Used
<1>4. k < r2.gen \/ (k = r2.gen /\ r2.ike # None)
  BY <1>2, <1>3 DEF Ages
<1> QED BY <1>1, <1>4, Zenon DEF Used

\* The names when a moves on to a2.
LEMMA NamesStep ==
  ASSUME NEW n \in Host, NEW a, NEW b, NEW qa, NEW qb,
         a.gen \in Nat, Role(Peer(n), b),
         Names(n, a, b, qb), Names(Peer(n), b, a, qa),
         NEW a2, Ages(a, a2), Known(Peer(n), b, a2),
         NEW qa2, Wire(qa2) \subseteq Wire(qa),
         NEW qb2, \A m \in Wire(qb2) : m \in Wire(qb) \/ Fit(n, a2, b, m)
  PROVE  Names(n, a2, b, qb2) /\ Names(Peer(n), b, a2, qa2)
<1>1. Peer(n) \in Host /\ Peer(Peer(n)) = n /\ \A S : Between(Peer(n), S) => Between(n, S)
  BY PeerFacts, Zenon DEF Between
<1>2. Known(n, a2, b)
  BY <1>1, UsedAges, Zenon DEF Names, Known, Role
<1>3. ASSUME NEW m, Fit(n, a, b, m) PROVE Fit(n, a2, b, m)
  BY <1>3, UsedAges, Zenon DEF Fit
<1>4. ASSUME NEW m, Fit(Peer(n), b, a, m) PROVE Fit(Peer(n), b, a2, m)
  <2>1. m.exchange # "SA_INIT" => Used(n, a2, m.sa)
    BY <1>1, <1>4, UsedAges, Zenon DEF Fit
  <2> QED BY <1>1, <1>4, <2>1, Zenon DEF Fit
<1> QED BY <1>2, <1>3, <1>4, Zenon DEF Names

\* A Runner uses its own IKE SA.
LEMMA OwnUsed ==
  ASSUME NEW n, NEW r, Role(n, r), r.ike # None
  PROVE  Used(n, r, r.ike.sa)
BY Zenon DEF Role, Used

\* A Runner without an IKE SA has used no name with its number.
LEMMA NewName ==
  ASSUME NEW n, NEW r, r.ike = None, r.gen \in Nat, NEW S, Part(n, S) = r.gen
  PROVE  ~Used(n, r, S)
<1>1. ~(Part(n, S) < r.gen)
  OBVIOUS
<1> QED BY <1>1, Zenon DEF Used

\* The two ends of an IKE SA have different roles.
LEMMA RolesDiffer ==
  ASSUME NEW n \in Host, NEW a, NEW b, Role(n, a), Role(Peer(n), b), Typed(a), Typed(b),
         a.ike # None, b.ike # None, a.ike.sa = b.ike.sa
  PROVE  a.ike.role # b.ike.role
<1>1. Peer(n) # n
  BY PeerFacts, Zenon
<1>2. /\ a.ike.role = "initiator" <=> a.ike.sa[1][1] = n
      /\ b.ike.role = "initiator" <=> a.ike.sa[1][1] = Peer(n)
      /\ a.ike.sa[1][1] = n \/ a.ike.sa[1][1] = Peer(n)
  BY Zenon DEF Role, Between
<1> QED BY <1>1, <1>2, Zenon

-----------------------------------------------------------------------------
(* The kinds of steps, for everything about the two ends *)

\* A Runner forgets, ends or starts over, and datagrams to it may be gone.
LEMMA PairFade ==
  ASSUME NEW n \in Host, NEW a, NEW b, NEW qa, NEW qb, NEW cr, Pair(n, a, b, qa, qb, cr),
         NEW a2, Sane(n, a2), Ages(a, a2), Fades(a, a2),
         a2.ike # None => (a2.phase = "AuthSent" <=> a.phase = "AuthSent"),
         NEW qa2, Shrinks(qa, qa2)
  PROVE  Pair(n, a2, b, qa2, qb, cr)
<1>1. Known(Peer(n), b, a2)
  BY Zenon DEF Pair, Names, Known, Fades
<1>2. Names(n, a2, b, qb) /\ Names(Peer(n), b, a2, qa2)
  <2>1. a.gen \in Nat /\ Role(Peer(n), b) /\ Names(n, a, b, qb) /\ Names(Peer(n), b, a, qa)
    BY Zenon DEF Pair, Sane, Typed
  <2>2. Wire(qa2) \subseteq Wire(qa)
    BY Zenon DEF Shrinks
  <2> QED BY <1>1, <2>1, <2>2, NamesStep, Zenon
<1>3. Calm(qa, qa2) /\ Calm(qb, qb)
  BY ShrinksCalm, CalmSelf, Zenon
<1>4. Whole(a, b, qa, qb) /\ Sides(a, b, qa, qb, cr)
  BY Zenon DEF Pair
<1>5. Whole(a2, b, qa2, qb)
  BY <1>3, <1>4, FadeWhole, Zenon
<1>6. a2.ike = None => a2.pending_rekey = None
  BY Zenon DEF Sane, Phased
<1>7. a2.ike # None /\ a2.phase = "AuthSent" => a.phase = "AuthSent"
  BY Zenon
<1>8. Sides(a2, b, qa2, qb, cr)
  BY <1>3, <1>4, <1>6, <1>7, FadeSides, Zenon
<1> QED BY <1>2, <1>5, <1>8, Zenon DEF Pair, Shrinks

\* A Runner sends a datagram that is not about a child.
LEMMA PairSend ==
  ASSUME NEW n \in Host, NEW a, NEW b, NEW qa, NEW qb, NEW cr, Pair(n, a, b, qa, qb, cr),
         NEW m, Fit(n, a, b, m), m.exchange \notin Ex, NEW qb2, Grows(qb, m, qb2)
  PROVE  Pair(n, a, b, qa, qb2, cr)
<1>1. Names(n, a, b, qb2)
  BY Zenon DEF Pair, Names, Grows
<1>2. Calm(qa, qa) /\ Calm(qb, qb2)
  BY GrowsCalm, CalmSelf, Zenon
<1>3. Whole(a, b, qa, qb) /\ Sides(a, b, qa, qb, cr) /\ Sane(n, a)
  BY Zenon DEF Pair
<1>4. (a.ike = None => a.pending_rekey = None) /\ Fades(a, a)
  BY <1>3, Zenon DEF Sane, Phased, Fades
<1>5. Whole(a, b, qa, qb2)
  BY <1>2, <1>3, <1>4, FadeWhole, Zenon
<1>6. Sides(a, b, qa, qb2, cr)
  BY <1>2, <1>3, <1>4, FadeSides, Zenon
<1> QED BY <1>1, <1>5, <1>6, Zenon DEF Pair, Grows

\* A Runner gets an IKE SA.
LEMMA PairBegin ==
  ASSUME NEW n \in Host, NEW a, NEW b, NEW qa, NEW qb, NEW cr, Pair(n, a, b, qa, qb, cr),
         NEW a2, Sane(n, a2), a2.gen = a.gen, Known(Peer(n), b, a2),
         a.ike = None, a2.ike # None, a2.ike.child = None, a2.pending_rekey = None,
         a2.ike.local_child_spi = None \/ Spare(a2.ike.local_child_spi, a, b, qa, qb)
  PROVE  /\ Pair(n, a2, b, qa, qb, cr)
         /\ \A x \in Ex : \A w : Absent(qa, x, w, a2.ike.sa) /\ Absent(qb, x, w, a2.ike.sa)
<1>1. /\ Whole(a, b, qa, qb) /\ Sides(a, b, qa, qb, cr) /\ a.gen \in Nat
      /\ Role(Peer(n), b) /\ Names(n, a, b, qb) /\ Names(Peer(n), b, a, qa)
  BY Zenon DEF Pair, Sane, Typed
<1>2. Ages(a, a2)
  BY Zenon DEF Ages
<1>3. Names(n, a2, b, qb) /\ Names(Peer(n), b, a2, qa)
  BY <1>1, <1>2, NamesStep, Zenon
<1>4. ASSUME NEW m \in Wire(qa) \cup Wire(qb), m.exchange \in Ex
      PROVE  m.sa # a2.ike.sa /\ m.token # None
  <2>1. Fit(n, a, b, m) \/ Fit(Peer(n), b, a, m)
    BY <1>1, Zenon DEF Names
  <2>2. m.exchange # "SA_INIT"
    BY <1>4 DEF Ex
  <2>3. Used(n, a, m.sa) /\ m.token # None
    BY <1>4, <2>1, <2>2, PeerFacts, Zenon DEF Fit
  <2>4. Part(n, a2.ike.sa) = a.gen
    BY Zenon DEF Sane, Role
  <2>5. ~Used(n, a, a2.ike.sa)
    BY <1>1, <2>4, NewName, Zenon
  <2> QED BY <2>3, <2>5, Zenon
<1>5. Begins(a, a2, b, qa, qb)
  BY <1>4, Zenon DEF Begins
<1>6. /\ Whole(a2, b, qa, qb)
      /\ \A x \in Ex : \A w : Absent(qa, x, w, a2.ike.sa) /\ Absent(qb, x, w, a2.ike.sa)
  BY <1>1, <1>5, BeginWhole, Zenon
<1>7. ~HasChild(a2)
  BY Zenon DEF HasChild
<1>8. Sides(a2, b, qa, qb, cr)
  BY <1>1, <1>6, <1>7, BeginSides, Zenon
<1> QED BY <1>3, <1>6, <1>8, Zenon DEF Pair

\* A rekey draws its SPI.
LEMMA PairDraw ==
  ASSUME NEW n \in Host, NEW a, NEW b, NEW qa, NEW qb, NEW cr, Pair(n, a, b, qa, qb, cr),
         NEW a2, Sane(n, a2), a2.gen = a.gen, a2.phase = a.phase, Draws(a, a2, b, qa, qb),
         NEW cr2, cr2 = (b.pending_rekey # None)
  PROVE  /\ Pair(n, a2, b, qa, qb, cr2)
         /\ Absent(qb, "CREATE_CHILD", "req", a2.ike.sa)
         /\ Absent(qa, "CREATE_CHILD", "ans", a2.ike.sa)
<1>1. /\ Whole(a, b, qa, qb) /\ Sides(a, b, qa, qb, cr) /\ a.gen \in Nat
      /\ Role(Peer(n), b) /\ Names(n, a, b, qb) /\ Names(Peer(n), b, a, qa)
  BY Zenon DEF Pair, Sane, Typed
<1>2. Ages(a, a2) /\ Known(Peer(n), b, a2)
  BY <1>1, Zenon DEF Ages, Draws, Names, Known
<1>3. Names(n, a2, b, qb) /\ Names(Peer(n), b, a2, qa)
  BY <1>1, <1>2, NamesStep, Zenon
<1>4. /\ Whole(a2, b, qa, qb)
      /\ Absent(qb, "CREATE_CHILD", "req", a2.ike.sa)
      /\ Absent(qa, "CREATE_CHILD", "ans", a2.ike.sa)
  BY <1>1, DrawWhole, Zenon
<1>5. Sides(a2, b, qa, qb, cr2)
  BY <1>1, DrawSides, Zenon
<1> QED BY <1>3, <1>4, <1>5, Zenon DEF Pair

\* A request for a child is sent.
LEMMA PairAsk ==
  ASSUME NEW n \in Host, NEW a, NEW b, NEW qa, NEW qb, NEW cr, Pair(n, a, b, qa, qb, cr),
         NEW m, NEW x, Asks(a, m, x, qa, qb), Fit(n, a, b, m), NEW qb2, Grows(qb, m, qb2),
         x = "AUTH" => /\ ~HasChild(a)
                       /\ Absent(qb, "CREATE_CHILD", "req", a.ike.sa)
                       /\ Absent(qb, "CREATE_CHILD", "ans", a.ike.sa)
                       /\ Absent(qa, "CREATE_CHILD", "ans", a.ike.sa)
  PROVE  Pair(n, a, b, qa, qb2, cr)
<1>1. Whole(a, b, qa, qb) /\ Sides(a, b, qa, qb, cr)
  BY Zenon DEF Pair
<1>2. Names(n, a, b, qb2)
  BY Zenon DEF Pair, Names, Grows
<1>3. Whole(a, b, qa, qb2)
  BY <1>1, AskWhole, Zenon
<1>4. Sides(a, b, qa, qb2, cr)
  BY <1>1, AskSides, Zenon
<1> QED BY <1>2, <1>3, <1>4, Zenon DEF Pair, Grows

\* A request is answered with a new child; the answer may get lost.
LEMMA PairRespond ==
  ASSUME NEW n \in Host, NEW a, NEW b, NEW qa, NEW qb, NEW cr, Pair(n, a, b, qa, qb, cr),
         NEW a2, Sane(n, a2), a2.gen = a.gen, a2.phase # "AuthSent",
         NEW x, NEW h, NEW t, Responds(a, a2, b, x, h, t, qa, qb),
         NEW qa2, Takes(qa, h, qa2),
         NEW m \in Message, Of(m, x, "ans", h.sa), m.token = t
  PROVE  /\ Pair(n, a2, b, qa2, qb, cr)
         /\ \A qb2 : Grows(qb, m, qb2) => Pair(n, a2, b, qa2, qb2, cr)
<1>1. /\ Whole(a, b, qa, qb) /\ Sides(a, b, qa, qb, cr) /\ a.gen \in Nat
      /\ Role(Peer(n), b) /\ Names(n, a, b, qb) /\ Names(Peer(n), b, a, qa)
      /\ Sane(Peer(n), b) /\ Peer(n) \in Host /\ Peer(n) # n /\ Peer(Peer(n)) = n
  BY PeerFacts, Zenon DEF Pair, Sane, Typed
<1>2. /\ x \in Ex /\ h.exchange = x /\ Kind(h) = "req" /\ h.sa = a.ike.sa
      /\ a.ike # None /\ a2.ike # None /\ a2.ike.sa = a.ike.sa
      /\ h \in Wire(qa) /\ Wire(qa2) \subseteq Wire(qa)
  BY Zenon DEF Responds, Of, Installs, Takes, Shrinks
<1>3. Fit(Peer(n), b, a, h) /\ x # "SA_INIT"
  <2>1. x # "SA_INIT"
    BY <1>2 DEF Ex
  <2> QED BY <1>1, <1>2, <2>1, Zenon DEF Names
<1>4. /\ Between(Peer(n), h.sa) /\ Used(Peer(n), b, h.sa) /\ Used(n, a, h.sa)
      /\ x = "AUTH" => h.sa[1][1] = Peer(n)
  BY <1>1, <1>2, <1>3, Zenon DEF Fit
<1>5. Ages(a, a2) /\ Known(Peer(n), b, a2)
  BY <1>2, <1>4, Zenon DEF Ages, Known
<1>6. Names(n, a2, b, qb) /\ Names(Peer(n), b, a2, qa2)
  BY <1>1, <1>2, <1>5, NamesStep, Zenon
<1>7. /\ Whole(a2, b, qa2, qb)
      /\ b.ike # None /\ b.ike.sa = a.ike.sa =>
            /\ Spi(b, x) = h.token
            /\ Absent(qa2, x, "req", b.ike.sa) /\ Absent(qb, x, "ans", b.ike.sa)
  BY <1>1, RespondWhole, Zenon
<1>8. x = "AUTH" => Absent(qb, "AUTH", "req", a.ike.sa)
  <2>1. SUFFICES ASSUME x = "AUTH", NEW k \in Wire(qb), Of(k, "AUTH", "req", a.ike.sa) PROVE FALSE
    BY Zenon DEF Absent
  <2>2. k.sa[1][1] = n
    BY <1>1, <2>1, Zenon DEF Names, Fit, Of
  <2> QED BY <1>1, <1>2, <1>4, <2>1, <2>2, Zenon DEF Of
<1>9. b.phase = "AuthSent" => b.pending_rekey = None
  BY <1>1, Zenon DEF Sane, Phased
<1>10. /\ Sides(a2, b, qa2, qb, cr)
       /\ b.ike # None /\ b.ike.sa = a.ike.sa /\ x = "CREATE_CHILD" =>
             Absent(qa2, "AUTH", "req", b.ike.sa)
  BY <1>1, <1>8, <1>9, RespondSides, Zenon
<1>11. Pair(n, a2, b, qa2, qb, cr)
  BY <1>6, <1>7, <1>10, Zenon DEF Pair, Takes, Shrinks
<1>12. ASSUME NEW qb2, Grows(qb, m, qb2) PROVE Pair(n, a2, b, qa2, qb2, cr)
  <2>1. Fit(n, a2, b, m)
    <3>1. Between(n, h.sa) /\ (x = "AUTH" => h.sa[2][1] = n)
      BY <1>1, <1>4, Zenon DEF Between
    <3>2. Used(n, a2, h.sa)
      BY <1>1, <1>4, <1>5, <3>1, UsedAges, Zenon
    <3>3. m.sa = h.sa /\ m.exchange = x /\ Kind(m) = "ans" /\ m.token # None /\ "ans" # "req"
      BY Zenon DEF Of, Responds, Spare
    <3> QED BY <1>3, <1>4, <3>1, <3>2, <3>3, Zenon DEF Fit
  <2>2. Names(n, a2, b, qb2)
    BY <1>6, <1>12, <2>1, Zenon DEF Names, Grows
  <2>3. ApartAns(a2, m) /\ ApartAns(b, m)
    <3>1. SpareIn(t, a) /\ SpareIn(t, b)
      BY Zenon DEF Responds, Spare
    <3>2. a2.ike.local_child_spi = a.ike.local_child_spi /\ a2.pending_rekey = a.pending_rekey
      BY Zenon DEF Responds, Installs
    <3> QED BY <1>2, <3>1, <3>2, Zenon DEF SpareIn, ApartAns, Spi
  <2>4. b.ike # None /\ b.ike.sa = a.ike.sa => Spi(b, x) # None /\ Ends(b, a2, x, m)
    BY <1>2, <1>7, Zenon DEF Responds, Installs, Ends
  <2>5. Replies(a2, b, m, x, qa2, qb)
    BY <1>2, <1>7, <2>3, <2>4, Zenon DEF Replies, Of
  <2>6. Whole(a2, b, qa2, qb2)
    BY <1>7, <1>12, <2>5, ReplyWhole, Zenon
  <2>7. b.ike # None /\ b.ike.sa = m.sa /\ x = "CREATE_CHILD" => Absent(qa2, "AUTH", "req", m.sa)
    BY <1>2, <1>10, Zenon DEF Of
  <2>8. Sides(a2, b, qa2, qb2, cr)
    BY <1>10, <1>12, <2>5, <2>7, ReplySides, Zenon
  <2> QED BY <1>11, <1>12, <2>2, <2>6, <2>8, Zenon DEF Pair, Grows
<1> QED BY <1>11, <1>12, Zenon

\* A Runner installs the child it asked for.
LEMMA PairConclude ==
  ASSUME NEW n \in Host, NEW a, NEW b, NEW qa, NEW qb, NEW cr, Pair(n, a, b, qa, qb, cr),
         NEW a2, Sane(n, a2), a2.gen = a.gen, a2.phase # "AuthSent",
         NEW x, NEW h, Concludes(a, a2, x, h), x = "AUTH" => a.phase = "AuthSent",
         NEW qa2, Takes(qa, h, qa2)
  PROVE  Pair(n, a2, b, qa2, qb, cr)
<1>1. /\ Whole(a, b, qa, qb) /\ Sides(a, b, qa, qb, cr) /\ a.gen \in Nat
      /\ Role(Peer(n), b) /\ Names(n, a, b, qb) /\ Names(Peer(n), b, a, qa)
      /\ Peer(n) \in Host /\ Peer(n) # n /\ Peer(Peer(n)) = n
  BY PeerFacts, Zenon DEF Pair, Sane, Typed
<1>2. /\ x \in Ex /\ h.exchange = x /\ Kind(h) = "ans" /\ h.sa = a.ike.sa
      /\ a.ike # None /\ a2.ike # None /\ a2.ike.sa = a.ike.sa
      /\ h \in Wire(qa) /\ Wire(qa2) \subseteq Wire(qa)
  BY Zenon DEF Concludes, Of, Installs, Takes, Shrinks
<1>3. Fit(Peer(n), b, a, h) /\ x # "SA_INIT"
  <2>1. x # "SA_INIT"
    BY <1>2 DEF Ex
  <2> QED BY <1>1, <1>2, <2>1, Zenon DEF Names
<1>4. Used(Peer(n), b, h.sa) /\ (x = "AUTH" => h.sa[2][1] = Peer(n))
  BY <1>1, <1>2, <1>3, Zenon DEF Fit
<1>5. Ages(a, a2) /\ Known(Peer(n), b, a2)
  BY <1>2, <1>4, Zenon DEF Ages, Known
<1>6. Names(n, a2, b, qb) /\ Names(Peer(n), b, a2, qa2)
  BY <1>1, <1>2, <1>5, NamesStep, Zenon
<1>7. \A m \in Wire(qa) \cup Wire(qb) : m.exchange \in Ex => m.token # None
  BY <1>1, Zenon DEF Names, Fit
<1>8. Whole(a2, b, qa2, qb)
  BY <1>1, <1>7, ConcludeWhole, Zenon
<1>9. x = "AUTH" => Absent(qb, "AUTH", "ans", a.ike.sa)
  <2>1. SUFFICES ASSUME x = "AUTH", NEW k \in Wire(qb), Of(k, "AUTH", "ans", a.ike.sa) PROVE FALSE
    BY Zenon DEF Absent
  <2>2. k.sa[2][1] = n
    BY <1>1, <2>1, Zenon DEF Names, Fit, Of
  <2> QED BY <1>1, <1>2, <1>4, <2>1, <2>2, Zenon DEF Of
<1>10. Sides(a2, b, qa2, qb, cr)
  BY <1>1, <1>9, ConcludeSides, Zenon
<1> QED BY <1>6, <1>8, <1>10, Zenon DEF Pair, Takes, Shrinks

-----------------------------------------------------------------------------
(* Handlers *)

\* Steps that leave the IKE SA alone, but for its child.
Mild(n, a, a2) ==
    /\ IsRunner(a2) /\ a2.gen = a.gen /\ a2.pending_rekey = a.pending_rekey
    /\ \/ a2.ike = a.ike
       \/ /\ a.ike # None /\ a2.ike \in IkeRuntime /\ a2.ike.role = a.ike.role
          /\ a2.ike.sa = a.ike.sa /\ a2.ike.local_child_spi = a.ike.local_child_spi
          /\ a2.ike.child = None
    /\ a2.phase = a.phase \/ (a.phase = "Established" /\ a2.phase = "Closed")
    /\ a2.pending_sa_init = a.pending_sa_init \/ ~a2.pending_sa_init
    /\ a2.started = a.started \/ a2.started
    /\ \/ a2.retransmit = None
       \/ a2.retransmit = a.retransmit
       \/ IsResend(a2.retransmit) /\ Resendable(n, a2, a2.retransmit.message)

\* An IKE SA is told from none.
LEMMA RuntimeNotNone ==
  ASSUME NEW r \in IkeRuntime
  PROVE  r # None
BY IkeAssumption, Zenon DEF IkeAssumption

\* Such a step keeps all that holds of one Runner.
LEMMA MildSane ==
  ASSUME NEW n, NEW a, NEW a2, Sane(n, a), Mild(n, a, a2)
  PROVE  /\ Sane(n, a2) /\ Ages(a, a2) /\ Fades(a, a2)
         /\ a2.phase = "AuthSent" <=> a.phase = "AuthSent"
<1>1. Typed(a2)
  BY Zenon DEF Sane, Typed, Mild
<1>2. /\ a2.ike = None <=> a.ike = None
      /\ a2.ike # None => /\ a2.ike.role = a.ike.role /\ a2.ike.sa = a.ike.sa
                          /\ a2.ike.local_child_spi = a.ike.local_child_spi
      /\ HasChild(a2) => HasChild(a) /\ a2.ike.child = a.ike.child
  BY RuntimeNotNone, Zenon DEF Mild, HasChild
<1>3. Role(n, a2)
  <2>1. SUFFICES ASSUME a2.ike # None PROVE Role(n, a2)
    BY Zenon DEF Role
  <2>2. Role(n, a) /\ a2.gen = a.gen
    BY Zenon DEF Sane, Mild
  <2> QED BY <1>2, <2>1, <2>2, Zenon DEF Role
<1>4. "Closed" # "AuthSent" /\ "Established" # "AuthSent" /\ "Closed" # "Init"
      /\ "Closed" # "SaInitSent" /\ "Established" # "Init"
  OBVIOUS
<1>5. a2.phase = "AuthSent" <=> a.phase = "AuthSent"
  BY <1>4, Zenon DEF Mild
<1>6. Phased(n, a2)
  <2>1. Phased(n, a)
    BY Zenon DEF Sane
  <2>2. a2.phase = a.phase => Phased(n, a2)
    BY <1>2, <2>1, Zenon DEF Phased, Mild
  <2>3. a.phase = "Established" /\ a2.phase = "Closed" => Phased(n, a2)
    BY <1>2, <1>4, <2>1, Zenon DEF Phased, Mild
  <2> QED BY <2>2, <2>3, Zenon DEF Mild
<1>7. Resends(n, a2)
  <2>1. ASSUME a2.retransmit = a.retransmit, a.retransmit # None
        PROVE  Resends(n, a2)
    <3>1. PICK m : m = a.retransmit.message
      BY Zenon
    <3>2. IsResend(a.retransmit) /\ Resendable(n, a, m)
      BY <2>1, <3>1, Zenon DEF Sane, Resends
    <3>3. m.exchange = "AUTH" => a2.phase = "AuthSent"
      BY <1>5, <3>2, Zenon DEF Resendable
    <3>4. m.exchange = "INFORMATIONAL" => a2.phase # "AuthSent"
      BY <1>5, <3>2, Zenon DEF Resendable
    <3>5. a2.pending_rekey = a.pending_rekey
      BY Zenon DEF Mild
    <3>6. Resendable(n, a2, m)
      BY <1>2, <3>2, <3>3, <3>4, <3>5 DEF Resendable
    <3> QED BY <2>1, <3>1, <3>2, <3>6, Zenon DEF Resends
  <2> QED BY <2>1, Zenon DEF Mild, Resends
<1>8. Ages(a, a2)
  BY <1>2, Zenon DEF Mild, Ages
<1>9. Fades(a, a2)
  BY <1>2, Zenon DEF Mild, Fades
<1> QED BY <1>1, <1>3, <1>5, <1>6, <1>7, <1>8, <1>9, Zenon DEF Sane

\* Such a step keeps everything, and datagrams to the Runner may be gone.
LEMMA PairMild ==
  ASSUME NEW n \in Host, NEW a, NEW b, NEW qa, NEW qb, NEW cr, Pair(n, a, b, qa, qb, cr),
         NEW a2, Mild(n, a, a2), NEW qa2, Shrinks(qa, qa2)
  PROVE  Pair(n, a2, b, qa2, qb, cr)
<1>1. Sane(n, a)
  BY Zenon DEF Pair
<1>2. /\ Sane(n, a2) /\ Ages(a, a2) /\ Fades(a, a2)
      /\ a2.phase = "AuthSent" <=> a.phase = "AuthSent"
  BY <1>1, MildSane, Zenon
<1> QED BY <1>2, PairFade, Zenon

\* An effect after which everything holds, whether or not what it sends
\* arrives at the socket of the other host.
Fine(n, e, b, q, qb, cr) ==
    /\ Pair(n, e.r, b, q, qb, cr)
    /\ \/ e.out = <<>>
       \/ \E m \in Message :
             /\ e.out = <<m>>
             /\ \A qb2 : Grows(qb, m, qb2) => Pair(n, e.r, b, q, qb2, cr)

\* A handler that sends nothing.
LEMMA FineIgnore ==
  ASSUME NEW n, NEW r, NEW b, NEW q, NEW qb, NEW cr, Pair(n, r, b, q, qb, cr)
  PROVE  Fine(n, Ignore(r), b, q, qb, cr)
<1>1. PICK e : e = Ignore(r)
  BY Zenon
<1>2. e.r = r /\ e.out = <<>>
  BY <1>1, Zenon DEF Ignore, Effect
<1> QED BY <1>1, <1>2, Zenon DEF Fine

\* A handler that sends m.
LEMMA FineEffect ==
  ASSUME NEW n, NEW r, NEW b, NEW q, NEW qb, NEW cr, Pair(n, r, b, q, qb, cr),
         NEW m \in Message, \A qb2 : Grows(qb, m, qb2) => Pair(n, r, b, q, qb2, cr)
  PROVE  Fine(n, Effect(r, <<m>>), b, q, qb, cr)
<1>1. PICK e : e = Effect(r, <<m>>)
  BY Zenon
<1>2. e.r = r /\ e.out = <<m>>
  BY <1>1, Zenon DEF Effect
<1> QED BY <1>1, <1>2, Zenon DEF Fine

\* A handler whose send may be refused.
LEMMA FineSend ==
  ASSUME NEW n, NEW r, NEW r0, NEW b, NEW q, NEW qb, NEW cr, NEW ok \in BOOLEAN,
         ok => Pair(n, r, b, q, qb, cr), ~ok => Pair(n, r0, b, q, qb, cr),
         NEW m \in Message, ok => \A qb2 : Grows(qb, m, qb2) => Pair(n, r, b, q, qb2, cr)
  PROVE  Fine(n, Send(ok, m, r, r0), b, q, qb, cr)
<1>1. CASE ok
  BY <1>1, FineEffect, Zenon DEF Send
<1>2. CASE ~ok
  BY <1>2, FineIgnore, Zenon DEF Send
<1> QED BY <1>1, <1>2, Zenon

\* remove_child and its use when the peer is given up.
LEMMA RemoveChildFacts ==
  ASSUME NEW r, IsRunner(r), r.ike \in IkeRuntime \cup {None}, NEW r2, r2 = RemoveChild(r)
  PROVE  /\ r2 = [r EXCEPT !.ike = r2.ike] /\ IsRunner(r2)
         /\ \/ r2.ike = r.ike
            \/ /\ r.ike # None /\ r2.ike \in IkeRuntime /\ r2.ike.role = r.ike.role
               /\ r2.ike.sa = r.ike.sa /\ r2.ike.local_child_spi = r.ike.local_child_spi
               /\ r2.ike.child = None
<1>1. CASE r.ike = None
  <2>1. r2 = r
    BY <1>1, Zenon DEF RemoveChild
  <2> QED BY <2>1, Zenon DEF IsRunner
<1>2. CASE r.ike # None
  <2>1. PICK i \in IkeRuntime : i = r.ike
    BY <1>2, Zenon
  <2>2. PICK j : j = [i EXCEPT !.child = None]
    BY Zenon
  <2>3. j \in IkeRuntime /\ j.role = i.role /\ j.sa = i.sa /\ j.local_child_spi = i.local_child_spi /\ j.child = None
    BY <2>2 DEF IkeRuntime
  <2>4. r2 = [r EXCEPT !.ike = j]
    BY <1>2, <2>1, <2>2, Zenon DEF RemoveChild
  <2>5. r2.ike = j /\ IsRunner(r2)
    BY <2>4, Zenon DEF IsRunner
  <2> QED BY <1>2, <2>1, <2>3, <2>4, <2>5, Zenon
<1> QED BY <1>1, <1>2, Zenon

\* install_child: the Runner that it leaves.
LEMMA InstallChildFacts ==
  ASSUME NEW r, IsRunner(r), r.ike \in IkeRuntime, NEW c \in ChildRuntime,
         NEW r2, r2 = InstallChild(r, c)
  PROVE  /\ IsRunner(r2) /\ r2.gen = r.gen /\ r2.started = r.started
         /\ r2.phase = "Established" /\ r2.retransmit = None /\ r2.pending_rekey = r.pending_rekey
         /\ r2.ike \in IkeRuntime /\ r2.ike.role = r.ike.role /\ r2.ike.sa = r.ike.sa
         /\ r2.ike.local_child_spi = r.ike.local_child_spi /\ r2.ike.child = c
<1>1. PICK i \in IkeRuntime : i = r.ike
  BY Zenon
<1>2. PICK j : j = [i EXCEPT !.child = c]
  BY Zenon
<1>3. j \in IkeRuntime /\ j.role = i.role /\ j.sa = i.sa /\ j.local_child_spi = i.local_child_spi /\ j.child = c
  BY <1>2 DEF IkeRuntime
<1>4. r2 = [r EXCEPT !.ike = j, !.phase = "Established", !.retransmit = None,
                     !.state = "Established", !.dpd_deadline = TRUE, !.rekey_deadline = TRUE]
  BY <1>1, <1>2, Zenon DEF InstallChild
<1>5. /\ IsRunner(r2) /\ r2.gen = r.gen /\ r2.started = r.started
      /\ r2.phase = "Established" /\ r2.retransmit = None /\ r2.pending_rekey = r.pending_rekey
      /\ r2.ike = j
  BY <1>4, Zenon DEF IsRunner
<1> QED BY <1>1, <1>3, <1>5, Zenon

\* A Runner with a new child is in order.
LEMMA InstallSane ==
  ASSUME NEW n, NEW a, Sane(n, a), a.ike # None, NEW c \in ChildRuntime,
         c.seed.sa = a.ike.sa, c.outbound = a.ike.role,
         NEW r, IsRunner(r), r.ike = a.ike, r.gen = a.gen, r.started = a.started,
         r.pending_rekey = a.pending_rekey \/ r.pending_rekey = None, a.phase # "Init",
         NEW a2, a2 = InstallChild(r, c)
  PROVE  /\ Sane(n, a2) /\ a2.gen = a.gen /\ a2.phase # "AuthSent"
         /\ a2.pending_rekey = r.pending_rekey
         /\ Installs(a, a2, c.local_spi, c.remote_spi, c.seed)
<1>1. r.ike \in IkeRuntime
  BY Zenon DEF Sane, Typed
<1>2. /\ IsRunner(a2) /\ a2.gen = r.gen /\ a2.started = r.started
      /\ a2.phase = "Established" /\ a2.retransmit = None /\ a2.pending_rekey = r.pending_rekey
      /\ a2.ike \in IkeRuntime /\ a2.ike.role = r.ike.role /\ a2.ike.sa = r.ike.sa
      /\ a2.ike.local_child_spi = r.ike.local_child_spi /\ a2.ike.child = c
  BY <1>1, InstallChildFacts
<1>3. c # None /\ a2.ike # None
  BY <1>2, IkeAssumption, Zenon DEF IkeAssumption
<1>4. "Established" # "AuthSent" /\ "Established" # "Init" /\ "Established" # "SaInitSent"
  OBVIOUS
<1>5. Typed(a2)
  BY <1>2, Zenon DEF Sane, Typed
<1>6. Role(n, a2)
  <2>1. Role(n, a)
    BY Zenon DEF Sane
  <2>2. HasChild(a2) => a2.ike.child.seed.sa = a2.ike.sa /\ a2.ike.child.outbound = a2.ike.role
    BY <1>2, Zenon
  <2>3. a2.ike.sa = a.ike.sa /\ a2.ike.role = a.ike.role /\ a2.gen = a.gen
    BY <1>2, Zenon
  <2> QED BY <2>1, <2>2, <2>3 DEF Role
<1>7. Phased(n, a2)
  <2>1. Phased(n, a)
    BY Zenon DEF Sane
  <2> QED BY <1>2, <1>3, <1>4, <2>1, Zenon DEF Phased
<1>8. Resends(n, a2)
  BY <1>2, Zenon DEF Resends
<1>9. Installs(a, a2, c.local_spi, c.remote_spi, c.seed)
  BY <1>2, <1>3, Zenon DEF Installs, HasChild
<1> QED BY <1>2, <1>4, <1>5, <1>6, <1>7, <1>8, <1>9, Zenon DEF Sane

\* derive_child_keys: the child for the exchange x.
LEMMA ChildKeys ==
  ASSUME NEW r, r.ike \in IkeRuntime, NEW x \in Ex, NEW t \in Token, NEW u \in Token,
         NEW s \in Token, NEW v \in Token,
         NEW ni, ni = (IF x = "AUTH" THEN None ELSE t), NEW nr, nr = (IF x = "AUTH" THEN None ELSE u),
         NEW c, c = DeriveChildKeys(r, ni, nr, s, v)
  PROVE  /\ c \in ChildRuntime /\ c.seed = Seed(r.ike.sa, x, t, u) /\ c.seed.sa = r.ike.sa
         /\ c.outbound = r.ike.role /\ c.local_spi = s /\ c.remote_spi = v
<1>1. PICK i \in IkeRuntime : i = r.ike
  BY Zenon
<1>2. i.role \in {"initiator", "responder"} /\ i.sa \in Token \X Token
  BY DEF IkeRuntime
<1>3. ni \in Token \cup {None} /\ nr \in Token \cup {None}
  BY Zenon
<1>4. PICK d : d = [sa |-> i.sa, nonce_i |-> ni, nonce_r |-> nr]
  BY Zenon
<1>5. /\ d \in [sa : Token \X Token, nonce_i : Token \cup {None}, nonce_r : Token \cup {None}]
      /\ d.sa = i.sa
  BY <1>2, <1>3, <1>4
<1>6. d = Seed(r.ike.sa, x, t, u)
  BY <1>1, <1>4, Zenon DEF Seed
<1>7. c = [local_spi |-> s, remote_spi |-> v, outbound |-> i.role, seed |-> d]
  BY <1>1, <1>4, Zenon DEF DeriveChildKeys
<1>8. c \in ChildRuntime
  BY <1>2, <1>5, <1>7 DEF ChildRuntime
<1>9. c.seed = d /\ c.outbound = i.role /\ c.local_spi = s /\ c.remote_spi = v
  BY <1>7
<1> QED BY <1>1, <1>5, <1>6, <1>8, <1>9, Zenon

\* Host n, whose Runner a is in its loop, takes the datagram h from its socket.
Taking(n, a, b, qa, qb, cr, h, q) ==
    /\ n \in Host /\ Pair(n, a, b, qa, qb, cr) /\ Takes(qa, h, q)
    /\ a = rn[n] /\ (n \in Initiators => a.started)

\* What is known of the Runner and of the datagram it takes.
LEMMA TakingFacts ==
  ASSUME NEW n, NEW a, NEW b, NEW qa, NEW qb, NEW cr, NEW h, NEW q,
         Taking(n, a, b, qa, qb, cr, h, q)
  PROVE  /\ Sane(n, a) /\ IsRunner(a) /\ a.ike \in IkeRuntime \cup {None} /\ a.gen \in Nat
         /\ Fit(Peer(n), b, a, h) /\ h \in Message /\ Shrinks(qa, q) /\ h \in Wire(qa)
         /\ Peer(n) \in Host /\ Peer(n) # n /\ Peer(Peer(n)) = n
         /\ Pair(n, a, b, q, qb, cr)
<1>1. n \in Host /\ Pair(n, a, b, qa, qb, cr) /\ Shrinks(qa, q) /\ h \in Wire(qa)
  BY Zenon DEF Taking, Takes
<1>2. Sane(n, a) /\ IsRunner(a) /\ a.ike \in IkeRuntime \cup {None} /\ a.gen \in Nat
  BY <1>1, Zenon DEF Pair, Sane, Typed
<1>3. Fit(Peer(n), b, a, h)
  BY <1>1, Zenon DEF Pair, Names
<1>4. Mild(n, a, a)
  BY <1>2, Zenon DEF Mild
<1>5. Pair(n, a, b, q, qb, cr)
  BY <1>1, <1>4, PairMild, Zenon
<1> QED BY <1>1, <1>2, <1>3, <1>5, PeerFacts, Zenon DEF Fit

\* Retransmit keeps the message.
LEMMA RetransmitFacts ==
  ASSUME NEW m, NEW k, NEW t, t = Retransmit(m, k)
  PROVE  IsResend(t) /\ t.message = m
BY Zenon DEF Retransmit, IsResend

\* An IKE SA that NewIke builds.
LEMMA NewIkeFacts ==
  ASSUME NEW role \in {"initiator", "responder"}, NEW S \in Name, NEW t \in Token \cup {None},
         NEW i, i = NewIke(role, S, t)
  PROVE  /\ i \in IkeRuntime /\ i # None /\ i.role = role /\ i.sa = S
         /\ i.local_child_spi = t /\ i.child = None
<1>1. /\ i \in IkeRuntime /\ i.role = role /\ i.sa = S
      /\ i.local_child_spi = t /\ i.child = None
  BY DEF NewIke, IkeRuntime, Name
<1> QED BY <1>1, RuntimeNotNone, Zenon

\* handle_sa_init_request: with an IKE SA the request is ignored; otherwise
\* the Runner has one that no datagram belongs to yet, and answers.
LEMMA SaInitRequestFine ==
  ASSUME NEW n, NEW a, NEW b, NEW qa, NEW qb, NEW cr, NEW h, NEW q,
         Taking(n, a, b, qa, qb, cr, h, q), NEW ok \in BOOLEAN,
         h.exchange = "SA_INIT", Kind(h) = "req"
  PROVE  Fine(n, HandleSaInitRequest(n, h, ok), b, q, qb, cr)
<1>1. /\ Sane(n, a) /\ IsRunner(a) /\ a.ike \in IkeRuntime \cup {None} /\ a.gen \in Nat
      /\ Fit(Peer(n), b, a, h) /\ h \in Message /\ Pair(n, a, b, q, qb, cr)
      /\ Peer(n) \in Host /\ Peer(n) # n
  BY TakingFacts, Zenon
<1>2. n \in Host /\ a = rn[n] /\ (n \in Initiators => a.started)
  BY Zenon DEF Taking
<1>3. CASE a.ike # None
  <2>1. HandleSaInitRequest(n, h, ok) = Ignore(a)
    BY <1>2, <1>3, Zenon DEF HandleSaInitRequest
  <2> QED BY <1>1, <2>1, FineIgnore, Zenon
<1>4. CASE a.ike = None
  <2>1. PICK S : S = <<h.sa[1], <<n, a.gen>>>>
    BY Zenon
  <2>2. h.sa[1] \in Token /\ h.sa[1][1] = Peer(n)
    <3>1. h.sa[1] \in Token
      BY <1>1 DEF Message
    <3> QED BY <1>1, <3>1, Zenon DEF Fit
  <2>3. S \in Name /\ S[1][1] = Peer(n) /\ S[2][1] = n /\ S[2][2] = a.gen
    BY <1>1, <1>2, <2>1, <2>2 DEF Name, Token
  <2>4. S \in Token \X (Token \cup {None})
    BY <2>3 DEF Name
  <2>5. PICK m : m = Msg("SA_INIT", TRUE, S, None)
    BY Zenon
  <2>6. m \in Message /\ m.exchange = "SA_INIT" /\ m.sa = S /\ m.token = None /\ Kind(m) = "ans"
    <3>1. m \in Message /\ m.exchange = "SA_INIT" /\ m.sa = S /\ m.token = None /\ m.response
      BY <2>4, <2>5 DEF Msg, Message, Exchange
    <3> QED BY <3>1 DEF Kind
  <2>7. PICK i : i = NewIke("responder", S, None)
    BY Zenon
  <2>8. /\ i \in IkeRuntime /\ i # None /\ i.role = "responder" /\ i.sa = S
        /\ i.local_child_spi = None /\ i.child = None
    <3>1. "responder" \in {"initiator", "responder"} /\ None \in Token \cup {None}
      OBVIOUS
    <3> QED BY <2>3, <2>7, <3>1, NewIkeFacts
  <2>9. PICK t : t = Retransmit(m, MaxRetransmits)
    BY Zenon
  <2>10. IsResend(t) /\ t.message = m
    BY <2>9, RetransmitFacts, Zenon
  <2>11. PICK a2 : a2 = [a EXCEPT !.retransmit = t, !.ike = i, !.phase = "AuthSent",
                                  !.state = "Connecting"]
    BY Zenon
  <2>12. /\ IsRunner(a2) /\ a2.gen = a.gen /\ a2.started = a.started
         /\ a2.phase = "AuthSent" /\ a2.ike = i /\ a2.retransmit = t
         /\ a2.pending_rekey = a.pending_rekey
    BY <1>1, <2>11, Zenon DEF IsRunner
  <2>13. HandleSaInitRequest(n, h, ok) = Send(ok, m, a2, a)
    BY <1>2, <1>4, <2>1, <2>5, <2>7, <2>9, <2>11, Zenon DEF HandleSaInitRequest
  <2>14. a.pending_rekey = None
    BY <1>1, <1>4, Zenon DEF Sane, Phased
  <2>15. Between(n, S) /\ Part(n, S) = a.gen /\ S[1][1] # n
    BY <1>1, <2>3, Zenon DEF Between, Part
  <2>16. "responder" # "initiator" /\ "AuthSent" # "Init" /\ "AuthSent" # "SaInitSent"
         /\ "SA_INIT" # "AUTH" /\ "SA_INIT" # "CREATE_CHILD" /\ "SA_INIT" # "INFORMATIONAL" /\ "ans" # "req"
         /\ "SA_INIT" \notin Ex
    BY DEF Ex
  <2>17. Sane(n, a2)
    <3>1. Typed(a2)
      BY <1>1, <2>8, <2>12, Zenon DEF Sane, Typed
    <3>2. ~HasChild(a2)
      BY <2>8, <2>12, Zenon DEF HasChild
    <3>3. Role(n, a2)
      BY <2>8, <2>12, <2>15, <2>16, <3>2 DEF Role
    <3>4. Phased(n, a2)
      BY <1>2, <2>8, <2>12, <2>14, <2>16, <3>2, Zenon DEF Phased
    <3>5. Resendable(n, a2, m)
      BY <2>3, <2>6, <2>8, <2>12, <2>16 DEF Resendable
    <3>6. Resends(n, a2)
      BY <2>10, <2>12, <3>5, Zenon DEF Resends
    <3> QED BY <3>1, <3>3, <3>4, <3>6, Zenon DEF Sane
  <2>18. Known(Peer(n), b, a2)
    BY <2>8, <2>12, <2>16, Zenon DEF Known
  <2>19. Pair(n, a2, b, q, qb, cr)
    BY <1>1, <1>2, <1>4, <2>8, <2>12, <2>14, <2>17, <2>18, PairBegin, Zenon
  <2>20. Fit(n, a2, b, m)
    BY <2>3, <2>6, <2>8, <2>12, <2>15, <2>16, Zenon DEF Fit, Used
  <2>21. ASSUME NEW q2, Grows(qb, m, q2) PROVE Pair(n, a2, b, q, q2, cr)
    BY <1>2, <2>6, <2>16, <2>19, <2>20, <2>21, PairSend, Zenon
  <2> QED BY <1>1, <2>6, <2>13, <2>19, <2>21, FineSend, Zenon
<1> QED BY <1>3, <1>4, Zenon

\* A random value is as new after a datagram is gone.
LEMMA SpareShrinks ==
  ASSUME NEW t, NEW a, NEW b, NEW qa, NEW qb, Spare(t, a, b, qa, qb), NEW q, Shrinks(qa, q)
  PROVE  Spare(t, a, b, q, qb)
BY Zenon DEF Spare, Shrinks

\* handle_sa_init_response: the pending request is gone; an answer to it gives
\* an IKE SA that no datagram belongs to yet, and IKE_AUTH asks for the child.
LEMMA SaInitResponseFine ==
  ASSUME NEW n, NEW a, NEW b, NEW qa, NEW qb, NEW cr, NEW h, NEW q,
         Taking(n, a, b, qa, qb, cr, h, q), NEW ok \in BOOLEAN,
         Spare(Fresh(n), a, b, qa, qb), a.phase = "SaInitSent", Kind(h) = "ans"
  PROVE  Fine(n, HandleSaInitResponse(n, h, ok), b, q, qb, cr)
<1>1. /\ Sane(n, a) /\ IsRunner(a) /\ a.ike \in IkeRuntime \cup {None} /\ a.gen \in Nat
      /\ Fit(Peer(n), b, a, h) /\ h \in Message /\ Pair(n, a, b, q, qb, cr) /\ Shrinks(qa, q)
      /\ Peer(n) \in Host /\ Peer(n) # n /\ Peer(Peer(n)) = n
  BY TakingFacts, Zenon
<1>2. n \in Host /\ a = rn[n] /\ (n \in Initiators => a.started) /\ Pair(n, a, b, qa, qb, cr)
  BY Zenon DEF Taking
<1>3. PICK r : r = [a EXCEPT !.pending_sa_init = FALSE]
  BY Zenon
<1>4. /\ IsRunner(r) /\ r.gen = a.gen /\ r.started = a.started /\ r.phase = a.phase
      /\ r.ike = a.ike /\ r.retransmit = a.retransmit /\ r.pending_rekey = a.pending_rekey
      /\ ~r.pending_sa_init
  BY <1>1, <1>3, Zenon DEF IsRunner
<1>5. CASE ~a.pending_sa_init \/ h.exchange # "SA_INIT"
  <2>1. HandleSaInitResponse(n, h, ok) = Ignore(r)
    BY <1>2, <1>3, <1>5, Zenon DEF HandleSaInitResponse
  <2>2. Mild(n, a, r)
    BY <1>4, Zenon DEF Mild
  <2>3. Pair(n, r, b, q, qb, cr)
    BY <1>1, <1>2, <2>2, PairMild, Zenon
  <2> QED BY <2>1, <2>3, FineIgnore, Zenon
<1>6. CASE a.pending_sa_init /\ h.exchange = "SA_INIT"
  <2>1. PICK S : S = <<<<n, a.gen>>, h.sa[2]>>
    BY Zenon
  <2>2. Between(Peer(n), h.sa) /\ h.sa[2][1] = Peer(n) /\ Used(Peer(n), b, h.sa)
    BY <1>1, <1>6, Zenon DEF Fit
  <2>3. h.sa[1][1] = n /\ h.sa[2] \in Token
    <3>1. h.sa[2] \in Token
      BY <2>2 DEF Between, Name
    <3> QED BY <1>1, <2>2, <3>1, Zenon DEF Between
  <2>4. S \in Name /\ S[1][1] = n /\ S[1][2] = a.gen /\ S[2] = h.sa[2]
    BY <1>1, <1>2, <2>1, <2>3 DEF Name, Token
  <2>5. Between(n, S) /\ Part(n, S) = a.gen
    BY <1>1, <2>2, <2>4, Zenon DEF Between, Part
  <2>6. Used(Peer(n), b, S)
    <3>1. Part(Peer(n), S) = Part(Peer(n), h.sa)
      BY <1>1, <2>3, <2>4, Zenon DEF Part
    <3> QED BY <2>2, <3>1, Zenon DEF Used
  <2>7. PICK t : t = Fresh(n)
    BY Zenon
  <2>8. Spare(t, a, b, q, qb) /\ t \in Token /\ t # None
    BY <1>1, <2>7, SpareShrinks, Zenon DEF Spare
  <2>9. PICK m : m = Msg("AUTH", FALSE, S, t)
    BY Zenon
  <2>10. m \in Message /\ m.exchange = "AUTH" /\ m.sa = S /\ m.token = t /\ Kind(m) = "req"
    <3>1. S \in Token \X (Token \cup {None})
      BY <2>4 DEF Name
    <3>2. m \in Message /\ m.exchange = "AUTH" /\ m.sa = S /\ m.token = t /\ ~m.response
      BY <2>8, <2>9, <3>1 DEF Msg, Message, Exchange
    <3> QED BY <3>2 DEF Kind
  <2>11. PICK i : i = NewIke("initiator", S, t)
    BY Zenon
  <2>12. /\ i \in IkeRuntime /\ i # None /\ i.role = "initiator" /\ i.sa = S
         /\ i.local_child_spi = t /\ i.child = None
    <3>1. "initiator" \in {"initiator", "responder"} /\ t \in Token \cup {None}
      BY <2>8
    <3> QED BY <2>4, <2>11, <3>1, NewIkeFacts
  <2>13. PICK r1 : r1 = [r EXCEPT !.retransmit = None, !.ike = i]
    BY Zenon
  <2>14. /\ IsRunner(r1) /\ r1.gen = a.gen /\ r1.started = a.started /\ r1.phase = "SaInitSent"
         /\ r1.ike = i /\ r1.retransmit = None /\ r1.pending_rekey = a.pending_rekey
         /\ ~r1.pending_sa_init
    BY <1>4, <2>13, Zenon DEF IsRunner
  <2>15. PICK w : w = Retransmit(m, MaxRetransmits)
    BY Zenon
  <2>16. IsResend(w) /\ w.message = m
    BY <2>15, RetransmitFacts, Zenon
  <2>17. PICK a2 : a2 = [r1 EXCEPT !.retransmit = w, !.phase = "AuthSent"]
    BY Zenon
  <2>18. /\ IsRunner(a2) /\ a2.gen = a.gen /\ a2.started = a.started /\ a2.phase = "AuthSent"
         /\ a2.ike = i /\ a2.retransmit = w /\ a2.pending_rekey = a.pending_rekey
    BY <2>14, <2>17, Zenon DEF IsRunner
  <2>19. HandleSaInitResponse(n, h, ok) = Send(ok, m, a2, r1)
    <3>1. HandleSaInitResponse(n, h, ok) = SendAuth(r1, ok)
      BY <1>2, <1>3, <1>4, <1>6, <2>1, <2>7, <2>11, <2>13, Zenon DEF HandleSaInitResponse
    <3>2. r1.ike.sa = S /\ r1.ike.local_child_spi = t
      BY <2>12, <2>14, Zenon
    <3> QED BY <2>9, <2>15, <2>17, <3>1, <3>2, Zenon DEF SendAuth
  <2>20. a.ike = None /\ a.pending_rekey = None
    BY <1>1, <1>6, Zenon DEF Sane, Phased
  <2>21. "AuthSent" # "Init" /\ "AuthSent" # "SaInitSent" /\ "SaInitSent" # "Init"
         /\ "AUTH" # "SA_INIT" /\ "AUTH" # "CREATE_CHILD" /\ "AUTH" # "INFORMATIONAL"
         /\ "ans" # "req" /\ "SaInitSent" \notin {"AuthSent", "Established", "Closed"}
         /\ "AUTH" \in Ex /\ "CREATE_CHILD" \in Ex
    BY DEF Ex
  <2>22. ASSUME NEW c, c = r1 \/ c = a2 PROVE Pair(n, c, b, q, qb, cr)
                /\ \A x \in Ex : \A v : Absent(q, x, v, c.ike.sa) /\ Absent(qb, x, v, c.ike.sa)
    <3>1. /\ IsRunner(c) /\ c.gen = a.gen /\ c.started = a.started
          /\ c.ike = i /\ c.pending_rekey = None
          /\ (c.phase = "SaInitSent" /\ ~c.pending_sa_init) \/ c.phase = "AuthSent"
      BY <2>14, <2>18, <2>20, <2>22, Zenon
    <3>2. Typed(c) /\ ~HasChild(c)
      BY <1>1, <2>12, <3>1, Zenon DEF Typed, HasChild
    <3>3. Role(n, c)
      BY <2>4, <2>5, <2>12, <3>1, <3>2 DEF Role
    <3>4. Phased(n, c)
      BY <1>2, <2>12, <2>21, <3>1, <3>2, Zenon DEF Phased
    <3>5. c = a2 => Resendable(n, c, m)
      BY <2>8, <2>10, <2>12, <2>18, <2>21, Zenon DEF Resendable
    <3>6. Resends(n, c)
      BY <2>14, <2>16, <2>18, <2>22, <3>5, Zenon DEF Resends
    <3>7. Sane(n, c)
      BY <3>2, <3>3, <3>4, <3>6, Zenon DEF Sane
    <3>8. Known(Peer(n), b, c)
      BY <2>6, <2>12, <3>1, Zenon DEF Known
    <3>9. c.ike # None /\ c.ike.child = None /\ Spare(c.ike.local_child_spi, a, b, q, qb)
      BY <2>8, <2>12, <3>1, Zenon
    <3> QED BY <1>1, <1>2, <2>20, <3>1, <3>7, <3>8, <3>9, PairBegin, Zenon
  <2>23. Pair(n, r1, b, q, qb, cr) /\ Pair(n, a2, b, q, qb, cr)
    BY <2>22, Zenon
  <2>24. \A x \in Ex : \A v : Absent(q, x, v, S) /\ Absent(qb, x, v, S)
    BY <2>12, <2>18, <2>22, Zenon
  <2>25. ASSUME NEW q2, Grows(qb, m, q2) PROVE Pair(n, a2, b, q, q2, cr)
    <3>1. a2.ike # None /\ a2.ike.sa = S /\ Spi(a2, "AUTH") = t /\ ~HasChild(a2)
      BY <2>12, <2>18, Zenon DEF Spi, HasChild
    <3>2. Asks(a2, m, "AUTH", q, qb)
      BY <2>8, <2>10, <2>21, <2>24, <3>1, Zenon DEF Asks, Of
    <3>3. Used(n, a2, S)
      BY <2>5, <2>12, <2>18, Zenon DEF Used
    <3>4. Fit(n, a2, b, m)
      BY <2>4, <2>5, <2>6, <2>8, <2>10, <2>21, <3>3, Zenon DEF Fit
    <3> QED BY <1>2, <2>21, <2>23, <2>24, <2>25, <3>1, <3>2, <3>4, PairAsk, Zenon
  <2> QED BY <2>10, <2>19, <2>23, <2>25, FineSend, Zenon
<1> QED BY <1>5, <1>6, Zenon

\* A request for a child under our IKE SA: a new child, and the answer.
LEMMA RespondFine ==
  ASSUME NEW n, NEW a, NEW b, NEW qa, NEW qb, NEW cr, NEW h, NEW q,
         Taking(n, a, b, qa, qb, cr, h, q), NEW ok \in BOOLEAN,
         NEW t, Spare(t, a, b, qa, qb), NEW x \in Ex, a.ike # None, Of(h, x, "req", a.ike.sa),
         NEW r, Mild(n, a, r), r.ike = a.ike, r.started = a.started,
         NEW m \in Message, Of(m, x, "ans", h.sa), m.token = t,
         NEW ni, ni = (IF x = "AUTH" THEN None ELSE h.token),
         NEW nr, nr = (IF x = "AUTH" THEN None ELSE t),
         NEW c, c = DeriveChildKeys(r, ni, nr, t, h.token)
  PROVE  Fine(n, Send(ok, m, InstallChild(r, c), r), b, q, qb, cr)
<1>1. /\ Sane(n, a) /\ IsRunner(a) /\ a.ike \in IkeRuntime
      /\ Fit(Peer(n), b, a, h) /\ h \in Message /\ Shrinks(qa, q) /\ n \in Host
      /\ Pair(n, a, b, qa, qb, cr) /\ Takes(qa, h, q)
  BY TakingFacts, Zenon DEF Taking
<1>2. IsRunner(r) /\ r.gen = a.gen /\ r.pending_rekey = a.pending_rekey
  BY Zenon DEF Mild
<1>3. Pair(n, r, b, q, qb, cr)
  BY <1>1, PairMild, Zenon
<1>4. h.token \in Token /\ t \in Token /\ h.token # None
  <2>1. h.token # None
    BY <1>1, Zenon DEF Fit, Of
  <2>2. h.token \in Token \cup {None}
    BY <1>1 DEF Message
  <2> QED BY <2>1, <2>2, Zenon DEF Spare
<1>5. /\ c \in ChildRuntime /\ c.seed = Seed(a.ike.sa, x, h.token, t) /\ c.seed.sa = a.ike.sa
      /\ c.outbound = a.ike.role /\ c.local_spi = t /\ c.remote_spi = h.token
  BY <1>1, <1>4, ChildKeys, SMTT(120)
<1>6. a.phase # "Init"
  BY <1>1, Zenon DEF Sane, Phased
<1>7. PICK a2 : a2 = InstallChild(r, c)
  BY Zenon
<1>8. /\ Sane(n, a2) /\ a2.gen = a.gen /\ a2.phase # "AuthSent"
      /\ a2.pending_rekey = a.pending_rekey
      /\ Installs(a, a2, t, h.token, Seed(a.ike.sa, x, h.token, t))
  BY <1>1, <1>2, <1>5, <1>6, <1>7, InstallSane, SMTT(120)
<1>9. Responds(a, a2, b, x, h, t, qa, qb)
  BY <1>4, <1>8, Zenon DEF Responds
<1>10. /\ Pair(n, a2, b, q, qb, cr)
       /\ \A q2 : Grows(qb, m, q2) => Pair(n, a2, b, q, q2, cr)
  BY <1>1, <1>8, <1>9, PairRespond, Zenon
<1> QED BY <1>3, <1>7, <1>10, FineSend, Zenon

\* handle_auth_request.
LEMMA AuthRequestFine ==
  ASSUME NEW n, NEW a, NEW b, NEW qa, NEW qb, NEW cr, NEW h, NEW q,
         Taking(n, a, b, qa, qb, cr, h, q), NEW ok \in BOOLEAN,
         Spare(Fresh(n), a, b, qa, qb), h.exchange = "AUTH", Kind(h) = "req"
  PROVE  Fine(n, HandleAuthRequest(n, h, ok), b, q, qb, cr)
<1>1. /\ Sane(n, a) /\ IsRunner(a) /\ a.ike \in IkeRuntime \cup {None}
      /\ h \in Message /\ Shrinks(qa, q)
  BY TakingFacts, Zenon
<1>2. n \in Host /\ a = rn[n] /\ Pair(n, a, b, qa, qb, cr)
  BY Zenon DEF Taking
<1>3. PICK r : r = [a EXCEPT !.retransmit = None]
  BY Zenon
<1>4. /\ IsRunner(r) /\ r.gen = a.gen /\ r.started = a.started /\ r.phase = a.phase
      /\ r.ike = a.ike /\ r.retransmit = None /\ r.pending_rekey = a.pending_rekey
      /\ r.pending_sa_init = a.pending_sa_init
  BY <1>1, <1>3, Zenon DEF IsRunner
<1>5. Mild(n, a, r)
  BY <1>4, Zenon DEF Mild
<1>6. CASE ~Opens(r, h)
  <2>1. HandleAuthRequest(n, h, ok) = Ignore(r)
    BY <1>2, <1>3, <1>6, Zenon DEF HandleAuthRequest
  <2>2. Pair(n, r, b, q, qb, cr)
    BY <1>1, <1>2, <1>5, PairMild, Zenon
  <2> QED BY <2>1, <2>2, FineIgnore, Zenon
<1>7. CASE Opens(r, h)
  <2>1. PICK t : t = Fresh(n)
    BY Zenon
  <2>2. PICK m : m = Msg("AUTH", TRUE, h.sa, t)
    BY Zenon
  <2>3. m \in Message /\ Of(m, "AUTH", "ans", h.sa) /\ m.token = t
    <3>1. t \in Token
      BY <2>1, Zenon DEF Spare
    <3>2. m \in Message /\ m.exchange = "AUTH" /\ m.sa = h.sa /\ m.token = t /\ m.response
      BY <1>1, <2>2, <3>1 DEF Msg, Message, Exchange
    <3> QED BY <3>2 DEF Kind, Of
  <2>4. a.ike # None /\ Of(h, "AUTH", "req", a.ike.sa)
    BY <1>4, <1>7, Zenon DEF Opens, Of
  <2>5. PICK c : c = DeriveChildKeys(r, None, None, t, h.token)
    BY Zenon
  <2>6. HandleAuthRequest(n, h, ok) = Send(ok, m, InstallChild(r, c), r)
    BY <1>2, <1>3, <1>7, <2>1, <2>2, <2>5, Zenon DEF HandleAuthRequest
  <2>7. PICK x \in Ex : x = "AUTH"
    BY DEF Ex
  <2>8. None = (IF x = "AUTH" THEN None ELSE h.token) /\ None = (IF x = "AUTH" THEN None ELSE t)
    BY <2>7, Zenon
  <2>9. /\ Spare(t, a, b, qa, qb) /\ Of(h, x, "req", a.ike.sa) /\ Of(m, x, "ans", h.sa)
        /\ r.ike = a.ike /\ r.started = a.started
    BY <1>4, <2>1, <2>3, <2>4, <2>7, Zenon
  <2>10. Fine(n, Send(ok, m, InstallChild(r, c), r), b, q, qb, cr)
    BY <1>5, <2>3, <2>4, <2>5, <2>8, <2>9, RespondFine, ZenonT(40)
  <2> QED BY <2>6, <2>10, Zenon
<1> QED BY <1>6, <1>7, Zenon

\* handle_create_child_request, in whatever phase.
LEMMA CreateChildRequestFine ==
  ASSUME NEW n, NEW a, NEW b, NEW qa, NEW qb, NEW cr, NEW h, NEW q,
         Taking(n, a, b, qa, qb, cr, h, q), NEW ok \in BOOLEAN,
         Spare(Fresh(n), a, b, qa, qb), h.exchange = "CREATE_CHILD", Kind(h) = "req"
  PROVE  Fine(n, HandleCreateChildRequest(n, h, ok), b, q, qb, cr)
<1>1. /\ Sane(n, a) /\ IsRunner(a) /\ h \in Message /\ Pair(n, a, b, q, qb, cr)
  BY TakingFacts, Zenon
<1>2. n \in Host /\ a = rn[n]
  BY Zenon DEF Taking
<1>3. CASE ~Opens(a, h)
  <2>1. HandleCreateChildRequest(n, h, ok) = Ignore(a)
    BY <1>2, <1>3, Zenon DEF HandleCreateChildRequest
  <2> QED BY <1>1, <2>1, FineIgnore, Zenon
<1>4. CASE Opens(a, h)
  <2>1. PICK t : t = Fresh(n)
    BY Zenon
  <2>2. PICK m : m = Msg("CREATE_CHILD", TRUE, h.sa, t)
    BY Zenon
  <2>3. m \in Message /\ Of(m, "CREATE_CHILD", "ans", h.sa) /\ m.token = t
    <3>1. t \in Token
      BY <2>1, Zenon DEF Spare
    <3>2. m \in Message /\ m.exchange = "CREATE_CHILD" /\ m.sa = h.sa /\ m.token = t /\ m.response
      BY <1>1, <2>2, <3>1 DEF Msg, Message, Exchange
    <3> QED BY <3>2 DEF Kind, Of
  <2>4. a.ike # None /\ Of(h, "CREATE_CHILD", "req", a.ike.sa)
    BY <1>4, Zenon DEF Opens, Of
  <2>5. PICK c : c = DeriveChildKeys(a, h.token, t, t, h.token)
    BY Zenon
  <2>6. HandleCreateChildRequest(n, h, ok) = Send(ok, m, InstallChild(a, c), a)
    BY <1>2, <1>4, <2>1, <2>2, <2>5, Zenon DEF HandleCreateChildRequest
  <2>7. PICK x \in Ex : x = "CREATE_CHILD"
    BY DEF Ex
  <2>8. h.token = (IF x = "AUTH" THEN None ELSE h.token) /\ t = (IF x = "AUTH" THEN None ELSE t)
    BY <2>7
  <2>9. Spare(t, a, b, qa, qb) /\ Of(h, x, "req", a.ike.sa) /\ Of(m, x, "ans", h.sa)
    BY <2>1, <2>3, <2>4, <2>7, Zenon
  <2>10. Mild(n, a, a)
    BY <1>1, Zenon DEF Mild
  <2>11. Fine(n, Send(ok, m, InstallChild(a, c), a), b, q, qb, cr)
    BY <2>3, <2>4, <2>5, <2>8, <2>9, <2>10, RespondFine, ZenonT(40)
  <2> QED BY <2>6, <2>11, Zenon
<1> QED BY <1>3, <1>4, Zenon

\* The answer to our request: the child that we asked for.
LEMMA ConcludeFine ==
  ASSUME NEW n, NEW a, NEW b, NEW qa, NEW qb, NEW cr, NEW h, NEW q,
         Taking(n, a, b, qa, qb, cr, h, q),
         NEW x \in Ex, a.ike # None, Of(h, x, "ans", a.ike.sa), x = "AUTH" => a.phase = "AuthSent",
         NEW r, r.ike = a.ike, NEW r1, IsRunner(r1), r1.ike = a.ike, r1.gen = a.gen,
         r1.started = a.started,
         x = "AUTH" => r1.pending_rekey = a.pending_rekey,
         x = "CREATE_CHILD" => r1.pending_rekey = None,
         NEW s, s = Spi(a, x),
         NEW ni, ni = (IF x = "AUTH" THEN None ELSE s),
         NEW nr, nr = (IF x = "AUTH" THEN None ELSE h.token),
         NEW c, c = DeriveChildKeys(r, ni, nr, s, h.token)
  PROVE  Fine(n, Ignore(InstallChild(r1, c)), b, q, qb, cr)
<1>1. /\ Sane(n, a) /\ IsRunner(a) /\ a.ike \in IkeRuntime
      /\ Fit(Peer(n), b, a, h) /\ h \in Message /\ n \in Host
      /\ Pair(n, a, b, qa, qb, cr) /\ Takes(qa, h, q) /\ h \in Wire(qa)
  BY TakingFacts, Zenon DEF Taking
<1>2. h.token \in Token /\ s \in Token
  <2>1. h.token # None
    BY <1>1, Zenon DEF Fit, Of
  <2>2. h.token \in Token \cup {None}
    BY <1>1 DEF Message
  <2>3. s # None
    BY <1>1, Zenon DEF Pair, Whole, Half, Open, OpenX, Absent
  <2>4. s \in Token \cup {None}
    <3>1. a.ike.local_child_spi \in Token \cup {None} /\ a.pending_rekey \in Token \cup {None}
      BY <1>1 DEF Sane, Typed, IkeRuntime
    <3> QED BY <3>1, Zenon DEF Spi
  <2> QED BY <2>1, <2>2, <2>3, <2>4, Zenon
<1>3. /\ c \in ChildRuntime /\ c.seed = Seed(a.ike.sa, x, s, h.token) /\ c.seed.sa = a.ike.sa
      /\ c.outbound = a.ike.role /\ c.local_spi = s /\ c.remote_spi = h.token
  BY <1>1, <1>2, ChildKeys, SMTT(120)
<1>4. a.phase # "Init" /\ (r1.pending_rekey = a.pending_rekey \/ r1.pending_rekey = None)
  BY <1>1, ExIs, Zenon DEF Sane, Phased
<1>5. PICK a2 : a2 = InstallChild(r1, c)
  BY Zenon
<1>6. /\ Sane(n, a2) /\ a2.gen = a.gen /\ a2.phase # "AuthSent"
      /\ a2.pending_rekey = r1.pending_rekey
      /\ Installs(a, a2, s, h.token, Seed(a.ike.sa, x, s, h.token))
  BY <1>1, <1>3, <1>4, <1>5, InstallSane, SMTT(120)
<1>7. Concludes(a, a2, x, h)
  BY <1>6, Zenon DEF Concludes
<1>8. Pair(n, a2, b, q, qb, cr)
  BY <1>1, <1>6, <1>7, PairConclude, Zenon
<1> QED BY <1>5, <1>8, FineIgnore, Zenon

\* handle_auth_response.
LEMMA AuthResponseFine ==
  ASSUME NEW n, NEW a, NEW b, NEW qa, NEW qb, NEW cr, NEW h, NEW q,
         Taking(n, a, b, qa, qb, cr, h, q), a.phase = "AuthSent", Kind(h) = "ans"
  PROVE  Fine(n, HandleAuthResponse(n, h), b, q, qb, cr)
<1>1. Sane(n, a) /\ IsRunner(a) /\ Shrinks(qa, q)
  BY TakingFacts, Zenon
<1>2. n \in Host /\ a = rn[n] /\ Pair(n, a, b, qa, qb, cr)
  BY Zenon DEF Taking
<1>3. PICK r : r = [a EXCEPT !.retransmit = None]
  BY Zenon
<1>4. /\ IsRunner(r) /\ r.gen = a.gen /\ r.started = a.started /\ r.phase = a.phase
      /\ r.ike = a.ike /\ r.retransmit = None /\ r.pending_rekey = a.pending_rekey
      /\ r.pending_sa_init = a.pending_sa_init
  BY <1>1, <1>3, Zenon DEF IsRunner
<1>5. CASE ~Opens(r, h) \/ h.exchange # "AUTH"
  <2>1. HandleAuthResponse(n, h) = Ignore(r)
    BY <1>2, <1>3, <1>5, Zenon DEF HandleAuthResponse
  <2>2. Mild(n, a, r)
    BY <1>4, Zenon DEF Mild
  <2>3. Pair(n, r, b, q, qb, cr)
    BY <1>1, <1>2, <2>2, PairMild, Zenon
  <2> QED BY <2>1, <2>3, FineIgnore, Zenon
<1>6. CASE Opens(r, h) /\ h.exchange = "AUTH"
  <2>1. PICK s : s = r.ike.local_child_spi
    BY Zenon
  <2>2. PICK c : c = DeriveChildKeys(r, None, None, s, h.token)
    BY Zenon
  <2>3. HandleAuthResponse(n, h) = Ignore(InstallChild(r, c))
    BY <1>2, <1>3, <1>6, <2>1, <2>2, Zenon DEF HandleAuthResponse
  <2>4. PICK x \in Ex : x = "AUTH"
    BY DEF Ex
  <2>5. a.ike # None /\ Of(h, x, "ans", a.ike.sa) /\ s = Spi(a, x)
    BY <1>4, <1>6, <2>1, <2>4, Zenon DEF Opens, Of, Spi
  <2>6. /\ None = (IF x = "AUTH" THEN None ELSE s) /\ None = (IF x = "AUTH" THEN None ELSE h.token)
        /\ x # "CREATE_CHILD"
    BY <2>4
  <2>7. Fine(n, Ignore(InstallChild(r, c)), b, q, qb, cr)
    BY <1>4, <2>2, <2>5, <2>6, ConcludeFine, ZenonT(40)
  <2> QED BY <2>3, <2>7, Zenon
<1> QED BY <1>5, <1>6, Zenon

\* handle_create_child_response.
LEMMA CreateChildResponseFine ==
  ASSUME NEW n, NEW a, NEW b, NEW qa, NEW qb, NEW cr, NEW h, NEW q,
         Taking(n, a, b, qa, qb, cr, h, q), h.exchange = "CREATE_CHILD", Kind(h) = "ans"
  PROVE  Fine(n, HandleCreateChildResponse(n, h), b, q, qb, cr)
<1>1. Sane(n, a) /\ IsRunner(a) /\ Shrinks(qa, q)
  BY TakingFacts, Zenon
<1>2. n \in Host /\ a = rn[n] /\ Pair(n, a, b, qa, qb, cr)
  BY Zenon DEF Taking
<1>3. PICK r : r = [a EXCEPT !.retransmit = None]
  BY Zenon
<1>4. /\ IsRunner(r) /\ r.gen = a.gen /\ r.started = a.started /\ r.phase = a.phase
      /\ r.ike = a.ike /\ r.retransmit = None /\ r.pending_rekey = a.pending_rekey
      /\ r.pending_sa_init = a.pending_sa_init
  BY <1>1, <1>3, Zenon DEF IsRunner
<1>5. PICK s : s = r.pending_rekey
  BY Zenon
<1>6. CASE ~Opens(r, h) \/ s = None
  <2>1. HandleCreateChildResponse(n, h) = Ignore(r)
    BY <1>2, <1>3, <1>5, <1>6, Zenon DEF HandleCreateChildResponse
  <2>2. Mild(n, a, r)
    BY <1>4, Zenon DEF Mild
  <2>3. Pair(n, r, b, q, qb, cr)
    BY <1>1, <1>2, <2>2, PairMild, Zenon
  <2> QED BY <2>1, <2>3, FineIgnore, Zenon
<1>7. CASE Opens(r, h) /\ s # None
  <2>1. PICK r1 : r1 = [r EXCEPT !.pending_rekey = None]
    BY Zenon
  <2>2. /\ IsRunner(r1) /\ r1.ike = a.ike /\ r1.gen = a.gen /\ r1.started = a.started
        /\ r1.pending_rekey = None
    BY <1>4, <2>1, Zenon DEF IsRunner
  <2>3. PICK c : c = DeriveChildKeys(r, s, h.token, s, h.token)
    BY Zenon
  <2>4. HandleCreateChildResponse(n, h) = Ignore(InstallChild(r1, c))
    BY <1>2, <1>3, <1>5, <1>7, <2>1, <2>3, Zenon DEF HandleCreateChildResponse
  <2>5. PICK x \in Ex : x = "CREATE_CHILD"
    BY DEF Ex
  <2>6. x # "AUTH"
    BY <2>5
  <2>7. a.ike # None /\ Of(h, x, "ans", a.ike.sa) /\ s = Spi(a, x)
    BY <1>4, <1>5, <1>7, <2>5, <2>6, Zenon DEF Opens, Of, Spi
  <2>8. s = (IF x = "AUTH" THEN None ELSE s) /\ h.token = (IF x = "AUTH" THEN None ELSE h.token)
    BY <2>6, Zenon
  <2>9. Fine(n, Ignore(InstallChild(r1, c)), b, q, qb, cr)
    BY <1>4, <2>2, <2>3, <2>6, <2>7, <2>8, ConcludeFine, ZenonT(40)
  <2> QED BY <2>4, <2>9, Zenon
<1> QED BY <1>6, <1>7, Zenon

\* handle_informational_request: a Delete takes our child away.
LEMMA InformationalRequestFine ==
  ASSUME NEW n, NEW a, NEW b, NEW qa, NEW qb, NEW cr, NEW h, NEW q,
         Taking(n, a, b, qa, qb, cr, h, q), NEW ok \in BOOLEAN,
         h.exchange = "INFORMATIONAL"
  PROVE  Fine(n, HandleInformationalRequest(n, h, ok), b, q, qb, cr)
<1>1. /\ Sane(n, a) /\ IsRunner(a) /\ a.ike \in IkeRuntime \cup {None} /\ a.gen \in Nat
      /\ Fit(Peer(n), b, a, h) /\ h \in Message /\ Shrinks(qa, q) /\ Pair(n, a, b, q, qb, cr)
      /\ Peer(n) \in Host /\ Peer(n) # n /\ Peer(Peer(n)) = n
  BY TakingFacts, Zenon
<1>2. n \in Host /\ a = rn[n] /\ Pair(n, a, b, qa, qb, cr)
  BY Zenon DEF Taking
<1>3. CASE ~Opens(a, h)
  <2>1. HandleInformationalRequest(n, h, ok) = Ignore(a)
    BY <1>2, <1>3, Zenon DEF HandleInformationalRequest
  <2> QED BY <1>1, <2>1, FineIgnore, Zenon
<1>4. CASE Opens(a, h)
  <2>1. PICK d : d = (h.token # None /\ Child(n) # None /\ Child(n).remote_spi = h.token)
    BY Zenon
  <2>2. PICK a2 : a2 = IF d THEN RemoveChild(a) ELSE a
    BY Zenon
  <2>3. PICK t : t = IF d THEN Child(n).local_spi ELSE None
    BY Zenon
  <2>4. PICK m : m = Msg("INFORMATIONAL", TRUE, h.sa, t)
    BY Zenon
  <2>5. HandleInformationalRequest(n, h, ok) = Send(ok, m, a2, a2)
    BY <1>2, <1>4, <2>1, <2>2, <2>3, <2>4, Zenon DEF HandleInformationalRequest
  <2>6. t \in Token \cup {None}
    <3>1. a.ike \in IkeRuntime /\ Child(n) = a.ike.child
      BY <1>1, <1>2, <1>4, Zenon DEF Opens, Child
    <3>2. a.ike.child \in ChildRuntime \cup {None}
      BY <3>1 DEF IkeRuntime
    <3>3. Child(n) # None => Child(n).local_spi \in Token
      BY <3>1, <3>2 DEF ChildRuntime
    <3> QED BY <2>1, <2>3, <3>3, Zenon
  <2>7. m \in Message /\ m.exchange = "INFORMATIONAL" /\ m.sa = h.sa /\ Kind(m) = "ans"
    <3>1. m \in Message /\ m.exchange = "INFORMATIONAL" /\ m.sa = h.sa /\ m.response
      BY <1>1, <2>4, <2>6 DEF Msg, Message, Exchange
    <3> QED BY <3>1 DEF Kind
  <2>8. Mild(n, a, a2)
    <3>1. Mild(n, a, a)
      BY <1>1, Zenon DEF Mild
    <3>2. PICK r2 : r2 = RemoveChild(a)
      BY Zenon
    <3>3. /\ r2 = [a EXCEPT !.ike = r2.ike] /\ IsRunner(r2)
          /\ \/ r2.ike = a.ike
             \/ /\ a.ike # None /\ r2.ike \in IkeRuntime /\ r2.ike.role = a.ike.role
                /\ r2.ike.sa = a.ike.sa /\ r2.ike.local_child_spi = a.ike.local_child_spi
                /\ r2.ike.child = None
      BY <1>1, <3>2, RemoveChildFacts, ZenonT(40)
    <3>4. /\ r2.gen = a.gen /\ r2.started = a.started /\ r2.phase = a.phase
          /\ r2.retransmit = a.retransmit /\ r2.pending_rekey = a.pending_rekey
          /\ r2.pending_sa_init = a.pending_sa_init
      BY <1>1, <3>3, Zenon DEF IsRunner
    <3>5. Mild(n, a, r2)
      BY <3>3, <3>4, Zenon DEF Mild
    <3> QED BY <2>2, <3>1, <3>2, <3>5, Zenon
  <2>9. Pair(n, a2, b, q, qb, cr)
    BY <1>1, <1>2, <2>8, PairMild, Zenon
  <2>10. Fit(n, a2, b, m)
    <3>1. "INFORMATIONAL" # "SA_INIT" /\ "INFORMATIONAL" # "AUTH" /\ "INFORMATIONAL" \notin Ex
      BY DEF Ex
    <3>2. Between(Peer(n), h.sa) /\ Used(Peer(n), b, h.sa) /\ Used(n, a, h.sa)
      BY <1>1, <3>1, Zenon DEF Fit
    <3>3. Between(n, h.sa) /\ Ages(a, a2)
      BY <1>1, <2>8, <3>2, MildSane, Zenon DEF Between
    <3>4. Used(n, a2, h.sa)
      BY <1>1, <1>2, <3>2, <3>3, UsedAges, Zenon
    <3> QED BY <2>7, <3>1, <3>2, <3>3, <3>4, Zenon DEF Fit
  <2>11. m.exchange \notin Ex
    BY <2>7 DEF Ex
  <2>12. ASSUME NEW q2, Grows(qb, m, q2) PROVE Pair(n, a2, b, q, q2, cr)
    BY <1>2, <2>9, <2>10, <2>11, <2>12, PairSend, Zenon
  <2> QED BY <2>5, <2>7, <2>9, <2>12, FineSend, Zenon
<1> QED BY <1>3, <1>4, Zenon

\* handle_datagram.
LEMMA DatagramFine ==
  ASSUME NEW n, NEW a, NEW b, NEW qa, NEW qb, NEW cr, NEW h, NEW q,
         Taking(n, a, b, qa, qb, cr, h, q), NEW ok \in BOOLEAN,
         Spare(Fresh(n), a, b, qa, qb)
  PROVE  Fine(n, HandleDatagram(n, h, ok), b, q, qb, cr)
<1>1. /\ Sane(n, a) /\ IsRunner(a) /\ h \in Message /\ Shrinks(qa, q) /\ Pair(n, a, b, q, qb, cr)
  BY TakingFacts, Zenon
<1>2. n \in Host /\ a = rn[n] /\ Pair(n, a, b, qa, qb, cr)
  BY Zenon DEF Taking
<1>3. h.exchange \in {"SA_INIT", "AUTH", "CREATE_CHILD", "INFORMATIONAL"}
  BY <1>1 DEF Message, Exchange
<1>4. CASE h.response
  <2>1. Kind(h) = "ans"
    BY <1>4 DEF Kind
  <2>2. CASE a.phase = "SaInitSent"
    <3>1. HandleDatagram(n, h, ok) = HandleSaInitResponse(n, h, ok)
      BY <1>2, <1>4, <2>2 DEF HandleDatagram
    <3> QED BY <2>1, <2>2, <3>1, SaInitResponseFine, Zenon
  <2>3. CASE a.phase = "AuthSent"
    <3>1. HandleDatagram(n, h, ok) = HandleAuthResponse(n, h)
      BY <1>2, <1>4, <2>3 DEF HandleDatagram
    <3> QED BY <2>1, <2>3, <3>1, AuthResponseFine, Zenon
  <2>4. CASE a.phase = "Established" /\ h.exchange = "CREATE_CHILD"
    <3>1. HandleDatagram(n, h, ok) = HandleCreateChildResponse(n, h)
      BY <1>2, <1>4, <2>4 DEF HandleDatagram
    <3> QED BY <2>1, <2>4, <3>1, CreateChildResponseFine, Zenon
  <2>5. CASE a.phase = "Established" /\ h.exchange = "INFORMATIONAL"
    <3>1. HandleDatagram(n, h, ok) = HandleInformationalResponse(n)
      BY <1>2, <1>4, <2>5 DEF HandleDatagram
    <3>2. PICK r : r = [a EXCEPT !.retransmit = None, !.dpd_failures = 0, !.dpd_deadline = TRUE]
      BY Zenon
    <3>3. /\ IsRunner(r) /\ r.gen = a.gen /\ r.started = a.started /\ r.phase = a.phase
          /\ r.ike = a.ike /\ r.retransmit = None /\ r.pending_rekey = a.pending_rekey
          /\ r.pending_sa_init = a.pending_sa_init
      BY <1>1, <3>2, Zenon DEF IsRunner
    <3>4. HandleInformationalResponse(n) = Ignore(r)
      BY <1>2, <3>2, Zenon DEF HandleInformationalResponse
    <3>5. Mild(n, a, r)
      BY <3>3, Zenon DEF Mild
    <3>6. Pair(n, r, b, q, qb, cr)
      BY <1>1, <1>2, <3>5, PairMild, Zenon
    <3> QED BY <3>1, <3>4, <3>6, FineIgnore, Zenon
  <2>6. CASE /\ a.phase # "SaInitSent" /\ a.phase # "AuthSent"
             /\ ~(a.phase = "Established" /\ h.exchange = "CREATE_CHILD")
             /\ ~(a.phase = "Established" /\ h.exchange = "INFORMATIONAL")
    <3>1. HandleDatagram(n, h, ok) = Ignore(a)
      BY <1>2, <1>4, <2>6 DEF HandleDatagram
    <3> QED BY <1>1, <3>1, FineIgnore, Zenon
  <2> QED BY <2>2, <2>3, <2>4, <2>5, <2>6, Zenon
<1>5. CASE ~h.response
  <2>1. Kind(h) = "req"
    BY <1>5 DEF Kind
  <2>2. CASE h.exchange = "SA_INIT"
    <3>1. HandleDatagram(n, h, ok) = HandleSaInitRequest(n, h, ok)
      BY <1>5, <2>2 DEF HandleDatagram
    <3> QED BY <2>1, <2>2, <3>1, SaInitRequestFine, Zenon
  <2>3. CASE h.exchange = "AUTH"
    <3>1. HandleDatagram(n, h, ok) = HandleAuthRequest(n, h, ok)
      BY <1>5, <2>3 DEF HandleDatagram
    <3> QED BY <2>1, <2>3, <3>1, AuthRequestFine, Zenon
  <2>4. CASE h.exchange = "INFORMATIONAL"
    <3>1. HandleDatagram(n, h, ok) = HandleInformationalRequest(n, h, ok)
      BY <1>5, <2>4 DEF HandleDatagram
    <3> QED BY <2>4, <3>1, InformationalRequestFine, Zenon
  <2>5. CASE h.exchange = "CREATE_CHILD"
    <3>1. HandleDatagram(n, h, ok) = HandleCreateChildRequest(n, h, ok)
      BY <1>5, <2>5 DEF HandleDatagram
    <3> QED BY <2>1, <2>5, <3>1, CreateChildRequestFine, Zenon
  <2> QED BY <1>3, <2>2, <2>3, <2>4, <2>5
<1> QED BY <1>4, <1>5, Zenon

-----------------------------------------------------------------------------
(* Timers and the other steps of a Runner *)

\* Host n has the Runner a.
At(n, a, b, qa, qb, cr) == n \in Host /\ a = rn[n] /\ Pair(n, a, b, qa, qb, cr)

\* What is known of the Runner.
LEMMA AtFacts ==
  ASSUME NEW n, NEW a, NEW b, NEW qa, NEW qb, NEW cr, At(n, a, b, qa, qb, cr)
  PROVE  /\ n \in Host /\ a = rn[n] /\ Pair(n, a, b, qa, qb, cr)
         /\ Sane(n, a) /\ IsRunner(a) /\ a.ike \in IkeRuntime \cup {None} /\ a.gen \in Nat
         /\ Shrinks(qa, qa) /\ Peer(n) \in Host /\ Peer(n) # n /\ Peer(Peer(n)) = n
BY AllShrinks, PeerFacts, Zenon DEF At, Pair, Sane, Typed

\* What fits of a request that a sends under its own IKE SA.
LEMMA OwnFit ==
  ASSUME NEW n \in Host, NEW a, NEW b, Role(n, a), Known(Peer(n), b, a), a.ike # None,
         a.ike.role = "initiator" \/ a.phase # "AuthSent",
         NEW m \in Message, m.exchange # "SA_INIT", Kind(m) = "req", m.sa = a.ike.sa,
         m.exchange \in Ex => m.token # None, m.exchange = "AUTH" => a.ike.role = "initiator"
  PROVE  Fit(n, a, b, m)
<1>1. Between(n, m.sa) /\ (m.exchange = "AUTH" => m.sa[1][1] = n)
  BY Zenon DEF Role
<1>2. Used(n, a, m.sa) /\ Used(Peer(n), b, m.sa)
  BY OwnUsed, Zenon DEF Known
<1>3. Kind(m) # "ans"
  OBVIOUS
<1> QED BY <1>1, <1>2, <1>3, Zenon DEF Fit

\* send_sa_init.
LEMMA StartFine ==
  ASSUME NEW n, NEW a, NEW b, NEW qa, NEW qb, NEW cr, At(n, a, b, qa, qb, cr),
         NEW ok \in BOOLEAN, n \in Initiators, ~a.started
  PROVE  Fine(n, SendSaInit(n, ok), b, qa, qb, cr)
<1>1. /\ n \in Host /\ a = rn[n] /\ Pair(n, a, b, qa, qb, cr)
      /\ Sane(n, a) /\ IsRunner(a) /\ a.gen \in Nat /\ Shrinks(qa, qa)
  BY AtFacts, Zenon
<1>2. a.phase = "Init" /\ a.ike = None /\ a.pending_rekey = None
  BY <1>1, Zenon DEF Sane, Phased
<1>3. PICK r : r = [a EXCEPT !.started = TRUE]
  BY Zenon
<1>4. /\ IsRunner(r) /\ r.gen = a.gen /\ r.started /\ r.phase = a.phase
      /\ r.ike = a.ike /\ r.retransmit = a.retransmit /\ r.pending_rekey = a.pending_rekey
      /\ r.pending_sa_init = a.pending_sa_init
  BY <1>1, <1>3, Zenon DEF IsRunner
<1>5. Pair(n, r, b, qa, qb, cr)
  <2>1. Mild(n, a, r)
    BY <1>4, Zenon DEF Mild
  <2> QED BY <1>1, <2>1, PairMild, Zenon
<1>6. PICK m : m = Msg("SA_INIT", FALSE, <<<<n, r.gen>>, None>>, None)
  BY Zenon
<1>7. m \in Message /\ m.exchange = "SA_INIT" /\ m.sa[1][1] = n /\ Kind(m) = "req"
  <2>1. PICK S : S = <<<<n, r.gen>>, None>>
    BY Zenon
  <2>2. S \in Token \X (Token \cup {None}) /\ S[1][1] = n
    BY <1>1, <1>4, <2>1 DEF Token
  <2>3. m \in Message /\ m.exchange = "SA_INIT" /\ m.sa = S /\ ~m.response
    BY <1>6, <2>1, <2>2 DEF Msg, Message, Exchange
  <2>4. Kind(m) = "req"
    BY <2>3 DEF Kind
  <2> QED BY <2>2, <2>3, <2>4, Zenon
<1>8. PICK w : w = Retransmit(m, MaxRetransmits)
  BY Zenon
<1>9. IsResend(w) /\ w.message = m
  BY <1>8, RetransmitFacts, Zenon
<1>10. PICK a2 : a2 = [r EXCEPT !.pending_sa_init = TRUE, !.phase = "SaInitSent", !.retransmit = w]
  BY Zenon
<1>11. /\ IsRunner(a2) /\ a2.gen = a.gen /\ a2.started /\ a2.phase = "SaInitSent"
       /\ a2.ike = None /\ a2.retransmit = w /\ a2.pending_rekey = None
  BY <1>2, <1>4, <1>10, Zenon DEF IsRunner
<1>12. SendSaInit(n, ok) = Send(ok, m, a2, r)
  BY <1>1, <1>3, <1>6, <1>8, <1>10, Zenon DEF SendSaInit
<1>13. "SaInitSent" # "Init" /\ "SaInitSent" # "AuthSent" /\ "req" # "ans"
       /\ "SaInitSent" \notin {"AuthSent", "Established", "Closed"} /\ "SA_INIT" \notin Ex
       /\ "SA_INIT" # "AUTH" /\ "SA_INIT" # "CREATE_CHILD" /\ "SA_INIT" # "INFORMATIONAL"
  BY DEF Ex
<1>14. Sane(n, a2)
  <2>1. Typed(a2) /\ Role(n, a2) /\ Phased(n, a2)
    BY <1>1, <1>11, <1>13, Zenon DEF Typed, Role, Phased
  <2>2. Resendable(n, a2, m)
    BY <1>7, <1>13, Zenon DEF Resendable
  <2> QED BY <1>9, <1>11, <2>1, <2>2, Zenon DEF Sane, Resends
<1>15. Ages(a, a2) /\ Fades(a, a2)
  BY <1>2, <1>11, Zenon DEF Ages, Fades
<1>16. Pair(n, a2, b, qa, qb, cr)
  BY <1>1, <1>11, <1>14, <1>15, PairFade, Zenon
<1>17. Fit(n, a2, b, m)
  BY <1>7, <1>13, Zenon DEF Fit
<1>18. ASSUME NEW q2, Grows(qb, m, q2) PROVE Pair(n, a2, b, qa, q2, cr)
  BY <1>1, <1>7, <1>13, <1>16, <1>17, <1>18, PairSend, Zenon
<1> QED BY <1>5, <1>7, <1>12, <1>16, <1>18, FineSend, Zenon

\* The peer is given up.
LEMMA PeerDeadMild ==
  ASSUME NEW n, NEW a, Sane(n, a), a.phase = "Established",
         NEW r, IsRunner(r), r.gen = a.gen, r.started = a.started, r.ike = a.ike,
         r.pending_rekey = a.pending_rekey, r.pending_sa_init = a.pending_sa_init,
         r.retransmit = a.retransmit \/ r.retransmit = None
  PROVE  Mild(n, a, PeerDead(r))
<1>1. PICK r2 : r2 = RemoveChild(r)
  BY Zenon
<1>2. r.ike \in IkeRuntime \cup {None}
  BY Zenon DEF Sane, Typed
<1>3. /\ r2 = [r EXCEPT !.ike = r2.ike] /\ IsRunner(r2)
      /\ \/ r2.ike = r.ike
         \/ /\ r.ike # None /\ r2.ike \in IkeRuntime /\ r2.ike.role = r.ike.role
            /\ r2.ike.sa = r.ike.sa /\ r2.ike.local_child_spi = r.ike.local_child_spi
            /\ r2.ike.child = None
  BY <1>1, <1>2, RemoveChildFacts
<1>4. /\ r2.gen = r.gen /\ r2.started = r.started /\ r2.retransmit = r.retransmit
      /\ r2.pending_rekey = r.pending_rekey /\ r2.pending_sa_init = r.pending_sa_init
  BY <1>3, Zenon DEF IsRunner
<1>5. PICK r3 : r3 = [r2 EXCEPT !.phase = "Closed", !.state = "Failed"]
  BY Zenon
<1>6. /\ IsRunner(r3) /\ r3.gen = r2.gen /\ r3.started = r2.started /\ r3.ike = r2.ike
      /\ r3.retransmit = r2.retransmit /\ r3.pending_rekey = r2.pending_rekey
      /\ r3.pending_sa_init = r2.pending_sa_init /\ r3.phase = "Closed"
  BY <1>3, <1>5, Zenon DEF IsRunner
<1>7. Mild(n, a, r3)
  BY <1>3, <1>4, <1>6, Zenon DEF Mild
<1> QED BY <1>1, <1>5, <1>7, Zenon DEF PeerDead

\* on_retransmit, with nothing under way.
LEMMA RetransmitFine ==
  ASSUME NEW n, NEW a, NEW b, NEW qa, NEW qb, NEW cr, At(n, a, b, qa, qb, cr),
         a.retransmit # None, qa = <<>>, qb = <<>>
  PROVE  Fine(n, OnRetransmit(n), b, qa, qb, cr)
<1>1. /\ n \in Host /\ a = rn[n] /\ Pair(n, a, b, qa, qb, cr)
      /\ Sane(n, a) /\ IsRunner(a) /\ Shrinks(qa, qa)
  BY AtFacts, Zenon
<1>2. PICK t : t = [a.retransmit EXCEPT !.attempts = @ + 1]
  BY Zenon
<1>3. PICK m : m = a.retransmit.message
  BY Zenon
<1>4. IsResend(a.retransmit) /\ Resendable(n, a, m)
  BY <1>1, <1>3, Zenon DEF Sane, Resends
<1>5. IsResend(t) /\ t.message = m
  BY <1>2, <1>3, <1>4, Zenon DEF IsResend
<1>6. CASE t.attempts < t.max
  <2>1. PICK a2 : a2 = [a EXCEPT !.retransmit = t]
    BY Zenon
  <2>2. /\ IsRunner(a2) /\ a2.gen = a.gen /\ a2.started = a.started /\ a2.phase = a.phase
        /\ a2.ike = a.ike /\ a2.retransmit = t /\ a2.pending_rekey = a.pending_rekey
        /\ a2.pending_sa_init = a.pending_sa_init
    BY <1>1, <2>1, Zenon DEF IsRunner
  <2>3. OnRetransmit(n) = Effect(a2, <<m>>)
    BY <1>1, <1>2, <1>5, <1>6, <2>1, Zenon DEF OnRetransmit
  <2>4. Resendable(n, a2, m)
    BY <1>4, <2>2, Zenon DEF Resendable
  <2>5. Mild(n, a, a2)
    BY <1>5, <2>2, <2>4, Zenon DEF Mild
  <2>6. Pair(n, a2, b, qa, qb, cr)
    BY <1>1, <2>5, PairMild, Zenon
  <2>7. m \in Message /\ Role(n, a2) /\ Known(Peer(n), b, a2) /\ Phased(n, a2) /\ Apart(a2, qa, qb)
    BY <2>4, <2>6, Zenon DEF Resendable, Pair, Sane, Names, Whole, Half
  <2>8. m.exchange \in {"SA_INIT", "AUTH", "CREATE_CHILD", "INFORMATIONAL"}
    BY <2>7 DEF Message, Exchange
  <2>9. \A x, w, S : Absent(qa, x, w, S) /\ Absent(qb, x, w, S)
    <3>1. Wire(qa) = {} /\ Wire(qb) = {}
      BY DEF Wire
    <3> QED BY <3>1, Zenon DEF Absent
  <2>10. /\ "SA_INIT" # "AUTH" /\ "SA_INIT" # "CREATE_CHILD" /\ "SA_INIT" # "INFORMATIONAL"
         /\ "AUTH" # "CREATE_CHILD" /\ "AUTH" # "INFORMATIONAL" /\ "CREATE_CHILD" # "INFORMATIONAL"
         /\ "SA_INIT" \notin Ex /\ "INFORMATIONAL" \notin Ex /\ "AUTH" \in Ex /\ "CREATE_CHILD" \in Ex
         /\ "req" # "ans"
    BY DEF Ex
  <2>11. Fit(n, a2, b, m)
    <3>1. CASE m.exchange = "SA_INIT"
      <4>1. Kind(m) = "ans" => Between(n, m.sa) /\ m.sa[2][1] = n /\ Used(n, a2, m.sa)
        BY <2>4, <2>7, <3>1, OwnUsed, Zenon DEF Resendable, Role
      <4>2. Kind(m) = "req" => m.sa[1][1] = n
        BY <2>4, <3>1, Zenon DEF Resendable
      <4> QED BY <2>7, <2>10, <3>1, <4>1, <4>2, Zenon DEF Fit
    <3>2. CASE m.exchange # "SA_INIT"
      <4>1. /\ Kind(m) = "req" /\ a2.ike # None /\ m.sa = a2.ike.sa
            /\ m.exchange = "AUTH" => a2.ike.role = "initiator"
            /\ m.exchange = "AUTH" \/ m.exchange = "CREATE_CHILD" => m.token # None
        BY <2>4, <3>2, Zenon DEF Resendable
      <4>2. a2.ike.role = "initiator" \/ a2.phase # "AuthSent"
        BY <2>4, <2>7, <2>8, <3>2 DEF Resendable, Phased
      <4>3. m.exchange \in Ex => m.token # None
        BY <4>1, ExIs, Zenon
      <4> QED BY <1>1, <2>7, <3>2, <4>1, <4>2, <4>3, OwnFit, Zenon
    <3> QED BY <3>1, <3>2, Zenon
  <2>12. ASSUME NEW q2, Grows(qb, m, q2) PROVE Pair(n, a2, b, qa, q2, cr)
    <3>1. CASE m.exchange \notin Ex
      BY <1>1, <2>6, <2>11, <2>12, <3>1, PairSend, Zenon
    <3>2. CASE m.exchange \in Ex
      <4>1. PICK x \in Ex : x = m.exchange
        BY <3>2, Zenon
      <4>2. x = "AUTH" \/ x = "CREATE_CHILD"
        BY ExIs, Zenon
      <4>3. Kind(m) = "req" /\ a2.ike # None /\ m.sa = a2.ike.sa
        BY <2>4, <2>10, <4>1, <4>2, Zenon DEF Resendable
      <4>4. m.token = Spi(a2, x) /\ m.token # None
        BY <2>4, <2>10, <4>1, <4>2, Zenon DEF Resendable, Spi
      <4>5. x = "AUTH" => ~HasChild(a2)
        BY <2>4, <2>7, <4>1, Zenon DEF Resendable, Phased
      <4>6. HasChild(a2) => a2.ike.child.local_spi # m.token
        BY <2>4, <2>7, <4>1, <4>2, <4>3, <4>5, Zenon DEF Resendable, Apart
      <4>7. Asks(a2, m, x, qa, qb)
        BY <2>9, <4>1, <4>3, <4>4, <4>6, Zenon DEF Asks, Of
      <4> QED BY <1>1, <2>6, <2>9, <2>11, <2>12, <4>5, <4>7, PairAsk, Zenon
    <3> QED BY <3>1, <3>2, Zenon
  <2> QED BY <2>3, <2>6, <2>7, <2>12, FineEffect, Zenon
<1>7. CASE ~(t.attempts < t.max)
  <2>1. PICK d : d = [a EXCEPT !.retransmit = None, !.state = "Failed"]
    BY Zenon
  <2>2. /\ IsRunner(d) /\ d.gen = a.gen /\ d.started = a.started /\ d.phase = a.phase
        /\ d.ike = a.ike /\ d.retransmit = None /\ d.pending_rekey = a.pending_rekey
        /\ d.pending_sa_init = a.pending_sa_init
    BY <1>1, <2>1, Zenon DEF IsRunner
  <2>3. OnRetransmit(n) = Ignore(IF a.phase = "Established" THEN PeerDead(d) ELSE d)
    BY <1>1, <1>2, <1>7, <2>1, Zenon DEF OnRetransmit
  <2>4. Mild(n, a, d)
    BY <2>2, Zenon DEF Mild
  <2>5. a.phase = "Established" => Mild(n, a, PeerDead(d))
    BY <1>1, <2>2, PeerDeadMild, Zenon
  <2>6. PICK a2 : a2 = (IF a.phase = "Established" THEN PeerDead(d) ELSE d)
    BY Zenon
  <2>7. Mild(n, a, a2)
    BY <2>4, <2>5, <2>6, Zenon
  <2>8. Pair(n, a2, b, qa, qb, cr)
    BY <1>1, <2>7, PairMild, Zenon
  <2> QED BY <2>3, <2>6, <2>8, FineIgnore, Zenon
<1> QED BY <1>6, <1>7, Zenon

\* on_dpd: the probe.
LEMMA DpdFine ==
  ASSUME NEW n, NEW a, NEW b, NEW qa, NEW qb, NEW cr, At(n, a, b, qa, qb, cr), NEW ok \in BOOLEAN
  PROVE  Fine(n, OnDpd(n, ok), b, qa, qb, cr)
<1>1. /\ n \in Host /\ a = rn[n] /\ Pair(n, a, b, qa, qb, cr)
      /\ Sane(n, a) /\ IsRunner(a) /\ a.ike \in IkeRuntime \cup {None} /\ Shrinks(qa, qa)
  BY AtFacts, Zenon
<1>2. PICK r : r = [a EXCEPT !.dpd_deadline = FALSE]
  BY Zenon
<1>3. /\ IsRunner(r) /\ r.gen = a.gen /\ r.started = a.started /\ r.phase = a.phase
      /\ r.ike = a.ike /\ r.retransmit = a.retransmit /\ r.pending_rekey = a.pending_rekey
      /\ r.pending_sa_init = a.pending_sa_init /\ r.dpd_failures = a.dpd_failures
  BY <1>1, <1>2, Zenon DEF IsRunner
<1>4. Mild(n, a, r)
  BY <1>3, Zenon DEF Mild
<1>5. Pair(n, r, b, qa, qb, cr)
  BY <1>1, <1>4, PairMild, Zenon
<1>6. CASE a.phase # "Established"
  <2>1. OnDpd(n, ok) = Ignore(r)
    BY <1>1, <1>2, <1>3, <1>6, Zenon DEF OnDpd
  <2> QED BY <1>5, <2>1, FineIgnore, Zenon
<1>7. CASE a.phase = "Established" /\ r.dpd_failures >= DpdRetries
  <2>1. OnDpd(n, ok) = Ignore(PeerDead(r))
    BY <1>1, <1>2, <1>3, <1>7, Zenon DEF OnDpd
  <2>2. Mild(n, a, PeerDead(r))
    BY <1>1, <1>3, <1>7, PeerDeadMild, Zenon
  <2>3. Pair(n, PeerDead(r), b, qa, qb, cr)
    BY <1>1, <2>2, PairMild, Zenon
  <2> QED BY <2>1, <2>3, FineIgnore, Zenon
<1>8. CASE a.phase = "Established" /\ ~(r.dpd_failures >= DpdRetries)
  <2>1. a.ike \in IkeRuntime /\ a.ike # None
    BY <1>1, <1>8, Zenon DEF Sane, Phased
  <2>2. PICK m : m = Msg("INFORMATIONAL", FALSE, r.ike.sa, None)
    BY Zenon
  <2>3. m \in Message /\ m.exchange = "INFORMATIONAL" /\ m.sa = a.ike.sa /\ Kind(m) = "req"
    <3>1. PICK S : S = a.ike.sa
      BY Zenon
    <3>2. S \in Token \X (Token \cup {None})
      BY <2>1, <3>1 DEF IkeRuntime
    <3>3. m = Msg("INFORMATIONAL", FALSE, S, None)
      BY <1>3, <2>2, <3>1, Zenon
    <3>4. m \in Message /\ m.exchange = "INFORMATIONAL" /\ m.sa = S /\ ~m.response
      BY <3>2, <3>3 DEF Msg, Message, Exchange
    <3>5. Kind(m) = "req"
      BY <3>4 DEF Kind
    <3> QED BY <3>1, <3>4, <3>5, Zenon
  <2>4. PICK w : w = Retransmit(m, DpdRetries)
    BY Zenon
  <2>5. IsResend(w) /\ w.message = m
    BY <2>4, RetransmitFacts, Zenon
  <2>6. PICK a2 : a2 = [r EXCEPT !.retransmit = w, !.dpd_failures = @ + 1, !.dpd_deadline = TRUE]
    BY Zenon
  <2>7. /\ IsRunner(a2) /\ a2.gen = a.gen /\ a2.started = a.started /\ a2.phase = a.phase
        /\ a2.ike = a.ike /\ a2.retransmit = w /\ a2.pending_rekey = a.pending_rekey
        /\ a2.pending_sa_init = a.pending_sa_init
    BY <1>3, <2>6, Zenon DEF IsRunner
  <2>8. OnDpd(n, ok) = Send(ok, m, a2, r)
    BY <1>1, <1>2, <1>3, <1>8, <2>2, <2>4, <2>6, Zenon DEF OnDpd
  <2>9. "INFORMATIONAL" # "SA_INIT" /\ "INFORMATIONAL" # "AUTH" /\ "INFORMATIONAL" \notin Ex
        /\ "INFORMATIONAL" # "CREATE_CHILD" /\ "Established" # "AuthSent" /\ "req" # "ans"
    BY DEF Ex
  <2>10. Resendable(n, a2, m)
    BY <1>8, <2>1, <2>3, <2>7, <2>9, Zenon DEF Resendable
  <2>11. Mild(n, a, a2)
    BY <2>5, <2>7, <2>10, Zenon DEF Mild
  <2>12. Pair(n, a2, b, qa, qb, cr)
    BY <1>1, <2>11, PairMild, Zenon
  <2>13. Role(n, a2) /\ Known(Peer(n), b, a2)
    BY <2>12, Zenon DEF Pair, Sane, Names
  <2>14. a2.ike # None /\ a2.phase # "AuthSent" /\ m.sa = a2.ike.sa
    BY <1>8, <2>1, <2>3, <2>7, <2>9, Zenon
  <2>15. m.exchange # "SA_INIT" /\ m.exchange \notin Ex /\ m.exchange # "AUTH"
    BY <2>3, <2>9, Zenon
  <2>16. Fit(n, a2, b, m)
    BY <1>1, <2>3, <2>13, <2>14, <2>15, OwnFit, Zenon
  <2>17. ASSUME NEW q2, Grows(qb, m, q2) PROVE Pair(n, a2, b, qa, q2, cr)
    BY <1>1, <2>12, <2>15, <2>16, <2>17, PairSend, Zenon
  <2> QED BY <1>5, <2>3, <2>8, <2>12, <2>17, FineSend, Zenon
<1> QED BY <1>6, <1>7, <1>8, Zenon

\* initiate_rekey: only a rekey that goes out is remembered, and it overlaps
\* with one of the other host that is still open.
LEMMA RekeyFine ==
  ASSUME NEW n, NEW a, NEW b, NEW qa, NEW qb, NEW cr, At(n, a, b, qa, qb, cr), NEW ok \in BOOLEAN,
         Spare(Fresh(n), a, b, qa, qb), NEW e, e = InitiateRekey(n, ok),
         NEW cr2, cr2 = (IF e.r.pending_rekey = a.pending_rekey THEN cr ELSE b.pending_rekey # None)
  PROVE  Fine(n, e, b, qa, qb, cr2)
<1>1. /\ n \in Host /\ a = rn[n] /\ Pair(n, a, b, qa, qb, cr)
      /\ Sane(n, a) /\ IsRunner(a) /\ a.ike \in IkeRuntime \cup {None} /\ Shrinks(qa, qa)
  BY AtFacts, Zenon
<1>2. PICK r : r = [a EXCEPT !.rekey_deadline = FALSE]
  BY Zenon
<1>3. /\ IsRunner(r) /\ r.gen = a.gen /\ r.started = a.started /\ r.phase = a.phase
      /\ r.ike = a.ike /\ r.retransmit = a.retransmit /\ r.pending_rekey = a.pending_rekey
      /\ r.pending_sa_init = a.pending_sa_init
  BY <1>1, <1>2, Zenon DEF IsRunner
<1>4. Mild(n, a, r)
  BY <1>3, Zenon DEF Mild
<1>5. Pair(n, r, b, qa, qb, cr)
  BY <1>1, <1>4, PairMild, Zenon
<1>6. ASSUME NEW c, c = a \/ c = r, e = Ignore(c)
      PROVE  Fine(n, e, b, qa, qb, cr2)
  <2>1. e.r = c
    BY <1>6 DEF Ignore, Effect
  <2>2. cr2 = cr
    BY <1>3, <1>6, <2>1, Zenon
  <2> QED BY <1>1, <1>5, <1>6, <2>2, FineIgnore, Zenon
<1>7. CASE a.phase # "Established"
  <2>1. e = Ignore(r)
    BY <1>1, <1>2, <1>3, <1>7 DEF InitiateRekey
  <2> QED BY <1>6, <2>1, Zenon
<1>8. CASE a.phase = "Established" /\ a.pending_rekey # None
  <2>1. e = Ignore(a)
    BY <1>1, <1>2, <1>3, <1>8 DEF InitiateRekey
  <2> QED BY <1>6, <2>1, Zenon
<1>9. CASE a.phase = "Established" /\ a.pending_rekey = None
  <2>1. a.ike \in IkeRuntime /\ a.ike # None
    BY <1>1, <1>9, Zenon DEF Sane, Phased
  <2>2. PICK t : t = Fresh(n)
    BY Zenon
  <2>3. Spare(t, a, b, qa, qb) /\ t \in Token /\ t # None
    BY <2>2, Zenon DEF Spare
  <2>4. PICK m : m = Msg("CREATE_CHILD", FALSE, r.ike.sa, t)
    BY Zenon
  <2>5. /\ m \in Message /\ m.exchange = "CREATE_CHILD" /\ m.sa = a.ike.sa /\ m.token = t
        /\ Kind(m) = "req"
    <3>1. PICK S : S = a.ike.sa
      BY Zenon
    <3>2. S \in Token \X (Token \cup {None})
      BY <2>1, <3>1 DEF IkeRuntime
    <3>3. m = Msg("CREATE_CHILD", FALSE, S, t)
      BY <1>3, <2>4, <3>1, Zenon
    <3>4. m \in Message /\ m.exchange = "CREATE_CHILD" /\ m.sa = S /\ m.token = t /\ ~m.response
      BY <2>3, <3>2, <3>3 DEF Msg, Message, Exchange
    <3>5. Kind(m) = "req"
      BY <3>4 DEF Kind
    <3> QED BY <3>1, <3>4, <3>5, Zenon
  <2>6. PICK w : w = Retransmit(m, MaxRetransmits)
    BY Zenon
  <2>7. IsResend(w) /\ w.message = m
    BY <2>6, RetransmitFacts, Zenon
  <2>8. PICK a2 : a2 = [r EXCEPT !.retransmit = w, !.pending_rekey = t, !.state = "Rekeying"]
    BY Zenon
  <2>9. /\ IsRunner(a2) /\ a2.gen = a.gen /\ a2.started = a.started /\ a2.phase = a.phase
        /\ a2.ike = a.ike /\ a2.retransmit = w /\ a2.pending_rekey = t
        /\ a2.pending_sa_init = a.pending_sa_init
    BY <1>3, <2>8, Zenon DEF IsRunner
  <2>10. e = Send(ok, m, a2, r)
    BY <1>1, <1>2, <1>3, <1>9, <2>2, <2>4, <2>6, <2>8 DEF InitiateRekey
  <2>11. CASE ~ok
    <3>1. e = Ignore(r)
      BY <2>10, <2>11, Zenon DEF Send
    <3> QED BY <1>6, <3>1, Zenon
  <2>12. CASE ok
    <3>1. e = Effect(a2, <<m>>)
      BY <2>10, <2>12, Zenon DEF Send
    <3>2. e.r = a2
      BY <3>1, SMTT(30) DEF Effect
    <3>3. cr2 = (b.pending_rekey # None)
      BY <1>9, <2>3, <2>9, <3>2, Zenon
    <3>4. "CREATE_CHILD" # "SA_INIT" /\ "CREATE_CHILD" # "AUTH" /\ "CREATE_CHILD" \in Ex
          /\ "CREATE_CHILD" # "INFORMATIONAL" /\ "Established" # "AuthSent" /\ "req" # "ans"
          /\ "Established" # "Init" /\ "Established" # "SaInitSent"
      BY DEF Ex
    <3>5. Sane(n, a2)
      <4>1. Typed(a2)
        BY <1>1, <2>3, <2>9, Zenon DEF Sane, Typed
      <4>2. Role(n, a) /\ Phased(n, a)
        BY <1>1, Zenon DEF Sane
      <4>3. Role(n, a2)
        BY <2>9, <4>2, Zenon DEF Role, HasChild
      <4>4. Phased(n, a2)
        BY <1>9, <2>1, <2>9, <3>4, <4>2, Zenon DEF Phased
      <4>5. Resendable(n, a2, m)
        BY <2>1, <2>3, <2>5, <2>9, <3>4, Zenon DEF Resendable
      <4> QED BY <2>7, <2>9, <4>1, <4>3, <4>4, <4>5, Zenon DEF Sane, Resends
    <3>6. Draws(a, a2, b, qa, qb)
      BY <1>9, <2>1, <2>3, <2>9, Zenon DEF Draws
    <3>7. /\ Pair(n, a2, b, qa, qb, cr2)
          /\ Absent(qb, "CREATE_CHILD", "req", a2.ike.sa)
          /\ Absent(qa, "CREATE_CHILD", "ans", a2.ike.sa)
      BY <1>1, <2>9, <3>3, <3>5, <3>6, PairDraw, Zenon
    <3>8. Role(n, a2) /\ Known(Peer(n), b, a2) /\ Apart(a2, qa, qb)
      BY <3>7, Zenon DEF Pair, Sane, Names, Whole, Half
    <3>9. a2.ike # None /\ a2.phase # "AuthSent" /\ m.sa = a2.ike.sa
      BY <1>9, <2>1, <2>5, <2>9, <3>4, Zenon
    <3>10. m.exchange # "SA_INIT" /\ m.exchange # "AUTH" /\ m.token # None
      BY <2>3, <2>5, <3>4, Zenon
    <3>11. Fit(n, a2, b, m)
      BY <1>1, <2>5, <3>8, <3>9, <3>10, OwnFit, Zenon
    <3>12. m.token = Spi(a2, "CREATE_CHILD") /\ (HasChild(a2) => a2.ike.child.local_spi # m.token)
      BY <2>3, <2>5, <2>9, <3>4, <3>8, <3>9, Zenon DEF Spi, Apart
    <3>13. Asks(a2, m, "CREATE_CHILD", qa, qb)
      BY <2>5, <3>4, <3>7, <3>9, <3>10, <3>12, Zenon DEF Asks, Of
    <3>14. ASSUME NEW q2, Grows(qb, m, q2) PROVE Pair(n, a2, b, qa, q2, cr2)
      BY <1>1, <3>4, <3>7, <3>11, <3>13, <3>14, PairAsk, Zenon
    <3> QED BY <2>5, <3>1, <3>7, <3>14, FineEffect, Zenon
  <2> QED BY <2>11, <2>12, Zenon
<1> QED BY <1>7, <1>8, <1>9, Zenon

\* shutdown_connection: the Delete, when there is a child to announce.
LEMMA ShutdownFine ==
  ASSUME NEW n, NEW a, NEW b, NEW qa, NEW qb, NEW cr, At(n, a, b, qa, qb, cr),
         NEW m, m = Msg("INFORMATIONAL", FALSE, a.ike.sa, Child(n).local_spi),
         NEW e, e = Effect([a EXCEPT !.up = FALSE, !.state = "Closed"],
                           IF a.phase = "Established" /\ Child(n) # None THEN <<m>> ELSE <<>>)
  PROVE  Fine(n, e, b, <<>>, qb, cr)
<1>1. /\ n \in Host /\ a = rn[n] /\ Pair(n, a, b, qa, qb, cr)
      /\ Sane(n, a) /\ IsRunner(a) /\ a.ike \in IkeRuntime \cup {None}
  BY AtFacts, Zenon
<1>2. PICK a2 : a2 = [a EXCEPT !.up = FALSE, !.state = "Closed"]
  BY Zenon
<1>3. /\ IsRunner(a2) /\ a2.gen = a.gen /\ a2.started = a.started /\ a2.phase = a.phase
      /\ a2.ike = a.ike /\ a2.retransmit = a.retransmit /\ a2.pending_rekey = a.pending_rekey
      /\ a2.pending_sa_init = a.pending_sa_init
  BY <1>1, <1>2, Zenon DEF IsRunner
<1>4. Mild(n, a, a2)
  BY <1>3, Zenon DEF Mild
<1>5. Shrinks(qa, <<>>)
  BY NoneShrinks, Zenon
<1>6. PICK q : q = <<>>
  BY Zenon
<1>7. Pair(n, a2, b, q, qb, cr)
  BY <1>1, <1>4, <1>5, <1>6, PairMild, Zenon
<1>8. CASE ~(a.phase = "Established" /\ Child(n) # None)
  <2>1. e = Ignore(a2)
    BY <1>2, <1>8, Zenon DEF Ignore
  <2> QED BY <1>6, <1>7, <2>1, FineIgnore, Zenon
<1>9. CASE a.phase = "Established" /\ Child(n) # None
  <2>1. e = Effect(a2, <<m>>)
    BY <1>2, <1>9, Zenon
  <2>2. a.ike \in IkeRuntime /\ a.ike # None
    BY <1>1, <1>9, Zenon DEF Child
  <2>3. PICK t : t = Child(n).local_spi
    BY Zenon
  <2>4. t \in Token
    <3>1. Child(n) = a.ike.child
      BY <1>1, <2>2, Zenon DEF Child
    <3>2. a.ike.child \in ChildRuntime \cup {None}
      BY <2>2 DEF IkeRuntime
    <3> QED BY <1>9, <2>3, <3>1, <3>2 DEF ChildRuntime
  <2>5. m \in Message /\ m.exchange = "INFORMATIONAL" /\ m.sa = a.ike.sa /\ Kind(m) = "req"
    <3>1. PICK S : S = a.ike.sa
      BY Zenon
    <3>2. S \in Token \X (Token \cup {None})
      BY <2>2, <3>1 DEF IkeRuntime
    <3>3. m = Msg("INFORMATIONAL", FALSE, S, t)
      BY <2>3, <3>1, Zenon
    <3>4. m \in Message /\ m.exchange = "INFORMATIONAL" /\ m.sa = S /\ ~m.response
      BY <2>4, <3>2, <3>3 DEF Msg, Message, Exchange
    <3>5. Kind(m) = "req"
      BY <3>4 DEF Kind
    <3> QED BY <3>1, <3>4, <3>5, Zenon
  <2>6. Role(n, a2) /\ Known(Peer(n), b, a2)
    BY <1>7, Zenon DEF Pair, Sane, Names
  <2>7. "INFORMATIONAL" # "SA_INIT" /\ "INFORMATIONAL" # "AUTH" /\ "INFORMATIONAL" \notin Ex
        /\ "Established" # "AuthSent"
    BY DEF Ex
  <2>8. a2.ike # None /\ a2.phase # "AuthSent" /\ m.sa = a2.ike.sa
    BY <1>3, <1>9, <2>2, <2>5, <2>7, Zenon
  <2>9. m.exchange # "SA_INIT" /\ m.exchange \notin Ex /\ m.exchange # "AUTH"
    BY <2>5, <2>7, Zenon
  <2>10. Fit(n, a2, b, m)
    BY <1>1, <2>5, <2>6, <2>8, <2>9, OwnFit, Zenon
  <2>11. ASSUME NEW q2, Grows(qb, m, q2) PROVE Pair(n, a2, b, q, q2, cr)
    BY <1>1, <1>7, <2>9, <2>10, <2>11, PairSend, Zenon
  <2>12. Fine(n, e, b, q, qb, cr)
    BY <1>7, <2>1, <2>5, <2>11, FineEffect, Zenon
  <2> QED BY <1>6, <2>12, Zenon
<1> QED BY <1>8, <1>9, Zenon

\* IpsecClient::update: a Runner that starts over.
LEMMA UpdatePair ==
  ASSUME NEW n, NEW a, NEW b, NEW qa, NEW qb, NEW cr, At(n, a, b, qa, qb, cr),
         NEW a2, a2 = NewRunner(a.gen + 1), NEW q, Shrinks(qa, q)
  PROVE  Pair(n, a2, b, q, qb, cr)
<1>1. n \in Host /\ Pair(n, a, b, qa, qb, cr) /\ a.gen \in Nat
  BY AtFacts, Zenon
<1>2. PICK g \in Nat : g = a.gen + 1
  BY <1>1
<1>3. /\ IsRunner(a2) /\ a2.gen = g /\ a2.phase = "Init" /\ a2.ike = None
      /\ a2.retransmit = None /\ a2.pending_rekey = None
  BY <1>2 DEF IsRunner, NewRunner
<1>4. Sane(n, a2)
  <2>1. "Init" # "AuthSent" /\ "Init" # "SaInitSent" /\ "Init" \notin {"AuthSent", "Established", "Closed"}
    OBVIOUS
  <2>2. Typed(a2) /\ Role(n, a2) /\ Phased(n, a2) /\ Resends(n, a2)
    BY <1>3, <2>1, Zenon DEF Typed, Role, Phased, Resends
  <2> QED BY <2>2, Zenon DEF Sane
<1>5. Ages(a, a2) /\ Fades(a, a2)
  BY <1>2, <1>3, Zenon DEF Ages, Fades
<1> QED BY <1>1, <1>3, <1>4, <1>5, PairFade, Zenon

-----------------------------------------------------------------------------
(* The invariant *)

IInv ==
    /\ rn = [h \in Host |-> rn[h]] /\ net = [h \in Host |-> net[h]]
    /\ \A n \in Host : Pair(n, rn[n], rn[Peer(n)], net[n], net[Peer(n)], crossed)

\* It is enough to see it from one of the two hosts.
LEMMA FromOneSide ==
  ASSUME NEW n \in Host, rn' = [h \in Host |-> rn'[h]], net' = [h \in Host |-> net'[h]],
         Pair(n, rn'[n], rn'[Peer(n)], net'[n], net'[Peer(n)], crossed')
  PROVE  IInv'
<1>1. Peer(n) \in Host /\ Peer(Peer(n)) = n /\ \A h \in Host : h = n \/ h = Peer(n)
  BY PeerFacts, Zenon
<1>2. Pair(Peer(n), rn'[Peer(n)], rn'[n], net'[Peer(n)], net'[n], crossed')
  BY PairSwap, Zenon
<1>3. \A h \in Host : Pair(h, rn'[h], rn'[Peer(h)], net'[h], net'[Peer(h)], crossed')
  BY <1>1, <1>2, Zenon
<1> QED BY <1>3, Zenon DEF IInv, Peer

\* A step of host n with an effect after which everything holds.
LEMMA ApplyFine ==
  ASSUME IInv, NEW n \in Host, NEW q, NEW e, Apply(n, q, e),
         Fine(n, e, rn[Peer(n)], q, net[Peer(n)], crossed')
  PROVE  IInv'
<1>1. /\ Peer(n) \in Host /\ Peer(n) # n
      /\ rn = [h \in Host |-> rn[h]] /\ net = [h \in Host |-> net[h]]
      /\ Pair(n, e.r, rn[Peer(n)], q, net[Peer(n)], crossed')
  BY PeerFacts, Zenon DEF IInv, Fine
<1>2. PICK qb2 : qb2 = IF rn[Peer(n)].up THEN net[Peer(n)] \o e.out ELSE net[Peer(n)]
  BY Zenon
<1>3. rn' = [h \in Host |-> rn'[h]] /\ rn'[n] = e.r /\ rn'[Peer(n)] = rn[Peer(n)]
  BY <1>1 DEF Apply
<1>4. net' = [h \in Host |-> net'[h]] /\ net'[n] = q /\ net'[Peer(n)] = qb2
  BY <1>1, <1>2 DEF Apply
<1>5. Pair(n, e.r, rn[Peer(n)], q, qb2, crossed')
  <2>1. net[Peer(n)] \in Seq(Message)
    BY <1>1, Zenon DEF Pair
  <2>2. CASE e.out = <<>>
    <3>1. qb2 = net[Peer(n)]
      BY <1>2, <2>1, <2>2
    <3> QED BY <1>1, <3>1, Zenon
  <2>3. ASSUME NEW m \in Message, e.out = <<m>>,
               \A q2 : Grows(net[Peer(n)], m, q2) => Pair(n, e.r, rn[Peer(n)], q, q2, crossed')
        PROVE  Pair(n, e.r, rn[Peer(n)], q, qb2, crossed')
    <3>1. Grows(net[Peer(n)], m, net[Peer(n)] \o <<m>>)
      BY <2>1, <2>3, AppendGrows, Zenon
    <3>2. qb2 = net[Peer(n)] \/ qb2 = net[Peer(n)] \o <<m>>
      BY <1>2, <2>3, Zenon
    <3> QED BY <1>1, <2>3, <3>1, <3>2, Zenon
  <2> QED BY <2>2, <2>3, Zenon DEF Fine
<1> QED BY <1>3, <1>4, <1>5, FromOneSide, Zenon

\* The first state.
LEMMA InitIInv ==
  Init => IInv
<1>1. SUFFICES ASSUME Init PROVE IInv
  OBVIOUS
<1>2. PICK r : r = NewRunner(1)
  BY Zenon
<1>3. /\ rn = [h \in Host |-> rn[h]] /\ net = [h \in Host |-> net[h]]
      /\ \A h \in Host : rn[h] = r /\ net[h] = <<>>
  BY <1>1, <1>2 DEF Init
<1>4. /\ IsRunner(r) /\ r.gen = 1 /\ r.phase = "Init" /\ r.ike = None
      /\ r.retransmit = None /\ r.pending_rekey = None
  BY <1>2, Zenon DEF IsRunner, NewRunner
<1>5. PICK q : q = <<>>
  BY Zenon
<1>6. Wire(q) = {} /\ q \in Seq(Message)
  BY <1>5 DEF Wire
<1>7. ASSUME NEW n \in Host PROVE Pair(n, r, r, q, q, crossed)
  <2>1. "Init" # "AuthSent" /\ "Init" # "SaInitSent" /\ "Init" \notin {"AuthSent", "Established", "Closed"}
        /\ 1 \in Nat
    OBVIOUS
  <2>2. \A p : Sane(p, r)
    BY <1>4, <2>1, Zenon DEF Sane, Typed, Role, Phased, Resends
  <2>3. Names(n, r, r, q) /\ Names(Peer(n), r, r, q)
    BY <1>4, <1>6, Zenon DEF Names, Known
  <2>4. ~HasChild(r)
    BY <1>4, Zenon DEF HasChild
  <2>5. Open(r, q, q) /\ Match(r, r, q) /\ Keyed(r, r) /\ Apart(r, q, q)
    BY <1>4, <1>6, <2>4, Zenon DEF Open, Match, Keyed, Apart
  <2>6. Order(r, r, q, q) /\ Latest(r, r, q, crossed) /\ Agree(r, r, crossed)
    BY <1>4, <2>4, Zenon DEF Order, Latest, Agree
  <2> QED BY <1>6, <2>2, <2>3, <2>5, <2>6, Zenon DEF Pair, Whole, Half, Sides, Side
<1> QED BY <1>3, <1>5, <1>7, PeerFacts, Zenon DEF IInv

\* Every request was executed once, and datagrams arrived in the order in
\* which they were sent.
InOrder == ExecutedOnce /\ spent.delay = 0

Kinds == {"loss", "dup", "delay", "fail", "early", "restart"}
Counted == spent \in [Kinds -> Nat]

\* A disturbance is counted.
LEMMA TroubleCounts ==
  ASSUME Counted, NEW k \in Kinds, Trouble(k)
  PROVE  Counted' /\ spent'[k] # 0 /\ \A j \in Kinds : spent'[j] = 0 => spent[j] = 0
<1>1. spent' = [spent EXCEPT ![k] = @ + 1]
  BY Zenon DEF Trouble
<1> QED BY <1>1 DEF Counted

\* No step takes back a disturbance.
LEMMA SpentGrows ==
  ASSUME Counted, [Next]_vars
  PROVE  Counted' /\ (InOrder' => InOrder)
<1>1. UNCHANGED spent \/ \E k \in Kinds : Trouble(k)
  <2> QED BY Zenon DEF Next, vars, Start, Receive, RetransmitTimer, DpdTimer, RekeyTimer,
             Shutdown, Update, Lose, Duplicate, Delay, Step, Kinds
<1>2. "dup" \in Kinds /\ "early" \in Kinds /\ "delay" \in Kinds
  BY Zenon DEF Kinds
<1> QED BY <1>1, <1>2, TroubleCounts, Zenon DEF Counted, InOrder, ExecutedOnce

\* Every step of the Runners and of the network keeps it, as long as every
\* request is executed once and datagrams arrive in order: the effect of each
\* action is one of the above.  Random values are taken to differ from those
\* in use.
LEMMA NextIInv ==
  ASSUME Counted, InOrder', IInv, [Next]_vars,
         \A n \in Host : Spare(Fresh(n), rn[n], rn[Peer(n)], net[n], net[Peer(n)])
  PROVE  IInv'
<1>1. CASE UNCHANGED vars
  BY <1>1, Zenon DEF IInv, vars, Pair, Sane, Names, Peer
<1>2. ASSUME NEW n \in Host,
             \/ Start(n) \/ Receive(n) \/ RetransmitTimer(n) \/ DpdTimer(n) \/ RekeyTimer(n)
             \/ Shutdown(n) \/ Update(n) \/ Lose(n) \/ Duplicate(n) \/ Delay(n)
      PROVE  IInv'
  <2>1. PICK a : a = rn[n]
    BY Zenon
  <2>2. PICK b : b = rn[Peer(n)]
    BY Zenon
  <2>3. PICK qa : qa = net[n]
    BY Zenon
  <2>4. PICK qb : qb = net[Peer(n)]
    BY Zenon
  <2>5. /\ At(n, a, b, qa, qb, crossed) /\ Pair(n, a, b, qa, qb, crossed)
        /\ qa \in Seq(Message) /\ qb \in Seq(Message) /\ Peer(n) \in Host /\ Peer(n) # n
        /\ rn = [h \in Host |-> rn[h]] /\ net = [h \in Host |-> net[h]]
    BY <2>1, <2>2, <2>3, <2>4, PeerFacts, Zenon DEF IInv, At, Pair
  <2>6. Spare(Fresh(n), a, b, qa, qb)
    BY <2>1, <2>2, <2>3, <2>4, Zenon
  <2>7. CASE Start(n)
    <3>1. crossed' = crossed /\ n \in Initiators /\ ~a.started
      BY <2>1, <2>7, Zenon DEF Start
    <3>2. PICK ok \in BOOLEAN : Apply(n, qa, SendSaInit(n, ok))
      BY <2>3, <2>7, Zenon DEF Start, Step
    <3>3. PICK e : e = SendSaInit(n, ok)
      BY Zenon
    <3>4. Fine(n, e, b, qa, qb, crossed')
      BY <2>5, <3>1, <3>3, StartFine, Zenon
    <3> QED BY <2>2, <2>4, <3>2, <3>3, <3>4, ApplyFine, Zenon
  <2>8. CASE Receive(n)
    <3>1. crossed' = crossed /\ Running(n) /\ qa # <<>>
      BY <2>3, <2>8, Zenon DEF Receive
    <3>2. PICK h : h = Head(qa)
      BY Zenon
    <3>3. PICK q : q = Tail(qa)
      BY Zenon
    <3>4. PICK ok \in BOOLEAN : Apply(n, q, HandleDatagram(n, h, ok))
      BY <2>3, <2>8, <3>2, <3>3, Zenon DEF Receive, Step
    <3>5. PICK e : e = HandleDatagram(n, h, ok)
      BY Zenon
    <3>6. Takes(qa, h, q)
      BY <2>5, <3>1, <3>2, <3>3, HeadTakes, Zenon
    <3>7. Taking(n, a, b, qa, qb, crossed, h, q)
      BY <2>1, <2>5, <3>1, <3>6, Zenon DEF Taking, Running
    <3>8. Fine(n, e, b, q, qb, crossed')
      BY <2>6, <3>1, <3>5, <3>7, DatagramFine, Zenon
    <3> QED BY <2>2, <2>4, <3>4, <3>5, <3>8, ApplyFine, Zenon
  <2>9. CASE RetransmitTimer(n)
    <3>1. crossed' = crossed /\ a.retransmit # None /\ Apply(n, qa, OnRetransmit(n)) /\ Quiet
      <4>1. ~Trouble("early")
        BY TroubleCounts, Zenon DEF Kinds, InOrder, ExecutedOnce
      <4> QED BY <2>1, <2>3, <2>9, <4>1, Zenon DEF RetransmitTimer
    <3>2. qa = <<>> /\ qb = <<>>
      BY <2>3, <2>4, <2>5, <3>1, Zenon DEF Quiet
    <3>3. PICK e : e = OnRetransmit(n)
      BY Zenon
    <3>4. Fine(n, e, b, qa, qb, crossed')
      BY <2>5, <3>1, <3>2, <3>3, RetransmitFine, Zenon
    <3> QED BY <2>2, <2>4, <3>1, <3>3, <3>4, ApplyFine, Zenon
  <2>10. CASE DpdTimer(n)
    <3>1. crossed' = crossed
      BY <2>10, Zenon DEF DpdTimer
    <3>2. PICK ok \in BOOLEAN : Apply(n, qa, OnDpd(n, ok))
      BY <2>3, <2>10, Zenon DEF DpdTimer, Step
    <3>3. PICK e : e = OnDpd(n, ok)
      BY Zenon
    <3>4. Fine(n, e, b, qa, qb, crossed')
      BY <2>5, <3>1, <3>3, DpdFine, Zenon
    <3> QED BY <2>2, <2>4, <3>2, <3>3, <3>4, ApplyFine, Zenon
  <2>11. CASE RekeyTimer(n)
    <3>1. PICK ok \in BOOLEAN : Apply(n, qa, InitiateRekey(n, ok))
      BY <2>3, <2>11, Zenon DEF RekeyTimer, Step
    <3>2. PICK e : e = InitiateRekey(n, ok)
      BY Zenon
    <3>3. rn'[n] = e.r
      BY <2>5, <3>1, <3>2 DEF Apply
    <3>4. crossed' = (IF e.r.pending_rekey = a.pending_rekey THEN crossed ELSE b.pending_rekey # None)
      BY <2>1, <2>2, <2>11, <3>3, Zenon DEF RekeyTimer
    <3>5. Fine(n, e, b, qa, qb, crossed')
      BY <2>5, <2>6, <3>2, <3>4, RekeyFine, Zenon
    <3> QED BY <2>2, <2>4, <3>1, <3>2, <3>5, ApplyFine, Zenon
  <2>12. CASE Shutdown(n)
    <3>1. PICK m : m = Msg("INFORMATIONAL", FALSE, a.ike.sa, Child(n).local_spi)
      BY Zenon
    <3>2. PICK e : e = Effect([a EXCEPT !.up = FALSE, !.state = "Closed"],
                           IF a.phase = "Established" /\ Child(n) # None THEN <<m>> ELSE <<>>)
      BY Zenon
    <3>3. Apply(n, <<>>, e) /\ crossed' = crossed
      BY <2>1, <2>12, <3>1, <3>2, Zenon DEF Shutdown
    <3>4. Fine(n, e, b, <<>>, qb, crossed')
      BY <2>5, <3>1, <3>2, <3>3, ShutdownFine, Zenon
    <3> QED BY <2>2, <2>4, <3>3, <3>4, ApplyFine, Zenon
  <2>13. CASE Update(n)
    <3>1. PICK q \in {<<>>, net[n]} : net' = [net EXCEPT ![n] = q]
      BY <2>13, Zenon DEF Update
    <3>2. PICK a2 : a2 = NewRunner(a.gen + 1)
      BY Zenon
    <3>3. rn' = [rn EXCEPT ![n] = a2] /\ crossed' = crossed
      BY <2>1, <2>13, <3>2, Zenon DEF Update
    <3>4. Shrinks(qa, q)
      BY <2>3, <2>5, <3>1, NoneShrinks, AllShrinks, Zenon
    <3>5. Pair(n, a2, b, q, qb, crossed')
      BY <2>5, <3>2, <3>3, <3>4, UpdatePair, Zenon
    <3>6. rn' = [h \in Host |-> rn'[h]] /\ rn'[n] = a2 /\ rn'[Peer(n)] = b
      BY <2>2, <2>5, <3>3
    <3>7. net' = [h \in Host |-> net'[h]] /\ net'[n] = q /\ net'[Peer(n)] = qb
      BY <2>4, <2>5, <3>1
    <3> QED BY <3>5, <3>6, <3>7, FromOneSide, Zenon
  <2>14. CASE Lose(n)
    <3>1. PICK i \in DOMAIN net[n] :
             net' = [net EXCEPT ![n] = Without(@, i)]
      BY <2>14, Zenon DEF Lose
    <3>2. PICK q : q = Without(qa, i)
      BY Zenon
    <3>3. rn' = rn /\ crossed' = crossed
      BY <2>14, Zenon DEF Lose
    <3>4. Shrinks(qa, q)
      BY <2>3, <2>5, <3>1, <3>2, LoseShrinks, Zenon
    <3>5. Mild(n, a, a)
      BY <2>5, AtFacts, Zenon DEF Mild
    <3>6. Pair(n, a, b, q, qb, crossed')
      BY <2>5, <3>3, <3>4, <3>5, PairMild, Zenon
    <3>7. rn' = [h \in Host |-> rn'[h]] /\ rn'[n] = a /\ rn'[Peer(n)] = b
      BY <2>1, <2>2, <2>5, <3>3, Zenon
    <3>8. net' = [h \in Host |-> net'[h]] /\ net'[n] = q /\ net'[Peer(n)] = qb
      BY <2>3, <2>4, <2>5, <3>1, <3>2
    <3> QED BY <3>6, <3>7, <3>8, FromOneSide, Zenon
  <2>15. ~Duplicate(n) /\ ~Delay(n)
    BY TroubleCounts, Zenon DEF Kinds, InOrder, ExecutedOnce, Duplicate, Delay
  <2> QED BY <1>2, <2>7, <2>8, <2>9, <2>10, <2>11, <2>12, <2>13, <2>14, <2>15, Zenon
<1> QED BY <1>1, <1>2, Zenon DEF Next

=============================================================================
