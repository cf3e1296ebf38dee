----------------------------- MODULE EapProofs -----------------------------
(* TLAPS proofs about Eap, for every length of the flights and fragments,    *)
(* every number of identifiers and every amount of trouble on the link: the  *)
(* buffers of EapTlsMethod keep their bounds, and a port that reports        *)
(* Connected holds the MSK of a session the switch has accepted.             *)
(*                                                                           *)
(* The argument follows the success indication.  The switch sends one only   *)
(* for a session it has accepted; on the wire, in a retransmission, in a     *)
(* late copy and in the reassembly buffer it stays tied to that session;     *)
(* rustls takes it only on the connection of that session, which is the one  *)
(* the MSK was exported from.                                                *)
EXTENDS Eap, TLAPS

\* The bytes of a TLS stream, and the streams.
Unit == {"ch", "sh", "cf", "ok"} \X Nat \X Nat \X Nat
Data == Seq(Unit)

\* Success indications among the units of a stream come from sessions in acc.
Vouched(data, acc) ==
    \A i \in DOMAIN data : data[i][1] = "ok" => <<data[i][2], data[i][3]>> \in acc

\* The length of a stream.
LEMMA DataLen ==
  ASSUME NEW data \in Data
  PROVE  Len(data) \in Nat /\ (data # <<>> => Len(data) > 0)
  BY DEF Data

\* A flight is a stream of units.
LEMMA FlightData ==
  ASSUME NEW kind \in {"ch", "sh", "cf", "ok"}, NEW c \in Nat, NEW s \in Nat, NEW n \in Nat
  PROVE  /\ Flight(kind, c, s, n) \in Data
         /\ Len(Flight(kind, c, s, n)) = n
         /\ \A i \in 1..n : Flight(kind, c, s, n)[i] = <<kind, c, s, i>>
  BY DEF Flight, Data, Unit

\* A flight that is no success indication, or one of an accepted session, is
\* vouched for.
LEMMA FlightVouched ==
  ASSUME NEW kind \in {"ch", "sh", "cf", "ok"}, NEW c \in Nat, NEW s \in Nat, NEW n \in Nat,
         NEW acc, kind = "ok" => <<c, s>> \in acc
  PROVE  Flight(kind, c, s, n) \in Data /\ Vouched(Flight(kind, c, s, n), acc)
<1>1. Flight(kind, c, s, n) \in Data
  BY FlightData, Zenon
<1>2. DOMAIN Flight(kind, c, s, n) = 1 .. n
  BY Zenon DEF Flight
<1>3. \A i \in 1 .. n : Flight(kind, c, s, n)[i] = <<kind, c, s, i>>
  BY Zenon DEF Flight
<1> QED BY <1>1, <1>2, <1>3 DEF Vouched

\* Appending a fragment to what was reassembled gives a stream again.
LEMMA ConcatData ==
  ASSUME NEW p \in Data, NEW q \in Data
  PROVE  p \o q \in Data
  BY DEF Data

\* A piece of a stream carries only units of the stream.
LEMMA PieceVouched ==
  ASSUME NEW q \in Data, NEW acc, Vouched(q, acc), NEW a \in Nat \ {0}, NEW b \in Nat, b <= Len(q)
  PROVE  /\ SubSeq(q, a, b) \in Data
         /\ Vouched(SubSeq(q, a, b), acc)
         /\ Len(SubSeq(q, a, b)) = IF a <= b THEN b + 1 - a ELSE 0
<1>1. /\ SubSeq(q, a, b) \in Data
      /\ Len(SubSeq(q, a, b)) = IF a <= b THEN b + 1 - a ELSE 0
  BY DEF Data
<1>2. \A i \in 1..Len(SubSeq(q, a, b)) : SubSeq(q, a, b)[i] = q[a + i - 1] /\ a + i - 1 \in DOMAIN q
  BY <1>1 DEF Data
<1>3. DOMAIN SubSeq(q, a, b) = 1..Len(SubSeq(q, a, b))
  BY <1>1 DEF Data
<1> QED BY <1>1, <1>2, <1>3, Zenon DEF Vouched

\* What was vouched for in two pieces is vouched for when they are reassembled.
LEMMA ConcatVouched ==
  ASSUME NEW p \in Data, NEW q \in Data, NEW acc, Vouched(p, acc), Vouched(q, acc)
  PROVE  p \o q \in Data /\ Vouched(p \o q, acc) /\ Len(p \o q) = Len(p) + Len(q)
<1>1. p \o q \in Data /\ Len(p \o q) = Len(p) + Len(q)
  BY DEF Data
<1>2. ASSUME NEW i \in DOMAIN (p \o q)
      PROVE  \/ i \in DOMAIN p /\ (p \o q)[i] = p[i]
             \/ i - Len(p) \in DOMAIN q /\ (p \o q)[i] = q[i - Len(p)]
  BY DEF Data
<1> QED BY <1>1, <1>2, Zenon DEF Vouched

\* The bodies of EAP-TLS messages.
Bodies == [start : BOOLEAN, len : Nat, more : BOOLEAN, data : Data]

\* The shape of a body.
LEMMA BodyType ==
  ASSUME NEW start \in BOOLEAN, NEW len \in Nat, NEW more \in BOOLEAN, NEW data \in Data
  PROVE  Body(start, len, more, data) \in Bodies
  BY Zenon DEF Body, Bodies

\* What the peer and the switch put in a fragment.
LEMMA FragmentData ==
  ASSUME NEW q \in Data, NEW acc, Vouched(q, acc), NEW off \in Nat, NEW n \in Nat \ {0}
  PROVE  LET f == Fragment(q, off, n)
         IN  /\ f \in Bodies /\ Vouched(f.data, acc) /\ Len(f.data) \in Nat
             /\ f.more => off + Len(f.data) < Len(q)
             /\ off <= Len(q) => off + Len(f.data) <= Len(q)
<1> DEFINE rest == SubSeq(q, off + 1, Len(q))
<1>1. Len(q) \in Nat /\ off + 1 \in Nat \ {0}
  BY DEF Data
<1>2. /\ rest \in Data /\ Vouched(rest, acc)
      /\ Len(rest) = IF off + 1 <= Len(q) THEN Len(q) - off ELSE 0
      /\ Len(rest) \in Nat
  BY <1>1, PieceVouched
<1> DEFINE f == Fragment(q, off, n)
<1>3. /\ f.data = IF Len(rest) > n THEN SubSeq(rest, 1, n) ELSE rest
      /\ f.more = (Len(rest) > n) /\ f.len = IF off = 0 THEN Len(q) ELSE NoLen
  BY Zenon DEF Fragment, Body
<1> HIDE DEF f, rest
<1>7. ASSUME f.data \in Data PROVE f \in Bodies
  <2>2. PICK len \in Nat : len = IF off = 0 THEN Len(q) ELSE NoLen
    BY <1>1, Zenon DEF NoLen
  <2>3. PICK data \in Data : data = f.data
    BY <1>7, Zenon
  <2>4. f = Body(FALSE, IF off = 0 THEN Len(q) ELSE NoLen, Len(rest) > n,
                 IF Len(rest) > n THEN SubSeq(rest, 1, n) ELSE rest)
    BY Zenon DEF f, rest, Fragment
  <2>5. CASE Len(rest) > n
    <3>1. f = Body(FALSE, len, TRUE, data)
      BY <1>3, <2>2, <2>3, <2>4, <2>5, Zenon
    <3> QED BY <3>1, BodyType, Zenon
  <2>6. CASE ~(Len(rest) > n)
    <3>0. (Len(rest) > n) = FALSE
      BY <2>6
    <3>1. f = Body(FALSE, len, FALSE, data)
      BY <1>3, <2>2, <2>3, <2>4, <2>6, <3>0, Zenon
    <3> QED BY <3>1, BodyType, Zenon
  <2> QED BY <2>5, <2>6, Zenon
<1>4. CASE Len(rest) > n
  <2>1. /\ SubSeq(rest, 1, n) \in Data /\ Vouched(SubSeq(rest, 1, n), acc)
        /\ Len(SubSeq(rest, 1, n)) = n
    BY <1>2, <1>4, PieceVouched
  <2> QED BY <1>1, <1>2, <1>3, <1>4, <1>7, <2>1 DEF f
<1>5. CASE ~(Len(rest) > n)
  <2>1. f.data = rest /\ ~f.more
    BY <1>3, <1>5, Zenon
  <2>2. off <= Len(q) => off + Len(rest) <= Len(q)
    BY <1>1, <1>2
  <2> QED BY <1>1, <1>2, <1>3, <1>7, <2>1, <2>2, Zenon DEF f
<1> QED BY <1>4, <1>5, Zenon

-----------------------------------------------------------------------------
(* EapTlsMethod *)

\* The connection of rustls, and EapTlsMethod.
Conns == [c : Nat, s : Nat, out : Data]
Methods == [conn : Conns, rx_fragments : Data, rx_expected_len : Nat, tx_queue : Data,
            tx_offset : Nat, msk : Nat \X Nat, protected_success : BOOLEAN]

\* The shape of the method, and the two invariants of its buffers.
MethodOK(m) ==
    /\ m \in Methods
    /\ m.tx_queue = <<>> => m.tx_offset = 0
    /\ m.tx_queue # <<>> => m.tx_offset < Len(m.tx_queue)
    /\ m.rx_expected_len # NoLen => Len(m.rx_fragments) <= m.rx_expected_len

\* The MSK is of the session of the connection, and the success indication
\* was one of that session.
Sound(m, acc) ==
    /\ m.msk # NoMsk => m.conn.s # 0 /\ m.msk = <<m.conn.c, m.conn.s>>
    /\ m.protected_success => m.conn.s # 0 /\ <<m.conn.c, m.conn.s>> \in acc
    /\ Vouched(m.rx_fragments, acc)

\* Moving the transmit offset leaves the other fields alone.
LEMMA AdvanceTx ==
  ASSUME NEW m \in Methods, NEW n \in Nat, NEW x, x = [m EXCEPT !.tx_offset = n]
  PROVE  /\ x \in Methods /\ x.tx_queue = m.tx_queue /\ x.tx_offset = n
         /\ x.conn = m.conn /\ x.rx_fragments = m.rx_fragments
         /\ x.rx_expected_len = m.rx_expected_len /\ x.msk = m.msk
         /\ x.protected_success = m.protected_success
  BY Zenon DEF Methods

\* Taking the output of the connection leaves its session alone.
LEMMA ClearOut ==
  ASSUME NEW conn \in Conns, NEW x, x = [conn EXCEPT !.out = <<>>]
  PROVE  x \in Conns /\ x.c = conn.c /\ x.s = conn.s
<1>1. <<>> \in Data
  BY DEF Data
<1> QED BY <1>1, Zenon DEF Conns

\* Acknowledgement and Start carry no bytes.
LEMMA AckBody ==
  /\ Ack \in Bodies /\ Start \in Bodies
  /\ \A acc : Vouched(Ack.data, acc) /\ Vouched(Start.data, acc)
<1>1. <<>> \in Data /\ \A acc : Vouched(<<>>, acc)
  BY DEF Data, Vouched
<1> QED BY <1>1, Zenon DEF Ack, Start, Body, Bodies, NoLen

\* next_tx_fragment moves through the queue and touches nothing else.
LEMMA NextTxFragmentOK ==
  ASSUME NEW m, MethodOK(m), NEW acc, Sound(m, acc)
  PROVE  LET r == NextTxFragment(m) IN MethodOK(r.m) /\ Sound(r.m, acc) /\ r.body \in Bodies
<1> DEFINE r == NextTxFragment(m)
<1> DEFINE body == Fragment(m.tx_queue, m.tx_offset, TxFrag)
<1>1. CASE m.tx_queue = <<>> \/ m.tx_offset >= Len(m.tx_queue)
  <2>1. r.m = m /\ r.body = Ack
    BY <1>1, Zenon DEF NextTxFragment
  <2> QED BY <2>1, AckBody, Zenon
<1>2. CASE ~(m.tx_queue = <<>> \/ m.tx_offset >= Len(m.tx_queue))
  <2>0. m \in Methods
    BY Zenon DEF MethodOK
  <2>1. /\ m.tx_queue \in Data /\ m.tx_offset \in Nat /\ Len(m.tx_queue) \in Nat
        /\ m.tx_offset < Len(m.tx_queue)
    BY <1>2, <2>0 DEF Methods, Data
  <2>2. /\ body \in Bodies /\ Len(body.data) \in Nat
        /\ body.more => m.tx_offset + Len(body.data) < Len(m.tx_queue)
    <3>1. PICK all : Vouched(m.tx_queue, all)
      <4>1. Vouched(m.tx_queue, {<<m.tx_queue[i][2], m.tx_queue[i][3]>> : i \in DOMAIN m.tx_queue})
        BY Zenon DEF Vouched
      <4> QED BY <4>1, Zenon
    <3>2. TxFrag \in Nat \ {0}
      BY EapAssumption, Zenon
    <3> QED BY <2>1, <3>1, <3>2, FragmentData, Zenon
  <2>3. r.body = body /\ r.m = IF body.more
                   THEN [m EXCEPT !.tx_offset = @ + Len(body.data)]
                   ELSE [m EXCEPT !.tx_queue = <<>>, !.tx_offset = 0]
    BY <1>2, Zenon DEF NextTxFragment
  <2>4. PICK x : x = r.m
    BY Zenon
  <2> HIDE DEF body, r
  <2>5. MethodOK(x) /\ Sound(x, acc)
    <3>1. CASE body.more
      <4>1. PICK n \in Nat : n = m.tx_offset + Len(body.data)
        BY <2>1, <2>2
      <4>2. x = [m EXCEPT !.tx_offset = n]
        BY <2>3, <2>4, <3>1, <4>1, Zenon
      <4>3. n < Len(m.tx_queue)
        BY <2>2, <3>1, <4>1, Zenon
      <4>4. /\ x \in Methods /\ x.tx_queue = m.tx_queue /\ x.tx_offset = n
            /\ x.conn = m.conn /\ x.rx_fragments = m.rx_fragments
            /\ x.rx_expected_len = m.rx_expected_len /\ x.msk = m.msk
            /\ x.protected_success = m.protected_success
        BY <2>0, <4>2, AdvanceTx
      <4> QED BY <2>1, <4>3, <4>4 DEF MethodOK, Sound
    <3>2. CASE ~body.more
      <4>1. x = [m EXCEPT !.tx_queue = <<>>, !.tx_offset = 0] /\ <<>> \in Data
        BY <2>3, <2>4, <3>2 DEF Data
      <4>2. /\ x \in Methods /\ x.tx_queue = <<>> /\ x.tx_offset = 0
            /\ x.conn = m.conn /\ x.rx_fragments = m.rx_fragments
            /\ x.rx_expected_len = m.rx_expected_len /\ x.msk = m.msk
            /\ x.protected_success = m.protected_success
        BY <2>0, <4>1, Zenon DEF Methods
      <4>3. MethodOK(x)
        BY <4>2, Zenon DEF MethodOK
      <4>4. Sound(x, acc)
        BY <4>2 DEF Sound
      <4> QED BY <4>3, <4>4, Zenon
    <3> QED BY <3>1, <3>2, Zenon
  <2> QED BY <2>2, <2>3, <2>4, <2>5, Zenon DEF r
<1> QED BY <1>1, <1>2, Zenon

\* queue_tls_output starts the queue at its beginning.
LEMMA QueueTlsOutputOK ==
  ASSUME NEW m, MethodOK(m), NEW acc, Sound(m, acc), NEW out \in Data
  PROVE  MethodOK(QueueTlsOutput(m, out)) /\ Sound(QueueTlsOutput(m, out), acc)
<1>1. CASE out = <<>>
  BY <1>1, Zenon DEF QueueTlsOutput
<1>2. CASE out # <<>>
  <2>1. PICK x : x = QueueTlsOutput(m, out)
    BY Zenon
  <2>2. x = [m EXCEPT !.tx_queue = out, !.tx_offset = 0] /\ m \in Methods
    BY <1>2, <2>1, Zenon DEF QueueTlsOutput, MethodOK
  <2>3. Len(out) \in Nat /\ 0 < Len(out)
    BY <1>2 DEF Data
  <2>4. /\ x \in Methods /\ x.tx_queue = out /\ x.tx_offset = 0
        /\ x.conn = m.conn /\ x.rx_fragments = m.rx_fragments
        /\ x.rx_expected_len = m.rx_expected_len /\ x.msk = m.msk
        /\ x.protected_success = m.protected_success
    BY <2>2, Zenon DEF Methods
  <2>5. MethodOK(x) /\ Sound(x, acc)
    <3>1. MethodOK(x)
      BY <1>2, <2>3, <2>4, Zenon DEF MethodOK
    <3>2. Sound(x, acc)
      BY <2>4 DEF Sound
    <3> QED BY <3>1, <3>2, Zenon
  <2> QED BY <2>1, <2>5, Zenon
<1> QED BY <1>1, <1>2, Zenon

\* What rustls reads is a flight of the session it is in, or the one that opens it.
LEMMA ReadTlsOK ==
  ASSUME NEW conn \in Conns, NEW data \in Data, data # <<>>, NEW new \in ReadTls(conn, data)
  PROVE  /\ new \in Conns /\ new.c = conn.c
         /\ \/ conn.s = 0 /\ data[1][1] = "sh"
            \/ /\ new = conn /\ conn.s # 0
               /\ data[1][1] = "ok" /\ data[1][2] = conn.c /\ data[1][3] = conn.s
<1>1. data[1] \in Unit /\ conn.c \in Nat /\ conn.s \in Nat
  BY DEF Data, Conns
<1>2. PICK s \in Nat : s = data[1][3]
  BY <1>1, Zenon DEF Unit
<1>3. CASE conn.s = 0 /\ data = ServerHello(conn.c, s)
  <2>1. new = [conn EXCEPT !.s = s, !.out = ClientFinished(conn.c, s)]
    BY <1>2, <1>3, Zenon DEF ReadTls
  <2>2. PICK out \in Data : out = ClientFinished(conn.c, s)
    BY <1>1, <1>2, FlightData, EapAssumption, Zenon DEF ClientFinished
  <2>3. new = [conn EXCEPT !.s = s, !.out = out]
    BY <2>1, <2>2, Zenon
  <2>4. new \in Conns /\ new.c = conn.c
    BY <1>2, <2>3, Zenon DEF Conns
  <2>5. 1 \in 1 .. ShLen
    BY EapAssumption
  <2>6. data[1] = <<"sh", conn.c, s, 1>>
    BY <1>3, <2>5, Zenon DEF ServerHello, Flight
  <2> QED BY <1>3, <2>4, <2>6
<1>4. CASE ~(conn.s = 0 /\ data = ServerHello(conn.c, s))
  <2>1. new = conn /\ conn.s # 0 /\ data = Commitment(conn.c, conn.s)
    BY <1>2, <1>4, Zenon DEF ReadTls
  <2>2. data[1] = <<"ok", conn.c, conn.s, 1>>
    BY <2>1 DEF Commitment, Flight
  <2> QED BY <2>1, <2>2
<1> QED BY <1>3, <1>4, Zenon

\* Reading a whole message: the MSK is exported for the session the
\* connection is in, and the success indication only taken from that session.
LEMMA CompleteMessageOK ==
  ASSUME NEW m, MethodOK(m), NEW acc, Sound(m, acc), NEW data \in Data, Vouched(data, acc),
         NEW conn \in IF data = <<>> THEN {m.conn} ELSE ReadTls(m.conn, data)
  PROVE  LET r == CompleteMessage(m, conn, data)
         IN  MethodOK(r.m) /\ Sound(r.m, acc) /\ r.body \in Bodies
<1>1. m \in Methods /\ m.conn \in Conns /\ m.msk \in Nat \X Nat /\ m.protected_success \in BOOLEAN
  BY Zenon DEF MethodOK, Methods
<1>2. /\ conn \in Conns /\ conn.c = m.conn.c
      /\ \/ data = <<>> /\ conn = m.conn
         \/ data # <<>> /\ m.conn.s = 0 /\ data[1][1] = "sh"
         \/ /\ data # <<>> /\ conn = m.conn /\ conn.s # 0
            /\ data[1][1] = "ok" /\ data[1][2] = conn.c /\ data[1][3] = conn.s
  BY <1>1, ReadTlsOK, ZenonT(40)
<1>3. conn.c \in Nat /\ conn.s \in Nat /\ conn.out \in Data
  BY <1>2, Zenon DEF Conns
<1> DEFINE done == conn.s # 0 /\ m.msk = NoMsk
           ok == data # <<>> /\ data[1][1] = "ok"
<1>4. PICK empty : empty = [conn EXCEPT !.out = <<>>]
  BY Zenon
<1>5. empty \in Conns /\ empty.c = conn.c /\ empty.s = conn.s
  BY <1>2, <1>4, ClearOut, Zenon
<1>6. PICK msk \in Nat \X Nat : msk = IF done THEN <<conn.c, conn.s>> ELSE m.msk
  BY <1>1, <1>3, Zenon
<1>7. PICK x : x = [m EXCEPT
            !.conn = [conn EXCEPT !.out = <<>>],
            !.rx_fragments = <<>>, !.rx_expected_len = NoLen,
            !.msk = IF done THEN <<conn.c, conn.s>> ELSE @,
            !.protected_success = @ \/ ok]
  BY Zenon
<1>8. x = [m EXCEPT !.conn = empty, !.rx_fragments = <<>>, !.rx_expected_len = NoLen,
                    !.msk = msk, !.protected_success = @ \/ ok]
  BY <1>4, <1>6, <1>7, Zenon
<1>9. ok \in BOOLEAN
  BY Zenon
<1> HIDE DEF ok, done
<1>10. /\ x \in Methods /\ x.rx_fragments = <<>> /\ x.rx_expected_len = NoLen
       /\ x.conn = empty /\ x.tx_queue = m.tx_queue /\ x.tx_offset = m.tx_offset
       /\ x.msk = msk /\ x.protected_success = (m.protected_success \/ ok)
  <2>1. <<>> \in Data /\ NoLen \in Nat
    BY DEF Data, NoLen
  <2> QED BY <1>1, <1>5, <1>6, <1>8, <1>9, <2>1, Zenon DEF Methods
<1>11. MethodOK(x)
  BY <1>10, Zenon DEF MethodOK
<1>12. Sound(x, acc)
  <2>1. Vouched(x.rx_fragments, acc)
    BY <1>10 DEF Vouched
  <2>2. msk # NoMsk => conn.s # 0 /\ msk = <<conn.c, conn.s>>
    BY <1>2, <1>6, Zenon DEF done, Sound
  <2>3. ok => conn.s # 0 /\ <<conn.c, conn.s>> \in acc
    BY <1>2 DEF ok, Vouched, Data
  <2>4. m.protected_success => conn.s # 0 /\ <<conn.c, conn.s>> \in acc
    BY <1>2, Zenon DEF Sound
  <2> QED BY <1>5, <1>10, <2>1, <2>2, <2>3, <2>4, Zenon DEF Sound
<1>13. PICK y : y = QueueTlsOutput(x, conn.out)
  BY Zenon
<1>14. MethodOK(y) /\ Sound(y, acc)
  BY <1>3, <1>11, <1>12, <1>13, QueueTlsOutputOK, Zenon
<1>15. CompleteMessage(m, conn, data) = NextTxFragment(y)
  BY <1>7, <1>13, Zenon DEF CompleteMessage, done, ok
<1> QED BY <1>14, <1>15, NextTxFragmentOK, Zenon

\* A fragment that passes the checks leaves no more than the announced total.
LEMMA StoredFragmentOK ==
  ASSUME NEW m, MethodOK(m), NEW acc, Sound(m, acc), NEW body \in Bodies,
         NEW data \in Data, Vouched(data, acc), Len(data) = Len(m.rx_fragments) + Len(body.data),
         ~BadFragment(m, body),
         NEW x, x = [m EXCEPT !.rx_fragments = data, !.rx_expected_len = ExpectedLen(m, body)]
  PROVE  MethodOK(x) /\ Sound(x, acc)
<1>1. m \in Methods /\ m.rx_expected_len \in Nat /\ body.len \in Nat
  BY Zenon DEF MethodOK, Methods, Bodies
<1>2. PICK len \in Nat : len = ExpectedLen(m, body)
  BY <1>1, Zenon DEF ExpectedLen
<1>3. Len(data) \in Nat /\ (len # NoLen => Len(data) <= len)
  <2>1. Len(data) \in Nat
    BY DataLen, Zenon
  <2>2. ~(len # NoLen /\ Len(data) > len)
    BY <1>2, Zenon DEF BadFragment
  <2>3. len # NoLen => ~(Len(data) > len)
    BY <2>2, Zenon
  <2>4. \A n \in Nat : ~(n > len) => n <= len
    OBVIOUS
  <2> QED BY <2>1, <2>3, <2>4, Zenon
<1>4. x = [m EXCEPT !.rx_fragments = data, !.rx_expected_len = len]
  BY <1>2, Zenon
<1>5. /\ x \in Methods /\ x.rx_fragments = data /\ x.rx_expected_len = len
      /\ x.conn = m.conn /\ x.tx_queue = m.tx_queue /\ x.tx_offset = m.tx_offset
      /\ x.msk = m.msk /\ x.protected_success = m.protected_success
  BY <1>1, <1>4, Zenon DEF Methods
<1>6. MethodOK(x)
  BY <1>3, <1>5, Zenon DEF MethodOK
<1>7. Sound(x, acc)
  BY <1>5, Zenon DEF Sound
<1> QED BY <1>6, <1>7, Zenon

\* A Start creates a connection in which nothing is known yet.
LEMMA StartedOK ==
  ASSUME NEW m, MethodOK(m), NEW acc, Sound(m, acc), NEW c \in Nat, m.conn = NoConn,
         NEW x, x = [m EXCEPT !.conn = NewConn(c)]
  PROVE  MethodOK(x) /\ Sound(x, acc)
<1>1. PICK conn : conn = NewConn(c)
  BY Zenon
<1>2. conn \in Conns /\ conn.s = 0
  <2>1. ClientHello(c) \in Data
    BY FlightData, EapAssumption, Zenon DEF ClientHello
  <2> QED BY <1>1, <2>1, Zenon DEF NewConn, Conns
<1>3. m \in Methods /\ x = [m EXCEPT !.conn = conn]
  BY <1>1, Zenon DEF MethodOK
<1>4. /\ x \in Methods /\ x.conn = conn
      /\ x.tx_queue = m.tx_queue /\ x.tx_offset = m.tx_offset
      /\ x.rx_fragments = m.rx_fragments
      /\ x.rx_expected_len = m.rx_expected_len /\ x.msk = m.msk
      /\ x.protected_success = m.protected_success
  BY <1>2, <1>3, Zenon DEF Methods
<1>5. MethodOK(x)
  BY <1>4, Zenon DEF MethodOK
<1>6. Sound(x, acc)
  BY <1>4 DEF Sound, NoConn
<1> QED BY <1>5, <1>6, Zenon

\* handle_request: whatever it returns, the method stays within its bounds and
\* sound.
LEMMA HandleRequestOK ==
  ASSUME NEW method, MethodOK(method), NEW acc, Sound(method, acc), NEW c \in Nat,
         NEW body \in Bodies, Vouched(body.data, acc),
         NEW r \in HandleRequest(method, c, body)
  PROVE  MethodOK(r.m) /\ Sound(r.m, acc) /\ r.body \in Bodies
<1>1. PICK m : m = IF body.start /\ method.conn = NoConn
                   THEN [method EXCEPT !.conn = NewConn(c)] ELSE method
  BY Zenon
<1>2. MethodOK(m) /\ Sound(m, acc)
  <2>1. CASE body.start /\ method.conn = NoConn
    <3>1. m = [method EXCEPT !.conn = NewConn(c)]
      BY <1>1, <2>1, Zenon
    <3> QED BY <2>1, <3>1, StartedOK, Zenon
  <2>2. CASE ~(body.start /\ method.conn = NoConn)
    BY <1>1, <2>2, Zenon
  <2> QED BY <2>1, <2>2, Zenon
<1>3. PICK data : data = m.rx_fragments \o body.data
  BY Zenon
<1>4. /\ m.rx_fragments \in Data /\ body.data \in Data /\ Vouched(m.rx_fragments, acc)
  BY <1>2, Zenon DEF MethodOK, Methods, Bodies, Sound
<1>5. /\ data \in Data /\ Vouched(data, acc)
      /\ Len(data) = Len(m.rx_fragments) + Len(body.data)
  BY <1>3, <1>4, ConcatVouched, Zenon
<1>6. r \in CASE m.conn = NoConn -> {}
         [] m.conn # NoConn /\ body = Ack -> {NextTxFragment(m)}
         [] OTHER ->
            IF BadFragment(m, body) THEN {}
            ELSE IF body.more
            THEN {[m |-> [m EXCEPT !.rx_fragments = data,
                                   !.rx_expected_len = ExpectedLen(m, body)],
                   body |-> Ack]}
            ELSE {CompleteMessage(m, conn, data) :
                    conn \in IF data = <<>> THEN {m.conn}
                             ELSE ReadTls(m.conn, data)}
  BY <1>1, <1>3, Zenon DEF HandleRequest
<1>7. CASE m.conn # NoConn /\ body = Ack
  <2>1. r = NextTxFragment(m)
    BY <1>6, <1>7, Zenon
  <2> QED BY <1>2, <2>1, NextTxFragmentOK, Zenon
<1>8. CASE m.conn # NoConn /\ body # Ack
  <2>1. /\ ~BadFragment(m, body)
        /\ r \in IF body.more
                 THEN {[m |-> [m EXCEPT !.rx_fragments = data,
                                   !.rx_expected_len = ExpectedLen(m, body)],
                   body |-> Ack]}
                 ELSE {CompleteMessage(m, conn, data) :
                    conn \in IF data = <<>> THEN {m.conn}
                             ELSE ReadTls(m.conn, data)}
    BY <1>6, <1>8, Zenon
  <2>2. CASE body.more
    <3>1. PICK x : x = [m EXCEPT !.rx_fragments = data, !.rx_expected_len = ExpectedLen(m, body)]
      BY Zenon
    <3>2. r = [m |-> x, body |-> Ack]
      BY <2>1, <2>2, <3>1, Zenon
    <3>3. MethodOK(x) /\ Sound(x, acc)
      BY <1>2, <1>5, <2>1, <3>1, StoredFragmentOK, Zenon
    <3> QED BY <3>2, <3>3, AckBody, Zenon
  <2>3. CASE ~body.more
    <3>1. PICK conn \in IF data = <<>> THEN {m.conn} ELSE ReadTls(m.conn, data) :
                r = CompleteMessage(m, conn, data)
      BY <2>1, <2>3, Zenon
    <3> QED BY <1>2, <1>5, <3>1, CompleteMessageOK, Zenon
  <2> QED BY <2>2, <2>3, Zenon
<1> QED BY <1>6, <1>7, <1>8, Zenon

-----------------------------------------------------------------------------
(* EapPeer *)

\* EAP packets, and EapPeer.
Packets == [code : {"none", "start", "request", "response", "success", "failure"}, id : Nat,
            type : {"none", "identity", "notification", "tls", "other", "nak"}, body : Bodies]
Peers == [last_request : Packets, last_response : Packets, method : Methods]

\* What the switch may have sent, given the sessions it has accepted.
FromAuth(packet, acc) ==
    /\ packet \in Packets /\ Vouched(packet.body.data, acc)
    /\ packet.code \in {"request", "success", "failure"}
    /\ packet.code = "request" => packet.type \in {"identity", "notification", "tls", "other"}

\* The peer with a method that is within its bounds and sound.
PeerOK(p, acc) == p \in Peers /\ MethodOK(p.method) /\ Sound(p.method, acc)

\* The shape of a packet.
LEMMA PacketType ==
  ASSUME NEW code \in {"none", "start", "request", "response", "success", "failure"},
         NEW id \in Nat, NEW body \in Bodies,
         NEW type \in {"none", "identity", "notification", "tls", "other", "nak"}
  PROVE  /\ Packet(code, id, type, body) \in Packets
         /\ Packet(code, id, type, body).code = code /\ Packet(code, id, type, body).body = body
         /\ Packet(code, id, type, body).type = type
  BY Zenon DEF Packet, Packets

\* A fresh peer knows nothing that needs to be vouched for.
LEMMA NewPeerOK == \A acc : PeerOK(NewPeer, acc)
<1>1. NoPacket \in Packets
  BY PacketType, AckBody DEF NoPacket
<1>2. /\ NewMethod \in Methods /\ NewMethod.tx_queue = <<>> /\ NewMethod.tx_offset = 0
      /\ NewMethod.rx_expected_len = NoLen /\ NewMethod.msk = NoMsk
      /\ NewMethod.protected_success = FALSE /\ NewMethod.rx_fragments = <<>>
  <2>1. <<>> \in Data /\ NoLen \in Nat /\ NoMsk \in Nat \X Nat
    BY DEF Data, NoLen, NoMsk
  <2>2. NoConn \in Conns
    BY <2>1, Zenon DEF NoConn, Conns
  <2> QED BY <2>1, <2>2, Zenon DEF NewMethod, Methods
<1>3. MethodOK(NewMethod)
  BY <1>2, Zenon DEF MethodOK
<1>4. \A acc : Sound(NewMethod, acc)
  BY <1>2 DEF Sound, Vouched
<1> QED BY <1>1, <1>2, <1>3, <1>4, Zenon DEF NewPeer, Peers, PeerOK

\* Remembering a Request and its Response keeps the peer sound.
LEMMA RespondOK ==
  ASSUME NEW p, NEW acc, PeerOK(p, acc), NEW packet \in Packets,
         NEW type \in {"identity", "notification", "tls", "nak"},
         NEW method, MethodOK(method), Sound(method, acc), NEW body \in Bodies
  PROVE  LET r == Respond(p, packet, type, method, body)
         IN  PeerOK(r.peer, acc) /\ r.response \in Packets /\ r.action = "Respond"
<1>1. PICK response \in Packets : response = Packet("response", packet.id, type, body)
  BY PacketType DEF Packets
<1>2. method \in Methods
  BY Zenon DEF MethodOK
<1>3. Respond(p, packet, type, method, body) =
        [action |-> "Respond", response |-> response,
         peer |-> [last_request |-> packet, last_response |-> response, method |-> method]]
  BY <1>1, Zenon DEF Respond
<1> QED BY <1>2, <1>3 DEF PeerOK, Peers

\* handle_packet: a Success is only reported when the method has what it takes.
LEMMA HandlePacketOK ==
  ASSUME NEW p, NEW acc, PeerOK(p, acc), NEW packet, FromAuth(packet, acc), NEW c \in Nat,
         NEW r \in HandlePacket(p, packet, c)
  PROVE  /\ PeerOK(r.peer, acc) /\ r.response \in Packets
         /\ r.action \in {"Respond", "Success", "Failure", "Wait"}
         /\ r.action = "Success" => r.peer = p /\ SuccessIndicationReceived(p.method)
<1>0. NoPacket \in Packets /\ p.last_response \in Packets
  BY PacketType, AckBody DEF NoPacket, PeerOK, Peers
<1>1. CASE packet.code \in {"success", "failure"}
  <2>1. r = HandleResult(p, packet)
    BY <1>1, Zenon DEF HandlePacket
  <2> QED BY <1>0, <1>1, <2>1, Zenon DEF HandleResult, Wait, Result
<1>2. CASE packet.code = "request"
  <2>1. r \in HandleEapRequest(p, packet, c)
    BY <1>2, Zenon DEF HandlePacket
  <2>2. CASE IsRetransmission(p, packet)
    <3>1. r = [action |-> "Respond", peer |-> p, response |-> p.last_response]
      BY <2>1, <2>2, Zenon DEF HandleEapRequest
    <3> QED BY <1>0, <3>1, Zenon
  <2>3. CASE ~IsRetransmission(p, packet) /\ packet.type \in {"identity", "notification"}
    <3>0. PICK method, type, body : method = p.method /\ type = packet.type /\ body = Ack
      BY Zenon
    <3>1. /\ r = Respond(p, packet, type, method, body)
          /\ type \in {"identity", "notification", "tls", "nak"}
      BY <2>1, <2>3, <3>0, Zenon DEF HandleEapRequest
    <3>2. packet \in Packets /\ MethodOK(method) /\ Sound(method, acc) /\ body \in Bodies
      BY <3>0, AckBody, Zenon DEF FromAuth, PeerOK
    <3> QED BY <3>1, <3>2, RespondOK, SMTT(30)
  <2>4. CASE ~IsRetransmission(p, packet) /\ packet.type = "tls"
    <3>1. r \in {Respond(p, packet, "tls", q.m, q.body) :
                    q \in HandleRequest(p.method, c, packet.body)}
      BY <2>1, <2>4, Zenon DEF HandleEapRequest
    <3>2. PICK q \in HandleRequest(p.method, c, packet.body) :
                 r = Respond(p, packet, "tls", q.m, q.body)
      BY <3>1, Zenon
    <3>3. /\ packet \in Packets /\ MethodOK(p.method) /\ Sound(p.method, acc)
          /\ packet.body \in Bodies /\ Vouched(packet.body.data, acc)
      BY Zenon DEF FromAuth, PeerOK, Packets
    <3>4. MethodOK(q.m) /\ Sound(q.m, acc) /\ q.body \in Bodies
      BY <3>3, HandleRequestOK, Zenon
    <3>5. PICK method, body : method = q.m /\ body = q.body
      BY Zenon
    <3>6. r = Respond(p, packet, "tls", method, body)
      BY <3>2, <3>5, Zenon
    <3>7. MethodOK(method) /\ Sound(method, acc) /\ body \in Bodies
      BY <3>4, <3>5, Zenon
    <3> QED BY <3>3, <3>6, <3>7, RespondOK, ZenonT(40)
  <2>5. CASE ~IsRetransmission(p, packet) /\ packet.type = "other"
    <3>0. PICK method, body : method = p.method /\ body = Ack
      BY Zenon
    <3>1. r = Respond(p, packet, "nak", method, body)
      BY <2>1, <2>5, <3>0, Zenon DEF HandleEapRequest
    <3>2. packet \in Packets /\ MethodOK(method) /\ Sound(method, acc) /\ body \in Bodies
      BY <3>0, AckBody, Zenon DEF FromAuth, PeerOK
    <3> QED BY <3>1, <3>2, RespondOK, Zenon
  <2> QED BY <1>2, <2>2, <2>3, <2>4, <2>5, Zenon DEF FromAuth
<1> QED BY <1>1, <1>2, Zenon DEF FromAuth

-----------------------------------------------------------------------------
(* The port and the switch *)

\* What the switch may have sent when it has accepted the sessions in acc.
Sent(acc) == {packet \in Packets : FromAuth(packet, acc)}

\* The client and the authenticator of the switch.
Clients == [state : {"None", "Authenticating", "Connected"}, peer : Peers]
Auths == [phase : {"idle", "wait", "done"}, id : 0 .. Ids - 1, req : Packets,
          stage : {"none", "identity", "offer", "start", "hello", "commit"},
          c : Nat, s : Nat, rx : Data, tx : Data, off : Nat, accepted : SUBSET (Nat \X Nat)]

\* What the switch is sending, and would send again, is vouched for.
AuthOK(a) ==
    /\ a \in Auths /\ Vouched(a.tx, a.accepted)
    /\ a.phase = "wait" => a.req \in Sent(a.accepted)

\* The port, its peer and its method.
PortOK ==
    /\ client \in Clients /\ PeerOK(client.peer, auth.accepted)
    /\ ConnectedAuthorized
    /\ attempt \in 0 .. MaxAttempt /\ connected \in BOOLEAN
    /\ daemon \in {"idle", "run", "hold", "stopped"}

\* Everything under way to the port, in order or late, came from the switch.
LinkOK ==
    /\ toPeer \in Seq(Sent(auth.accepted)) /\ toAuth \in Seq(Packets)
    /\ late \subseteq Sent(auth.accepted)

\* The inductive invariant.
EInv == PortOK /\ AuthOK(auth) /\ LinkOK

\* Accepting another session takes nothing back.
LEMMA Monotone ==
  ASSUME NEW acc, NEW more, acc \subseteq more
  PROVE  /\ \A data : Vouched(data, acc) => Vouched(data, more)
         /\ Sent(acc) \subseteq Sent(more)
         /\ \A p : PeerOK(p, acc) => PeerOK(p, more)
<1>1. \A data : Vouched(data, acc) => Vouched(data, more)
  BY Zenon DEF Vouched
<1>2. Sent(acc) \subseteq Sent(more)
  BY <1>1, Zenon DEF Sent, FromAuth
<1>3. \A m : Sound(m, acc) => Sound(m, more)
  BY <1>1, Zenon DEF Sound
<1> QED BY <1>1, <1>2, <1>3, Zenon DEF PeerOK

\* What sending and receiving do to a link.
LEMMA LinkFacts ==
  ASSUME NEW S, NEW T, S \subseteq T, NEW q \in Seq(S)
  PROVE  /\ q \in Seq(T)
         /\ \A e \in T : Append(q, e) \in Seq(T)
         /\ q # <<>> => Tail(q) \in Seq(T) /\ Head(q) \in S
  OBVIOUS

\* The port and the switch start sound.
LEMMA InitEInv == Init => EInv
<1> SUFFICES ASSUME Init PROVE EInv
  BY Zenon
<1> USE EapAssumption
<1>1. PortOK
  <2>1. PeerOK(NewPeer, auth.accepted) /\ NewPeer \in Peers
    BY NewPeerOK, Zenon DEF PeerOK
  <2>2. client = NoClient /\ client \in Clients /\ client.peer = NewPeer /\ client.state = "None"
    BY <2>1, Zenon DEF Init, NoClient, Clients
  <2>3. attempt \in 0 .. MaxAttempt
    BY DEF Init
  <2>4. daemon \in {"idle", "run", "hold", "stopped"} /\ connected \in BOOLEAN
    BY Zenon DEF Init
  <2> QED BY <2>1, <2>2, <2>3, <2>4, Zenon DEF PortOK, ConnectedAuthorized
<1>2. AuthOK(auth)
  <2>1. <<>> \in Data /\ NoPacket \in Packets /\ 0 \in 0 .. Ids - 1
    <3>1. NoPacket \in Packets
      BY PacketType, AckBody DEF NoPacket
    <3> QED BY <3>1 DEF Data
  <2>2. auth = NewAuth /\ NewAuth \in Auths /\ NewAuth.phase = "idle" /\ NewAuth.tx = <<>>
    BY <2>1, Zenon DEF Init, NewAuth, Auths
  <2> QED BY <2>2 DEF AuthOK, Vouched
<1>3. LinkOK
  BY DEF Init, LinkOK
<1> QED BY <1>1, <1>2, <1>3, Zenon DEF EInv

\* A step of the switch that sends one packet: its own state is sound, and
\* nothing that is vouched for is taken back.
LEMMA SwitchStep ==
  ASSUME EInv, NEW packet \in Sent(auth'.accepted), AuthOK(auth'),
         auth.accepted \subseteq auth'.accepted,
         toPeer' = Append(toPeer, packet), toAuth' \in Seq(Packets),
         UNCHANGED <<client, attempt, daemon, connected, late>>
  PROVE  EInv'
<1>1. PortOK'
  BY Monotone, Zenon DEF EInv, PortOK, ConnectedAuthorized
<1>2. LinkOK'
  <2>1. Sent(auth.accepted) \subseteq Sent(auth'.accepted)
    BY Monotone, Zenon
  <2>2. toPeer' \in Seq(Sent(auth'.accepted))
    BY <2>1, LinkFacts, Zenon DEF EInv, LinkOK
  <2> QED BY <2>1, <2>2, Zenon DEF EInv, LinkOK
<1> QED BY <1>1, <1>2, Zenon DEF EInv

\* A Request of the switch (external) preserves the invariant.
LEMMA AskEInv ==
  ASSUME EInv, NEW a \in Auths, Vouched(a.tx, a.accepted), auth.accepted \subseteq a.accepted,
         NEW type \in {"identity", "notification", "tls", "other"},
         NEW body \in Bodies, Vouched(body.data, a.accepted), Ask(a, type, body),
         toAuth' \in Seq(Packets), UNCHANGED <<client, attempt, daemon, connected, late>>
  PROVE  EInv'
<1>1. PICK id \in 0 .. Ids - 1 : id = (a.id + 1) % Ids
  BY EapAssumption, SMTT(30) DEF Auths
<1>2. PICK packet : packet = Packet("request", id, type, body)
  BY Zenon
<1>3. packet \in Packets /\ packet.code = "request" /\ packet.type = type
      /\ packet.body = body /\ packet.id = id
  BY <1>1, <1>2, EapAssumption DEF Packet, Packets
<1>4. packet \in Sent(a.accepted)
  BY <1>3, Zenon DEF Sent, FromAuth
<1>5. /\ auth' = [a EXCEPT !.phase = "wait", !.id = id, !.req = packet]
      /\ toPeer' = Append(toPeer, packet)
  BY <1>1, <1>2, <1>3, Zenon DEF Ask
<1>6. /\ auth' \in Auths /\ auth'.tx = a.tx /\ auth'.accepted = a.accepted /\ auth'.req = packet
  BY <1>1, <1>3, <1>5, Zenon DEF Auths
<1>7. AuthOK(auth')
  BY <1>4, <1>6, Zenon DEF AuthOK
<1> QED BY <1>4, <1>5, <1>6, <1>7, SwitchStep, Zenon

\* So does a Success or a Failure.
LEMMA ConcludeEInv ==
  ASSUME EInv, NEW code \in {"success", "failure"}, Conclude(auth, code),
         toAuth' \in Seq(Packets), UNCHANGED <<client, attempt, daemon, connected, late>>
  PROVE  EInv'
<1>1. auth \in Auths /\ auth.id \in Nat /\ Vouched(auth.tx, auth.accepted)
  BY EapAssumption DEF EInv, AuthOK, Auths
<1>2. PICK packet : packet = Packet(code, auth.id, "none", Ack)
  BY Zenon
<1>3. packet \in Packets /\ packet.code = code /\ packet.body = Ack
  BY <1>1, <1>2, AckBody, Zenon DEF Packet, Packets
<1>4. packet \in Sent(auth.accepted)
  BY <1>3, AckBody, Zenon DEF Sent, FromAuth
<1>5. PICK phase \in {"idle", "done"} : auth' = [auth EXCEPT !.phase = phase]
  BY Zenon DEF Conclude
<1>6. toPeer' = Append(toPeer, packet)
  BY <1>2, Zenon DEF Conclude
<1>7. /\ auth' \in Auths /\ auth'.tx = auth.tx /\ auth'.accepted = auth.accepted
      /\ auth'.phase # "wait"
  BY <1>1, <1>5, Zenon DEF Auths
<1>8. AuthOK(auth')
  BY <1>1, <1>7, Zenon DEF AuthOK
<1> QED BY <1>4, <1>6, <1>7, <1>8, SwitchStep, Zenon

\* A step of the port: the switch and what it vouches for stay as they are.
LEMMA PortStep ==
  ASSUME EInv, PortOK', UNCHANGED auth, toAuth' \in Seq(Packets),
         toPeer' \in Seq(Sent(auth.accepted)), late' \subseteq Sent(auth.accepted)
  PROVE  EInv'
<1>1. LinkOK'
  BY Zenon DEF LinkOK
<1>2. AuthOK(auth)'
  BY Zenon DEF EInv
<1> QED BY <1>1, <1>2, Zenon DEF EInv

\* run_wired_interface drops a failed client: nothing of it is left.
LEMMA TearDownPort ==
  ASSUME PortOK, TearDown, UNCHANGED <<attempt, connected, auth>>
  PROVE  PortOK'
<1>1. PeerOK(NewPeer, auth'.accepted) /\ NewPeer \in Peers
  BY NewPeerOK, Zenon DEF PeerOK
<1>2. client' \in Clients /\ client'.peer = NewPeer /\ client'.state = "None"
  BY <1>1, Zenon DEF TearDown, NoClient, Clients
<1>3. daemon' = "idle"
  BY Zenon DEF TearDown
<1> QED BY <1>1, <1>2, <1>3, Zenon DEF PortOK, ConnectedAuthorized

\* handle_eapol: a client is connected only with an MSK for which the switch
\* has sent its success indication.
LEMMA HandleEapolPort ==
  ASSUME PortOK, client.state = "Authenticating", NEW packet \in Sent(auth.accepted),
         NEW r \in HandlePacket(client.peer, packet, attempt), HandleEapol(r),
         toAuth \in Seq(Packets), UNCHANGED <<attempt, connected, auth>>
  PROVE  PortOK' /\ toAuth' \in Seq(Packets)
<1>0. PICK p, acc : p = client.peer /\ acc = auth.accepted
  BY Zenon
<1>1. PeerOK(p, acc) /\ FromAuth(packet, acc)
      /\ attempt \in Nat /\ r \in HandlePacket(p, packet, attempt)
  BY <1>0, EapAssumption DEF PortOK, Sent
<1>2. /\ PeerOK(r.peer, acc) /\ r.response \in Packets
      /\ r.action \in {"Respond", "Success", "Failure", "Wait"}
      /\ r.action = "Success" => r.peer = p /\ SuccessIndicationReceived(p.method)
  BY <1>1, HandlePacketOK, Zenon
<1>3. CASE r.action = "Respond"
  <2>1. /\ client' = [client EXCEPT !.peer = r.peer] /\ toAuth' = Append(toAuth, r.response)
        /\ UNCHANGED daemon
    BY <1>3, Zenon DEF HandleEapol
  <2>2. client' \in Clients /\ client'.peer = r.peer /\ client'.state = "Authenticating"
    BY <1>2, <2>1, Zenon DEF PortOK, PeerOK, Clients
  <2>3. toAuth' \in Seq(Packets)
    BY <1>2, <2>1, LinkFacts, Zenon
  <2> QED BY <1>0, <1>2, <2>1, <2>2, <2>3, Zenon DEF PortOK, ConnectedAuthorized
<1>4. CASE r.action = "Success" /\ Authorized(r.peer)
  <2>1. client' = [client EXCEPT !.state = "Connected"] /\ UNCHANGED <<daemon, toAuth>>
    BY <1>4, Zenon DEF HandleEapol
  <2>2. client' \in Clients /\ client'.peer = p
    BY <1>0, <2>1, Zenon DEF PortOK, Clients
  <2>3. p.method.msk \in acc
    BY <1>1, <1>2, <1>4, Zenon DEF PeerOK, Sound, SuccessIndicationReceived, Authorized
  <2> QED BY <1>0, <1>1, <2>1, <2>2, <2>3, Zenon DEF PortOK, ConnectedAuthorized
<1>5. CASE TearDown /\ UNCHANGED toAuth
  BY <1>5, TearDownPort, Zenon
<1>6. CASE UNCHANGED <<client, daemon, toAuth>>
  BY <1>6, Zenon DEF PortOK, ConnectedAuthorized
<1> QED BY <1>3, <1>4, <1>5, <1>6, Zenon DEF HandleEapol

\* A frame that reaches the port, in order or late, preserves the invariant.
LEMMA ReceiveEInv ==
  ASSUME EInv, NEW packet \in Sent(auth.accepted), Receive(packet),
         toPeer' \in Seq(Sent(auth.accepted)), late' \subseteq Sent(auth.accepted)
  PROVE  EInv'
<1>1. PortOK /\ toAuth \in Seq(Packets)
  BY Zenon DEF EInv, LinkOK
<1>2. PortOK' /\ toAuth' \in Seq(Packets)
  <2>1. CASE \E r \in HandlePacket(client.peer, packet, attempt) : HandleEapol(r)
    BY <1>1, <2>1, HandleEapolPort, Zenon DEF Receive
  <2>2. CASE TearDown /\ UNCHANGED toAuth
    BY <1>1, <2>2, TearDownPort, Zenon DEF Receive
  <2> QED BY <2>1, <2>2, Zenon DEF Receive
<1> QED BY <1>2, PortStep, Zenon DEF Receive

\* A fragment of the switch's flight is vouched for as the flight is.
LEMMA SendFragmentEInv ==
  ASSUME EInv, NEW a \in Auths, Vouched(a.tx, a.accepted), auth.accepted \subseteq a.accepted,
         SendFragment(a), toAuth' \in Seq(Packets),
         UNCHANGED <<client, attempt, daemon, connected, late>>
  PROVE  EInv'
<1>1. PICK body : body = Fragment(a.tx, a.off, AuthFrag)
  BY Zenon
<1>2. a.tx \in Data /\ a.off \in Nat /\ AuthFrag \in Nat \ {0}
  BY EapAssumption, Zenon DEF Auths
<1>3. body \in Bodies /\ Vouched(body.data, a.accepted) /\ Len(body.data) \in Nat
  BY <1>1, <1>2, FragmentData, Zenon
<1>4. PICK off \in Nat : off = a.off + Len(body.data)
  BY <1>2, <1>3
<1>5. PICK b : b = [a EXCEPT !.off = off]
  BY Zenon
<1>6. b \in Auths /\ b.tx = a.tx /\ b.accepted = a.accepted
  BY <1>5, Zenon DEF Auths
<1>7. Ask(b, "tls", body)
  BY <1>1, <1>4, <1>5, Zenon DEF SendFragment
<1> QED BY <1>3, <1>6, <1>7, AskEInv, Zenon

\* The first Request of the switch (external).
LEMMA AskIdentityEInv ==
  ASSUME EInv, AskIdentity, toAuth' \in Seq(Packets),
         UNCHANGED <<client, attempt, daemon, connected, late>>
  PROVE  EInv'
<1>1. auth \in Auths /\ Vouched(auth.tx, auth.accepted)
  BY Zenon DEF EInv, AuthOK
<1>2. PICK a : a = [auth EXCEPT !.stage = "identity"]
  BY Zenon
<1>3. a \in Auths /\ a.tx = auth.tx /\ a.accepted = auth.accepted
  BY <1>1, <1>2, Zenon DEF Auths
<1>4. Ask(a, "identity", Ack)
  BY <1>2, Zenon DEF AskIdentity
<1> QED BY <1>1, <1>3, <1>4, AskEInv, AckBody, Zenon

\* The switch (external) takes a whole flight of the port: the success indication
\* is sent only with the acceptance of its session.
LEMMA TakeFlightEInv ==
  ASSUME EInv, NEW data \in Data, TakeFlight(data), toAuth' \in Seq(Packets),
         UNCHANGED <<client, attempt, daemon, connected, late>>
  PROVE  EInv'
<1>1. /\ auth \in Auths /\ Vouched(auth.tx, auth.accepted)
      /\ auth.c \in Nat /\ auth.s \in Nat /\ auth.accepted \in SUBSET (Nat \X Nat)
      /\ <<>> \in Data
  BY DEF EInv, AuthOK, Auths, Data
<1>2. PICK c : c = data[1][2]
  BY Zenon
<1>3. CASE /\ auth.stage = "start" /\ data = ClientHello(c)
           /\ SendFragment([auth EXCEPT
                 !.stage = "hello", !.c = c, !.rx = <<>>, !.off = 0,
                 !.tx = ServerHello(c, auth.s)])
  <2>1. c \in Nat
    <3>1. data # <<>>
      <4>1. ChLen \in Nat \ {0}
        BY EapAssumption, Zenon
      <4>2. Len(data) = ChLen
        BY <1>3, <4>1 DEF ClientHello, Flight
      <4> QED BY <4>1, <4>2, Zenon
    <3>2. data[1] \in Unit
      BY <3>1 DEF Data
    <3> QED BY <1>2, <3>2, Zenon DEF Unit
  <2>2. PICK tx : tx = ServerHello(c, auth.s)
    BY Zenon
  <2>3. tx \in Data /\ Vouched(tx, auth.accepted)
    <3>1. ShLen \in Nat
      BY EapAssumption, Zenon
    <3>2. PICK s \in Nat : s = auth.s
      BY <1>1, Zenon
    <3> QED BY <2>1, <2>2, <3>1, <3>2, FlightVouched, Zenon DEF ServerHello
  <2>4. PICK a : a = [auth EXCEPT !.stage = "hello", !.c = c, !.rx = <<>>, !.off = 0, !.tx = tx]
    BY Zenon
  <2>5. a \in Auths /\ a.tx = tx /\ a.accepted = auth.accepted
    BY <1>1, <2>1, <2>3, <2>4, Zenon DEF Auths
  <2>6. SendFragment(a)
    BY <1>3, <2>2, <2>4, Zenon
  <2> QED BY <2>3, <2>5, <2>6, SendFragmentEInv, Zenon
<1>4. CASE SendFragment([auth EXCEPT
                    !.stage = "commit", !.rx = <<>>, !.off = 0,
                    !.tx = Commitment(auth.c, auth.s),
                    !.accepted = @ \cup {<<auth.c, auth.s>>}])
  <2>1. PICK acc \in SUBSET (Nat \X Nat) : acc = auth.accepted \cup {<<auth.c, auth.s>>}
    <3>1. <<auth.c, auth.s>> \in Nat \X Nat
      BY <1>1, Zenon
    <3>2. auth.accepted \cup {<<auth.c, auth.s>>} \in SUBSET (Nat \X Nat)
      BY <1>1, <3>1, Zenon
    <3> QED BY <3>2, Zenon
  <2>2. PICK tx : tx = Commitment(auth.c, auth.s)
    BY Zenon
  <2>3. tx \in Data /\ Vouched(tx, acc)
    <3>1. PICK c1 \in Nat, s1 \in Nat : c1 = auth.c /\ s1 = auth.s
      BY <1>1, Zenon
    <3> QED BY <2>1, <2>2, <3>1, FlightVouched, Zenon DEF Commitment
  <2>4. PICK a : a = [auth EXCEPT !.stage = "commit", !.rx = <<>>, !.off = 0, !.tx = tx,
                                  !.accepted = acc]
    BY Zenon
  <2>5. a \in Auths /\ a.tx = tx /\ a.accepted = acc
    BY <1>1, <2>1, <2>3, <2>4, Zenon DEF Auths
  <2>6. SendFragment(a)
    BY <1>4, <2>1, <2>2, <2>4, Zenon
  <2>7. auth.accepted \subseteq a.accepted
    BY <2>1, <2>5, Zenon
  <2> QED BY <2>3, <2>5, <2>6, <2>7, SendFragmentEInv, Zenon
<1>5. CASE Conclude(auth, "failure")
  BY <1>5, ConcludeEInv, Zenon
<1> QED BY <1>2, <1>3, <1>4, <1>5, Zenon DEF TakeFlight

\* The switch (external) takes an EAP-TLS response.
LEMMA TakeTlsEInv ==
  ASSUME EInv, NEW body \in Bodies, TakeTls(body), toAuth' \in Seq(Packets),
         UNCHANGED <<client, attempt, daemon, connected, late>>
  PROVE  EInv'
<1>1. /\ auth \in Auths /\ Vouched(auth.tx, auth.accepted)
      /\ auth.rx \in Data /\ body.data \in Data
  BY Zenon DEF EInv, AuthOK, Auths, Bodies
<1>2. PICK data \in Data : data = auth.rx \o body.data
  BY <1>1, ConcatData, Zenon
<1>3. CASE SendFragment(auth)
  BY <1>1, <1>3, SendFragmentEInv, Zenon
<1>4. CASE Conclude(auth, "success") \/ Conclude(auth, "failure")
  BY <1>4, ConcludeEInv, Zenon
<1>5. CASE Ask([auth EXCEPT !.rx = @ \o body.data], "tls", Ack)
  <2>1. PICK a : a = [auth EXCEPT !.rx = data]
    BY Zenon
  <2>2. a \in Auths /\ a.tx = auth.tx /\ a.accepted = auth.accepted
    BY <1>1, <2>1, Zenon DEF Auths
  <2>3. Ask(a, "tls", Ack)
    BY <1>2, <1>5, <2>1, Zenon
  <2> QED BY <1>1, <2>2, <2>3, AskEInv, AckBody, Zenon
<1>6. CASE TakeFlight(auth.rx \o body.data)
  BY <1>2, <1>6, TakeFlightEInv, Zenon
<1> QED BY <1>3, <1>4, <1>5, <1>6, Zenon DEF TakeTls

\* The switch (external) takes a frame of the port.
LEMMA AuthReceiveEInv ==
  ASSUME EInv, AuthReceive
  PROVE  EInv'
<1>1. /\ toAuth # <<>> /\ toAuth' = Tail(toAuth)
      /\ UNCHANGED <<client, attempt, daemon, connected, late>>
  BY Zenon DEF AuthReceive
<1>2. toAuth' \in Seq(Packets) /\ Head(toAuth) \in Packets
  BY <1>1, LinkFacts, Zenon DEF EInv, LinkOK
<1>3. /\ auth \in Auths /\ Vouched(auth.tx, auth.accepted) /\ auth.s \in Nat /\ <<>> \in Data
  BY DEF EInv, AuthOK, Auths, Data
<1>4. CASE AskIdentity
  BY <1>1, <1>2, <1>4, AskIdentityEInv, Zenon
<1>5. CASE AskStart
  <2>1. PICK s \in Nat : s = auth.s + 1
    BY <1>3
  <2>2. PICK a : a = [auth EXCEPT !.stage = "start", !.s = s, !.c = 0, !.rx = <<>>,
                                  !.tx = <<>>, !.off = 0]
    BY Zenon
  <2>3. a \in Auths /\ a.tx = <<>> /\ a.accepted = auth.accepted
    BY <1>3, <2>2, Zenon DEF Auths
  <2>4. Ask(a, "tls", Start)
    BY <1>5, <2>1, <2>2, Zenon DEF AskStart
  <2>5. Vouched(a.tx, a.accepted)
    BY <2>3 DEF Vouched
  <2> QED BY <1>1, <1>2, <2>3, <2>4, <2>5, AskEInv, AckBody, Zenon
<1>6. CASE \E type \in {"notification", "other"} : Ask([auth EXCEPT !.stage = "offer"], type, Ack)
  <2>1. PICK type \in {"notification", "other"} : Ask([auth EXCEPT !.stage = "offer"], type, Ack)
    BY <1>6, Zenon
  <2>2. PICK a : a = [auth EXCEPT !.stage = "offer"]
    BY Zenon
  <2>3. a \in Auths /\ a.tx = auth.tx /\ a.accepted = auth.accepted
    BY <1>3, <2>2, Zenon DEF Auths
  <2>4. Ask(a, type, Ack)
    BY <2>1, <2>2, Zenon
  <2> QED BY <1>1, <1>2, <1>3, <2>3, <2>4, AskEInv, AckBody, Zenon
<1>7. CASE TakeTls(Head(toAuth).body)
  <2>1. Head(toAuth).body \in Bodies
    BY <1>2, Zenon DEF Packets
  <2> QED BY <1>1, <1>2, <1>7, <2>1, TakeTlsEInv, Zenon
<1>8. CASE UNCHANGED <<auth, toPeer, spent>>
  <2>1. PortOK'
    BY <1>1, <1>8, Zenon DEF EInv, PortOK, ConnectedAuthorized
  <2> QED BY <1>1, <1>2, <1>8, <2>1, PortStep, Zenon DEF EInv, LinkOK
<1> QED BY <1>4, <1>5, <1>6, <1>7, <1>8, Zenon DEF AuthReceive

\* Every step preserves the invariant.  The steps of the link and of the daemon
\* leave the switch alone.
LEMMA NextEInv ==
  ASSUME EInv, [Next]_vars
  PROVE  EInv'
<1>1. /\ PortOK /\ AuthOK(auth) /\ toAuth \in Seq(Packets)
      /\ toPeer \in Seq(Sent(auth.accepted)) /\ late \subseteq Sent(auth.accepted)
  BY Zenon DEF EInv, LinkOK
<1>2. /\ toPeer # <<>> => /\ Head(toPeer) \in Sent(auth.accepted)
                         /\ Tail(toPeer) \in Seq(Sent(auth.accepted))
      /\ toAuth # <<>> => Tail(toAuth) \in Seq(Packets)
  BY <1>1, LinkFacts, Zenon
<1>3. CASE InitClient
  <2>1. PeerOK(NewPeer, auth'.accepted) /\ NewPeer \in Peers
    BY NewPeerOK, Zenon DEF PeerOK
  <2>2. client' \in Clients /\ client'.peer = NewPeer /\ client'.state = "Authenticating"
    BY <1>3, <2>1, Zenon DEF InitClient, Clients
  <2>3. attempt' \in 0 .. MaxAttempt
    BY <1>1, <1>3, EapAssumption, SMTT(30) DEF InitClient, PortOK
  <2>4. daemon' = "run" /\ UNCHANGED <<connected, auth, toPeer, late>>
    BY <1>3, Zenon DEF InitClient
  <2>5. PortOK'
    BY <1>1, <2>1, <2>2, <2>3, <2>4, Zenon DEF PortOK, ConnectedAuthorized
  <2>6. EapolStart \in Packets
    BY PacketType, AckBody DEF EapolStart
  <2>7. toAuth' \in Seq(Packets)
    BY <1>1, <1>3, <2>6, LinkFacts, Zenon DEF InitClient
  <2> QED BY <1>1, <2>4, <2>5, <2>7, PortStep, Zenon
<1>4. CASE ReceiveNext
  BY <1>1, <1>2, <1>4, ReceiveEInv, Zenon DEF ReceiveNext
<1>5. CASE ReceiveLate
  <2>1. PICK packet \in late : /\ late' = late \ {packet} /\ Receive(packet) /\ UNCHANGED toPeer
    BY <1>5, Zenon DEF ReceiveLate
  <2> QED BY <1>1, <2>1, ReceiveEInv, Zenon
<1>6. CASE Timeout \/ IoError
  <2>1. TearDown /\ UNCHANGED <<attempt, connected, auth, toPeer, toAuth, late>>
    BY <1>6, Zenon DEF Timeout, IoError
  <2> QED BY <1>1, <2>1, TearDownPort, PortStep, Zenon
<1>7. CASE ApplyNetworkConfig
  <2>1. /\ UNCHANGED <<client, attempt, auth, toPeer, toAuth, late>>
        /\ daemon' = "hold" /\ connected' \in BOOLEAN
    BY <1>7, Zenon DEF ApplyNetworkConfig
  <2>2. PortOK'
    BY <1>1, <2>1, Zenon DEF PortOK, ConnectedAuthorized
  <2> QED BY <1>1, <2>1, <2>2, PortStep, Zenon
<1>8. CASE Shutdown
  <2>1. PeerOK(NewPeer, auth'.accepted) /\ NewPeer \in Peers
    BY NewPeerOK, Zenon DEF PeerOK
  <2>2. client' \in Clients /\ client'.peer = NewPeer /\ client'.state = "None"
    BY <1>8, <2>1, Zenon DEF Shutdown, NoClient, Clients
  <2>3. /\ daemon' = "stopped"
        /\ UNCHANGED <<attempt, connected, auth, toPeer, toAuth, late>>
    BY <1>8, Zenon DEF Shutdown
  <2>4. PortOK'
    BY <1>1, <2>1, <2>2, <2>3, Zenon DEF PortOK, ConnectedAuthorized
  <2> QED BY <1>1, <2>3, <2>4, PortStep, Zenon
<1>9. CASE AuthReceive
  BY <1>9, AuthReceiveEInv, Zenon
<1>10. CASE AuthRetransmit
  <2>1. /\ auth.req \in Sent(auth.accepted) /\ toPeer' = Append(toPeer, auth.req)
        /\ UNCHANGED <<client, attempt, daemon, connected, auth, toAuth, late>>
    BY <1>1, <1>10, Zenon DEF AuthRetransmit, AuthOK
  <2> QED BY <1>1, <2>1, SwitchStep, Zenon
<1>11. CASE AuthGiveUp
  BY <1>1, <1>11, ConcludeEInv, Zenon DEF AuthGiveUp
<1>12. CASE AuthRestart
  BY <1>1, <1>12, AskIdentityEInv, Zenon DEF AuthRestart
<1>13. CASE Lose \/ Unheard \/ Duplicate \/ UNCHANGED vars
  <2>1. UNCHANGED <<client, attempt, daemon, connected, auth>>
    BY <1>13, Zenon DEF Lose, Unheard, Duplicate, vars
  <2>2. PortOK'
    BY <1>1, <2>1, Zenon DEF PortOK, ConnectedAuthorized
  <2>3. /\ toAuth' \in Seq(Packets) /\ toPeer' \in Seq(Sent(auth.accepted))
        /\ late' \subseteq Sent(auth.accepted)
    <3>1. CASE Lose
      BY <1>1, <1>2, <3>1, Zenon DEF Lose
    <3>2. CASE Unheard
      BY <1>1, <1>2, <3>2, Zenon DEF Unheard
    <3>3. CASE Duplicate
      BY <1>1, <1>2, <3>3, Zenon DEF Duplicate
    <3>4. CASE UNCHANGED vars
      BY <1>1, <3>4, Zenon DEF vars
    <3> QED BY <1>13, <3>1, <3>2, <3>3, <3>4, Zenon
  <2> QED BY <2>1, <2>2, <2>3, PortStep, Zenon
<1> QED BY <1>3, <1>4, <1>5, <1>6, <1>7, <1>8, <1>9, <1>10, <1>11, <1>12, <1>13, Zenon DEF Next

-----------------------------------------------------------------------------

\* The port never holds a success indication, an MSK or a frame that the switch
\* does not vouch for (EapTlsMethod, EapPeer and EapClient together).
THEOREM EInvInvariant == Spec => []EInv
<1>1. EInv /\ [Next]_vars => EInv'
  BY NextEInv, Zenon
<1> QED BY InitEInv, <1>1, PTL DEF Spec

\* The transmit offset stays inside a queue that still has something to send,
\* and the fragments received never exceed the announced total: next_tx_fragment
\* never slices past the queue (eap_tls.rs).
THEOREM BuffersBounded == Spec => []TypeOK
<1>1. EInv => TypeOK
  <2> SUFFICES ASSUME EInv PROVE TypeOK
    BY Zenon
  <2>1. auth.phase \in {"idle", "wait", "done"} /\ auth.id \in 0 .. Ids - 1
    BY Zenon DEF EInv, AuthOK, Auths
  <2>2. client.state \in {"None", "Authenticating", "Connected"}
    BY Zenon DEF EInv, PortOK, Clients
  <2>3. PICK m : m = client.peer.method /\ MethodOK(m)
    BY Zenon DEF EInv, PortOK, PeerOK
  <2>4. /\ m.tx_queue = <<>> => m.tx_offset = 0
        /\ m.tx_queue # <<>> => m.tx_offset < Len(m.tx_queue)
        /\ m.rx_expected_len # NoLen => Len(m.rx_fragments) <= m.rx_expected_len
    BY <2>3, Zenon DEF MethodOK
  <2> QED BY <2>1, <2>2, <2>3, <2>4, Zenon DEF EInv, PortOK, TypeOK
<1> QED BY EInvInvariant, <1>1, PTL

\* A port that reports Connected holds the MSK of a TLS session the switch has
\* accepted, whatever EAP-Success was late, repeated or carried an identifier in
\* use again (handle_packet in eap.rs, handle_eapol in wired/eap.rs).
THEOREM AuthorizedPort == Spec => []ConnectedAuthorized
<1>1. EInv => ConnectedAuthorized
  BY Zenon DEF EInv, PortOK
<1> QED BY EInvInvariant, <1>1, PTL
=============================================================================
