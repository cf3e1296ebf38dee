------------------------- MODULE IkeAgreementProofs -------------------------
(***************************************************************************)
(* The two hosts of an IKE connection agree on their keys and, unless their *)
(* rekeys overlapped, on their pair of SAs: the invariant of IkeProofs, and *)
(* that a random value can always be drawn.                                 *)
(***************************************************************************)
EXTENDS IkeProofs, FiniteSetTheorems

\* What is in use at one host is finitely many.
LEMMA TokensFinite ==
  ASSUME NEW n \in Host, net[n] \in Seq(Message)
  PROVE  IsFiniteSet(TokensOf(n))
<1>1. PICK q : q = net[n]
  BY Zenon
<1>2. IsFiniteSet(DOMAIN q)
  <2>1. q \in Seq(Message)
    BY <1>1, Zenon
  <2>2. DOMAIN q = 1 .. Len(q) /\ Len(q) \in Int /\ 1 \in Int
    BY <2>1
  <2> QED BY <2>2, FS_Interval, Zenon
<1>3. PICK T : T = {q[i].token : i \in DOMAIN q}
  BY Zenon
<1>4. IsFiniteSet(T)
  <2>1. PICK f : f = [i \in DOMAIN q |-> q[i].token]
    BY Zenon
  <2>2. f \in [DOMAIN q -> T] /\ \A t \in T : \E i \in DOMAIN q : f[i] = t
    BY <1>3, <2>1, Zenon
  <2>3. f \in Surjection(DOMAIN q, T)
    BY <2>2, Zenon DEF Surjection
  <2> QED BY <1>2, <2>3, FS_Surjection, Zenon
<1>5. PICK U : U = IF rn[n].retransmit = None THEN {} ELSE {rn[n].retransmit.message.token}
  BY Zenon
<1>6. PICK V : V = {rn[n].pending_rekey}
  BY Zenon
<1>7. PICK W : W = IF rn[n].ike = None THEN {} ELSE {rn[n].ike.local_child_spi}
  BY Zenon
<1>8. PICK X : X = IF Child(n) = None THEN {}
                   ELSE {Child(n).local_spi, Child(n).remote_spi}
                          \cup {Child(n).seed.nonce_i, Child(n).seed.nonce_r}
  BY Zenon
<1>9. IsFiniteSet(U) /\ IsFiniteSet(V) /\ IsFiniteSet(W)
  BY <1>5, <1>6, <1>7, FS_EmptySet, FS_Singleton, Zenon
<1>10. IsFiniteSet(X)
  <2>1. \A x, y : IsFiniteSet({x, y})
    <3> TAKE x, y
    <3>1. IsFiniteSet({x}) /\ IsFiniteSet({y})
      BY FS_Singleton, Zenon
    <3>2. IsFiniteSet({x} \cup {y})
      BY <3>1, FS_Union, Zenon
    <3>3. {x, y} = {x} \cup {y}
      OBVIOUS
    <3> QED BY <3>2, <3>3, Zenon
  <2> QED BY <1>8, <2>1, FS_EmptySet, FS_Union, Zenon
<1>11. {m.token : m \in MessagesOf(n)} = T \cup U
  BY <1>1, <1>3, <1>5 DEF MessagesOf
<1>12. TokensOf(n) = (((T \cup U) \cup V) \cup W) \cup X
  BY <1>6, <1>7, <1>8, <1>11, Zenon DEF TokensOf
<1>13. IsFiniteSet(T \cup U)
  BY <1>4, <1>9, FS_Union, Zenon
<1>14. IsFiniteSet((T \cup U) \cup V)
  BY <1>9, <1>13, FS_Union, Zenon
<1>15. IsFiniteSet(((T \cup U) \cup V) \cup W)
  BY <1>9, <1>14, FS_Union, Zenon
<1>16. IsFiniteSet((((T \cup U) \cup V) \cup W) \cup X)
  BY <1>10, <1>15, FS_Union, Zenon
<1> QED BY <1>12, <1>16, Zenon

\* A random value differs from all that are in use.
LEMMA FreshIsSpare ==
  ASSUME NEW n \in Host, \A h \in Host : net[h] \in Seq(Message)
  PROVE  Spare(Fresh(n), rn[n], rn[Peer(n)], net[n], net[Peer(n)])
<1> DEFINE p == Peer(n)
<1>1. PICK used : used = UNION {TokensOf(h) : h \in Host}
  BY Zenon
<1>2. p \in Host /\ \A h \in Host : h = n \/ h = p
  BY PeerFacts, Zenon
<1> HIDE DEF p
<1>3. used = TokensOf(n) \cup TokensOf(p)
  BY <1>1, <1>2
<1>4. IsFiniteSet(used)
  BY <1>2, <1>3, TokensFinite, FS_Union, Zenon
<1>5. PICK N : N = Cardinality(used)
  BY Zenon
<1>6. N \in Nat
  BY <1>4, <1>5, FS_CardinalityType, Zenon
<1>7. \E k \in 1 .. N + 1 : <<n, k>> \notin used
  <2> SUFFICES ASSUME \A k \in 1 .. N + 1 : <<n, k>> \in used PROVE FALSE
    BY Zenon
  <2>1. PICK K : K = 1 .. N + 1
    BY Zenon
  <2>2. IsFiniteSet(K) /\ N < Cardinality(K)
    <3>1. 1 \in Int /\ N + 1 \in Int /\ ~(1 > N + 1) /\ (N + 1) - 1 + 1 = N + 1 /\ N < N + 1
      BY <1>6
    <3>2. IsFiniteSet(K) /\ Cardinality(K) = (N + 1) - 1 + 1
      BY <2>1, <3>1, FS_Interval, Zenon
    <3> QED BY <3>1, <3>2, Zenon
  <2>3. PICK f : f = [k \in K |-> <<n, k>>]
    BY Zenon
  <2>4. f \in [K -> used]
    BY <2>1, <2>3, Zenon
  <2>5. PICK x, y \in K : x # y /\ f[x] = f[y]
    BY <1>4, <1>5, <2>2, <2>4, FS_PigeonHole, Zenon
  <2>6. f[x] = <<n, x>> /\ f[y] = <<n, y>>
    BY <2>3, <2>5, Zenon
  <2>7. <<n, x>> = <<n, y>>
    BY <2>5, <2>6, Zenon
  <2>8. x = y
    BY <2>7
  <2> QED BY <2>5, <2>8, Zenon
<1>8. PICK k : k = CHOOSE i \in 1 .. N + 1 : <<n, i>> \notin used
  BY Zenon
<1>9. k \in 1 .. N + 1 /\ <<n, k>> \notin used
  BY <1>7, <1>8, Zenon
<1>10. Fresh(n) = <<n, k>>
  BY <1>1, <1>5, <1>8 DEF Fresh
<1>11. k \in Nat
  BY <1>6, <1>9
<1>12. PICK t : t = <<n, k>>
  BY Zenon
<1>13. t \in Token /\ t # None
  BY <1>11, <1>12, IkeAssumption DEF Token
<1>14. t \notin TokensOf(n) /\ t \notin TokensOf(p)
  BY <1>3, <1>9, <1>12, Zenon
<1>15. ASSUME NEW h \in Host, t \notin TokensOf(h)
       PROVE  SpareIn(t, rn[h]) /\ \A m \in Wire(net[h]) : t # m.token
  <2>1. /\ t # rn[h].pending_rekey
        /\ rn[h].ike # None => t # rn[h].ike.local_child_spi
        /\ Child(h) # None => t # Child(h).local_spi /\ t # Child(h).remote_spi
    BY <1>15, Zenon DEF TokensOf
  <2>2. rn[h].ike # None => Child(h) = rn[h].ike.child
    BY Zenon DEF Child
  <2>3. \A m \in MessagesOf(h) : t # m.token
    BY <1>15, Zenon DEF TokensOf
  <2>4. \A m \in Wire(net[h]) : m \in MessagesOf(h)
    BY Zenon DEF Wire, MessagesOf
  <2> QED BY <2>1, <2>2, <2>3, <2>4, Zenon DEF SpareIn
<1>16. Spare(t, rn[n], rn[p], net[n], net[p])
  BY <1>2, <1>13, <1>14, <1>15, Zenon DEF Spare
<1> QED BY <1>10, <1>12, <1>16, Zenon DEF p

\* The invariant of the two ends holds from the first state on and is kept by
\* every step of the Runners, until a request is executed twice or a datagram
\* is overtaken.
LEMMA IInvHolds ==
  Spec => [](InOrder => IInv)
<1>1. Init => Counted /\ IInv
  <2>1. Init => Counted
    BY DEF Init, Counted, Kinds
  <2> QED BY <2>1, InitIInv, Zenon
<1>2. ASSUME Counted, InOrder => IInv, [Next]_vars PROVE Counted' /\ (InOrder => IInv)'
  <2>1. Counted' /\ (InOrder' => InOrder)
    BY <1>2, SpentGrows, Zenon
  <2>2. ASSUME InOrder' PROVE IInv'
    <3>1. IInv
      BY <1>2, <2>1, <2>2, Zenon
    <3>2. \A h \in Host : net[h] \in Seq(Message)
      BY <3>1, Zenon DEF IInv, Pair
    <3>3. \A n \in Host : Spare(Fresh(n), rn[n], rn[Peer(n)], net[n], net[Peer(n)])
      BY <3>2, FreshIsSpare, Zenon
    <3> QED BY <1>2, <2>2, <3>1, <3>3, NextIInv
  <2> QED BY <2>1, <2>2, Zenon
<1> QED BY <1>1, <1>2, PTL DEF Spec

\* Whatever is lost, sent again, refused or restarted, and whoever rekeys, also
\* both at once: where requests are executed once, an SPI that one host sends
\* to stands at the other for keys from the same material, used in opposite
\* directions (derive_child_keys as called from handle_auth_request,
\* handle_auth_response, handle_create_child_request and
\* handle_create_child_response).  The network is taken to keep the order.
THEOREM KeysAgree ==
  ASSUME "delay" \notin Troubles
  PROVE  Spec => []SameKeyPerSpi
<1>1. IInv => SameKeyPerSpi
  <2>1. SUFFICES ASSUME IInv, NEW n \in Host, Child(n) # None, Child(Peer(n)) # None,
                        Child(n).remote_spi = Child(Peer(n)).local_spi
                 PROVE  /\ Child(n).seed = Child(Peer(n)).seed
                        /\ Child(n).outbound # Child(Peer(n)).outbound
    BY Zenon DEF SameKeyPerSpi
  <2>2. PICK a : a = rn[n]
    BY Zenon
  <2>3. PICK b : b = rn[Peer(n)]
    BY Zenon
  <2>4. Pair(n, a, b, net[n], net[Peer(n)], crossed)
    BY <2>1, <2>2, <2>3, Zenon DEF IInv
  <2>5. /\ HasChild(a) /\ Child(n) = a.ike.child /\ HasChild(b) /\ Child(Peer(n)) = b.ike.child
        /\ a.ike # None /\ b.ike # None
    BY <2>1, <2>2, <2>3, Zenon DEF Child, HasChild
  <2>6. a.ike.child.seed = b.ike.child.seed
    BY <2>1, <2>4, <2>5, Zenon DEF Pair, Whole, Half, Keyed
  <2>7. Role(n, a) /\ Role(Peer(n), b) /\ Typed(a) /\ Typed(b)
    BY <2>4, Zenon DEF Pair, Sane
  <2>8. /\ a.ike.child.seed.sa = a.ike.sa /\ a.ike.child.outbound = a.ike.role
        /\ b.ike.child.seed.sa = b.ike.sa /\ b.ike.child.outbound = b.ike.role
    BY <2>5, <2>7, Zenon DEF Role
  <2>9. a.ike.sa = b.ike.sa
    BY <2>6, <2>8, Zenon
  <2>10. a.ike.role # b.ike.role
    BY <2>1, <2>5, <2>7, <2>9, RolesDiffer, Zenon
  <2> QED BY <2>5, <2>6, <2>8, <2>10, Zenon
<1> DEFINE Kept == Counted /\ spent.delay = 0
<1>2. Init => Kept
  BY DEF Init, Counted, Kinds
<1>3. ASSUME Kept, [Next]_vars PROVE Kept'
  <2>1. \A k : Trouble(k) => k # "delay" /\ spent' = [spent EXCEPT ![k] = @ + 1]
    BY Zenon DEF Trouble
  <2>2. UNCHANGED spent \/ \E k : Trouble(k)
    BY <1>3, Zenon DEF Next, vars, Start, Receive, RetransmitTimer, DpdTimer, RekeyTimer,
             Shutdown, Update, Lose, Duplicate, Delay, Step
  <2>3. Counted'
    BY <1>3, SpentGrows, Zenon
  <2>4. "delay" \in DOMAIN spent
    BY <1>3 DEF Counted, Kinds
  <2>5. spent'.delay = 0
    BY <1>3, <2>1, <2>2, <2>4
  <2> QED BY <2>3, <2>5, Zenon
<1>4. Kept /\ (InOrder => IInv) => SameKeyPerSpi
  BY <1>1, Zenon DEF InOrder, SameKeyPerSpi
<1> HIDE DEF Kept
<1> QED BY <1>2, <1>3, <1>4, IInvHolds, PTL DEF Spec

\* Where requests are executed once and the network keeps the order: once
\* nothing is open between the two hosts, their children are the two ends of
\* one pair of SAs, unless their last rekeys overlapped (install_child replaces
\* the child at each host by itself).
THEOREM PairsAgree ==
  Spec => []AgreedUnlessCrossed
<1>1. (InOrder => IInv) => AgreedUnlessCrossed
  <2>1. SUFFICES ASSUME IInv, ~crossed, Settled, NEW n \in Host
                 PROVE  Mirrored(Child(n), Child(Peer(n)))
    BY Zenon DEF AgreedUnlessCrossed, InOrder
  <2>2. PICK a : a = rn[n]
    BY Zenon
  <2>3. PICK b : b = rn[Peer(n)]
    BY Zenon
  <2>4. Pair(n, a, b, net[n], net[Peer(n)], crossed) /\ Peer(n) \in Host
    BY <2>1, <2>2, <2>3, PeerFacts, Zenon DEF IInv
  <2>5. /\ a.pending_rekey = None /\ b.pending_rekey = None /\ a.ike.sa = b.ike.sa
        /\ Child(n) # None /\ Child(Peer(n)) # None
    BY <2>1, <2>2, <2>3, <2>4, Zenon DEF Settled
  <2>6. /\ HasChild(a) /\ Child(n) = a.ike.child /\ HasChild(b) /\ Child(Peer(n)) = b.ike.child
        /\ Same(a, b)
    BY <2>2, <2>3, <2>5, Zenon DEF Child, HasChild, Same
  <2>7. Agree(a, b, crossed)
    BY <2>4, Zenon DEF Pair, Sides, Side
  <2>8. Mirrored(a.ike.child, b.ike.child)
    BY <2>1, <2>5, <2>6, <2>7, Zenon DEF Agree
  <2> QED BY <2>6, <2>8, Zenon
<1> QED BY <1>1, IInvHolds, PTL

=============================================================================
