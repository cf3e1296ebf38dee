------------------------ MODULE MkaActivationProofs -------------------------
(***************************************************************************)
(* TLAPS proof that a key server starts to transmit last. The argument     *)
(* needs three things besides SInv: a frame in flight says what was true   *)
(* when it was sent and still is (FramesOK); a key identifier is never     *)
(* given out twice, so that what is said of one SAK is not taken for       *)
(* another (Ids, Used); and nobody transmits with a SAK before the key     *)
(* server that made it (Unshared), so that a member that becomes the key   *)
(* server does not start with a SAK that it had from its predecessor.      *)
(***************************************************************************)
EXTENDS MkaProofs

-----------------------------------------------------------------------------
(* One session; R is the history rx_ever. *)

\* The latest SAK is of the session's own making.
Own(x) == x.lki # NoKey /\ x.lki[1] = x.mi
\* Live peers advertised MACsec and told their SCI.
LiveOK(x) ==
    \A m \in DOMAIN x.peers : x.peers[m].live => x.peers[m].capable /\ x.peers[m].sci # NoSci
\* A peer that the maker of a SAK counts as ready did install it.
ReadyOK(R, x) ==
    Own(x) => \A m \in DOMAIN x.peers : x.peers[m].rx_ready => <<m, x.lki>> \in R
\* The session installed its latest SAK for reception, now or before.
InstalledOK(R, x) ==
    x.lki # NoKey => <<x.mi, x.lki>> \in R \/ \E sa \in x.dev.rx : sa.ki = x.lki
ActOK(R, x) == LiveOK(x) /\ ReadyOK(R, x) /\ InstalledOK(R, x)
AllReady(x) == \A m \in LivePeers(x) : x.peers[m].rx_ready

\* What a received frame says, mi being the receiver's member identifier.
FrameSays(R, mi, p) ==
    /\ p.mi # mi /\ p.capable /\ p.sci # NoSci
    /\ p.sak_use # NoUse /\ p.sak_use.rx => <<p.mi, p.sak_use.ki>> \in R

\* Ages and timers change nothing of this.
LEMMA QuietAct ==
    ASSUME NEW R, NEW x, ActOK(R, x), NEW y, Quiet(x, y)
    PROVE  ActOK(R, y) /\ SameSak(x, y)
<1>1. /\ SameSak(x, y) /\ DOMAIN y.peers = DOMAIN x.peers
      /\ \A m \in DOMAIN x.peers : SameEntry(x.peers[m], y.peers[m])
  BY Zenon DEF Quiet, OnlyPeers, SameEntries
<1>2. LiveOK(y)
  BY <1>1, Zenon DEF ActOK, LiveOK, SameEntry
<1>3. ReadyOK(R, y)
  BY <1>1, Zenon DEF ActOK, ReadyOK, SameEntry, Own, SameSak
<1>4. InstalledOK(R, y)
  BY <1>1, Zenon DEF ActOK, InstalledOK, SameSak
<1> QED BY <1>1, <1>2, <1>3, <1>4, Zenon DEF ActOK

\* Two steps that keep the SAK keep it together.
LEMMA SameSakTransitive ==
    ASSUME NEW x, NEW y, NEW z, SameSak(x, y), SameSak(y, z)
    PROVE  SameSak(x, z)
BY Zenon DEF SameSak

\* A frame gives its sender an SCI and a capability, and no readiness.
LEMMA UpdatedAct ==
    ASSUME NEW R, NEW x, ActOK(R, x), NEW p, FrameSays(R, x.mi, p),
           NEW y, PeerUpdated(x, y, p)
    PROVE  /\ ActOK(R, y) /\ SameSak(x, y)
           /\ y.peers[p.mi].sci # NoSci /\ y.peers[p.mi].capable
<1>1. /\ SameSak(x, y) /\ DOMAIN y.peers = DOMAIN x.peers \union {p.mi}
      /\ \A m \in DOMAIN x.peers \ {p.mi} : y.peers[m] = x.peers[m]
      /\ y.peers[p.mi].sci = p.sci /\ y.peers[p.mi].capable = p.capable
      /\ \/ p.mi \in DOMAIN x.peers /\ SameFlags(x.peers[p.mi], y.peers[p.mi])
         \/ p.mi \notin DOMAIN x.peers /\ IsNewPeer(y.peers[p.mi])
  BY Zenon DEF PeerUpdated, OnlyPeers
<1>2. y.peers[p.mi].sci # NoSci /\ y.peers[p.mi].capable
  BY <1>1, Zenon DEF FrameSays
<1>3. LiveOK(y)
  BY <1>1, <1>2, Zenon DEF ActOK, LiveOK
<1>4. ReadyOK(R, y)
  <2>1. Own(y) = Own(x) /\ y.lki = x.lki
    BY <1>1, Zenon DEF Own, SameSak
  <2>2. \A m \in DOMAIN y.peers :
           y.peers[m].rx_ready => m \in DOMAIN x.peers /\ x.peers[m].rx_ready
    BY <1>1, Zenon DEF SameFlags, IsNewPeer
  <2> QED BY <2>1, <2>2, Zenon DEF ActOK, ReadyOK
<1>5. InstalledOK(R, y)
  BY <1>1, Zenon DEF ActOK, InstalledOK, SameSak
<1> QED BY <1>1, <1>2, <1>3, <1>4, <1>5, Zenon DEF ActOK

\* A sender becomes live only once its frame gave its SCI and capability.
LEMMA PromotedAct ==
    ASSUME NEW R, NEW x, ActOK(R, x), NEW p, x.peers[p.mi].sci # NoSci,
           x.peers[p.mi].capable, NEW y, SenderPromoted(x, y, p)
    PROVE  ActOK(R, y) /\ SameSak(x, y)
<1>1. /\ SameSak(x, y) /\ DOMAIN y.peers = DOMAIN x.peers
      /\ \A m \in DOMAIN x.peers \ {p.mi} : y.peers[m] = x.peers[m]
      /\ y.peers[p.mi].sci # NoSci /\ y.peers[p.mi].capable
      /\ \A m \in DOMAIN x.peers : y.peers[m].rx_ready = x.peers[m].rx_ready
  BY Zenon DEF SenderPromoted, OnlyPeers
<1>2. LiveOK(y)
  BY <1>1, Zenon DEF ActOK, LiveOK
<1>3. ReadyOK(R, y)
  BY <1>1, Zenon DEF ActOK, ReadyOK, Own, SameSak
<1>4. InstalledOK(R, y)
  BY <1>1, Zenon DEF ActOK, InstalledOK, SameSak
<1> QED BY <1>1, <1>2, <1>3, <1>4, Zenon DEF ActOK

\* Peers learned from the list of another are neither live nor ready.
LEMMA LearnedAct ==
    ASSUME NEW R, NEW x, ActOK(R, x), NEW p, NEW y, PeersLearned(x, y, p)
    PROVE  ActOK(R, y) /\ SameSak(x, y)
<1>1. /\ SameSak(x, y) /\ DOMAIN x.peers \subseteq DOMAIN y.peers
      /\ \A m \in DOMAIN x.peers : y.peers[m] = x.peers[m]
      /\ \A m \in DOMAIN y.peers \ DOMAIN x.peers : IsNewPeer(y.peers[m])
  BY Zenon DEF PeersLearned, OnlyPeers
<1>2. LiveOK(y)
  BY <1>1, Zenon DEF ActOK, LiveOK, IsNewPeer
<1>3. ReadyOK(R, y)
  BY <1>1, Zenon DEF ActOK, ReadyOK, Own, SameSak, IsNewPeer
<1>4. InstalledOK(R, y)
  BY <1>1, Zenon DEF ActOK, InstalledOK, SameSak
<1> QED BY <1>1, <1>2, <1>3, <1>4, Zenon DEF ActOK

\* Fewer peers and a new election keep who is ready.
LEMMA ReelectedAct ==
    ASSUME NEW R, NEW x, ActOK(R, x), NEW y, Reelected(x, y), FewerPeers(x, y)
    PROVE  ActOK(R, y) /\ SameSak(x, y) /\ (AllReady(x) => AllReady(y))
<1>1. /\ SameSak(x, y) /\ DOMAIN y.peers \subseteq DOMAIN x.peers
      /\ \A m \in DOMAIN y.peers : y.peers[m] = x.peers[m]
  BY Zenon DEF Reelected, FewerPeers
<1>2. LiveOK(y)
  BY <1>1, Zenon DEF ActOK, LiveOK
<1>3. ReadyOK(R, y)
  BY <1>1, Zenon DEF ActOK, ReadyOK, Own, SameSak
<1>4. InstalledOK(R, y)
  BY <1>1, Zenon DEF ActOK, InstalledOK, SameSak
<1>5. AllReady(x) => AllReady(y)
  BY <1>1, Zenon DEF AllReady, LivePeers
<1> QED BY <1>1, <1>2, <1>3, <1>4, <1>5, Zenon DEF ActOK

\* The peers are as ready in y as they are in x.
SameReady(x, y) ==
    \A m \in DOMAIN x.peers : y.peers[m].rx_ready = x.peers[m].rx_ready

\* Changes of the flags rx_ready and rx_installed keep who is live.
LEMMA SamePeersLive ==
    ASSUME NEW x, NEW y, SamePeers(x, y)
    PROVE  /\ LivePeers(y) = LivePeers(x)
           /\ LiveOK(x) => LiveOK(y)
           /\ SameReady(x, y) /\ AllReady(x) => AllReady(y)
<1>1. LivePeers(y) = LivePeers(x)
  BY Zenon DEF SamePeers, SamePeer, LivePeers
<1>2. LiveOK(x) => LiveOK(y)
  BY Zenon DEF SamePeers, SamePeer, LiveOK
<1>3. SameReady(x, y) /\ AllReady(x) => AllReady(y)
  BY <1>1, Zenon DEF AllReady, SameReady, LivePeers
<1> QED BY <1>1, <1>2, <1>3, Zenon

\* A key server counts a peer as ready only on the word of a frame about its
\* SAK.
LEMMA UsedAct ==
    ASSUME NEW R, NEW x, ActOK(R, x), SessionOK(x), NEW p, FrameSays(R, x.mi, p),
           NEW y, CountsReceivers(x, y, p) \/ Follows(x, y, p)
    PROVE  ActOK(R, y) /\ y.mi = x.mi /\ y.next_kn = x.next_kn /\ y.lki = x.lki
<1>1. /\ y.mi = x.mi /\ y.next_kn = x.next_kn /\ y.lki = x.lki /\ SamePeers(x, y)
      /\ y.dev = x.dev \/ y.dev = SetTxSaActive(x.dev, x.lan)
      /\ \A m \in DOMAIN x.peers : \/ y.peers[m].rx_ready = x.peers[m].rx_ready
                                   \/ m = p.mi /\ y.peers[m].rx_ready = p.sak_use.rx
      /\ p.sak_use # NoUse /\ p.sak_use.ki = x.lki
  <2>1. CASE CountsReceivers(x, y, p)
    BY <2>1, Zenon DEF CountsReceivers, SakUseMatches, SameMember, SamePeers
  <2>2. CASE Follows(x, y, p)
    BY <2>2, Zenon DEF Follows, Transmits, SakUseMatches, SameMember, SamePeers, SamePeer
  <2> QED BY <2>1, <2>2, Zenon
<1>2. y.dev.rx = x.dev.rx
  BY <1>1, TxSaActivated DEF SessionOK, Shaped, TxSas, TxOK
<1>3. LiveOK(y)
  BY <1>1, SamePeersLive, Zenon DEF ActOK
<1>4. ReadyOK(R, y)
  <2>1. Own(y) = Own(x)
    BY <1>1, Zenon DEF Own
  <2>2. \A m \in DOMAIN y.peers : y.peers[m].rx_ready =>
           x.peers[m].rx_ready \/ <<m, x.lki>> \in R
    BY <1>1, Zenon DEF FrameSays, SamePeers
  <2> QED BY <1>1, <2>1, <2>2, Zenon DEF ActOK, ReadyOK, SamePeers
<1>5. InstalledOK(R, y)
  BY <1>1, <1>2, Zenon DEF ActOK, InstalledOK
<1> QED BY <1>1, <1>3, <1>4, <1>5, Zenon DEF ActOK

\* A SAK taken from a frame is not of the session's own making.
LEMMA TookAct ==
    ASSUME NEW R, NEW x, ActOK(R, x), SessionOK(x), NEW p, FrameSays(R, x.mi, p),
           NEW y, TakesSak(x, y, p)
    PROVE  ActOK(R, y) /\ ~Own(y)
<1>1. PICK scis : scis = LivePeerScis(x) \union {x.peers[p.mi].sci}
  BY Zenon
<1>2. /\ y.mi = x.mi /\ SamePeers(x, y) /\ y.lki = <<p.mi, p.dist_sak.kn>>
      /\ y.dev = InstallTxSa(InstallRxSas(x.dev, scis, y.lan, y.lki), y.lan, y.lki)
  BY <1>1, Zenon DEF TakesSak, SameMember, SamePeers
<1>3. ~Own(y)
  BY <1>2 DEF Own, FrameSays
<1>4. PICK d : d = InstallRxSas(x.dev, scis, y.lan, y.lki)
  BY Zenon
<1>5. /\ IsDev(d) /\ d.tx = x.dev.tx
      /\ \A sci \in scis : [sci |-> sci, an |-> y.lan, ki |-> y.lki] \in d.rx
  BY <1>4, RxSasInstalled DEF SessionOK, Shaped
<1>6. y.dev.rx = d.rx
  BY <1>2, <1>4, <1>5, TxSaInstalled, SMTT(30) DEF SessionOK, Shaped, TxSas
<1>7. \E sa \in y.dev.rx : sa.ki = y.lki
  <2>1. PICK sci \in scis : TRUE
    BY <1>1, Zenon
  <2>2. PICK sa : sa = [sci |-> sci, an |-> y.lan, ki |-> y.lki]
    BY Zenon
  <2>3. sa \in d.rx
    BY <1>5, <2>2, Zenon
  <2>4. sa.ki = y.lki
    BY <2>2, Zenon
  <2> QED BY <1>6, <2>3, <2>4, Zenon
<1>8. LiveOK(y)
  BY <1>2, SamePeersLive, Zenon DEF ActOK
<1> QED BY <1>3, <1>7, <1>8, Zenon DEF ActOK, ReadyOK, InstalledOK

\* A SAK just made is installed for reception, and nobody counts as ready.
LEMMA MadeAct ==
    ASSUME NEW R, NEW x, ActOK(R, x), SessionOK(x), HasLivePeer(x), NEW y, MakesSak(x, y)
    PROVE  ActOK(R, y)
<1>1. PICK scis : scis = LivePeerScis(x)
  BY Zenon
<1>2. /\ SamePeers(x, y)
      /\ y.dev = InstallRxSas(InstallTxSa(x.dev, y.lan, y.lki), scis, y.lan, y.lki)
      /\ \A m \in DOMAIN x.peers : y.peers[m].rx_ready = FALSE
  BY <1>1, Zenon DEF MakesSak, SamePeers
<1>3. PICK d : d = InstallTxSa(x.dev, y.lan, y.lki)
  BY Zenon
<1>4. IsDev(d)
  BY <1>3, TxSaInstalled, Zenon DEF SessionOK, Shaped, TxSas
<1>5. \A sci \in scis : [sci |-> sci, an |-> y.lan, ki |-> y.lki] \in y.dev.rx
  BY <1>2, <1>3, <1>4, RxSasInstalled
<1>6. PICK m \in LivePeers(x) : TRUE
  BY Zenon DEF HasLivePeer
<1>7. x.peers[m].sci \in scis
  BY <1>1, <1>6, Zenon DEF LivePeerScis, LivePeers, ActOK, LiveOK
<1>8. \E sa \in y.dev.rx : sa.ki = y.lki
  BY <1>5, <1>7, Zenon
<1>9. LiveOK(y)
  BY <1>2, SamePeersLive, Zenon DEF ActOK
<1> QED BY <1>2, <1>8, <1>9, Zenon DEF ActOK, ReadyOK, InstalledOK, SamePeers

\* More RX SAs change neither SAK nor readiness.
LEMMA ReceivedAct ==
    ASSUME NEW R, NEW x, ActOK(R, x), SessionOK(x), NEW scis, NEW y, Receives(x, y, scis)
    PROVE  /\ ActOK(R, y) /\ y.mi = x.mi /\ y.next_kn = x.next_kn /\ y.lki = x.lki
           /\ y.ltx = x.ltx /\ SamePeers(x, y) /\ SameReady(x, y)
<1>1. /\ y.mi = x.mi /\ y.next_kn = x.next_kn /\ y.lki = x.lki /\ y.lan = x.lan
      /\ y.ltx = x.ltx /\ SamePeers(x, y) /\ SameReady(x, y)
      /\ y.dev = InstallRxSas(x.dev, scis, x.lan, x.lki)
  BY Zenon DEF Receives, SameMember, SamePeers, SameReady
<1>2. /\ \A sci \in scis : [sci |-> sci, an |-> x.lan, ki |-> x.lki] \in y.dev.rx
      /\ \A sa \in x.dev.rx : ~(sa.sci \in scis) => sa \in y.dev.rx
  BY <1>1, RxSasInstalled, SMTT(30) DEF SessionOK, Shaped
<1>3. ASSUME NEW sa \in x.dev.rx, sa.ki = x.lki PROVE \E s \in y.dev.rx : s.ki = y.lki
  <2>1. CASE sa.sci \in scis
    BY <1>1, <1>2, <2>1, Zenon
  <2>2. CASE sa.sci \notin scis
    BY <1>1, <1>2, <1>3, <2>2, Zenon
  <2> QED BY <2>1, <2>2, Zenon
<1>4. InstalledOK(R, y)
  BY <1>1, <1>3, Zenon DEF ActOK, InstalledOK
<1>5. LiveOK(y)
  BY <1>1, SamePeersLive, Zenon DEF ActOK
<1>6. ReadyOK(R, y)
  BY <1>1, Zenon DEF ActOK, ReadyOK, Own, SamePeers, SameReady
<1> QED BY <1>1, <1>4, <1>5, <1>6, Zenon DEF ActOK

\* A session without a SAK has nothing to account for.
LEMMA DroppedAct ==
    ASSUME NEW R, NEW x, ActOK(R, x), NEW y, DropsSak(x, y)
    PROVE  ActOK(R, y)
<1>1. y.lki = NoKey /\ SamePeers(x, y)
  BY Zenon DEF DropsSak, SamePeers
<1>2. LiveOK(y)
  BY <1>1, SamePeersLive, Zenon DEF ActOK
<1> QED BY <1>1, <1>2, Zenon DEF ActOK, ReadyOK, InstalledOK, Own

-----------------------------------------------------------------------------
(* Where a latest SAK, and the right to transmit with it, come from *)

\* The SAK that a frame says its sender transmits with, and the one it
\* distributes.
SentKeys(p) == IF p.sak_use # NoUse /\ p.sak_use.tx THEN {p.sak_use.ki} ELSE {}
DistKeys(p) == IF p.dist_sak # NoDist THEN {<<p.mi, p.dist_sak.kn>>} ELSE {}

\* y has a SAK it made since x.
Fresh(x, y) ==
    \E kn \in Nat : y.lki = <<x.mi, kn>> /\ x.next_kn <= kn /\ kn < y.next_kn

\* Session x became y: its SAK is the one it had, one of D or fresh, and it
\* transmits because it did before, because the frame said so (T), or as a
\* server whose live peers are all ready.
KeyCause(x, y, D) ==
    /\ y.mi = x.mi /\ x.next_kn \in Nat /\ y.next_kn \in Nat /\ x.next_kn <= y.next_kn
    /\ y.lki # NoKey => y.lki = x.lki \/ y.lki \in D \/ Fresh(x, y)
    /\ Own(y) /\ ~y.ltx => (y.lki = x.lki /\ ~x.ltx) \/ Fresh(x, y)
TxCause(x, y, T) == (y.lki = x.lki /\ x.ltx) \/ y.lki \in T
ServerTx(y) == AllReady(y) /\ (Own(y) \/ (y.is_key_server /\ HasLivePeer(y)))
Pending(x, y, T, D) ==
    KeyCause(x, y, D) /\ (y.ltx => TxCause(x, y, T) \/ ServerTx(y))
Cause(x, y, T, D) ==
    KeyCause(x, y, D) /\ (y.ltx => TxCause(x, y, T) \/ (Own(y) /\ AllReady(y)))

\* A step that keeps the SAK needs no cause.
LEMMA SameSakCause ==
    ASSUME NEW x, NEW y, SameSak(x, y), x.next_kn \in Nat, NEW T, NEW D
    PROVE  Cause(x, y, T, D)
BY DEF SameSak, Cause, KeyCause, TxCause

\* y has the SAK of w, with the same use of it.
LEMMA KeepsCause ==
    ASSUME NEW x, NEW w, NEW T, NEW D, Cause(x, w, T, D), NEW y,
           y.mi = w.mi, y.next_kn = w.next_kn, y.lki = w.lki, y.ltx = w.ltx,
           AllReady(w) => AllReady(y)
    PROVE  Cause(x, y, T, D)
<1>1. Own(y) = Own(w) /\ Fresh(x, y) = Fresh(x, w) /\ TxCause(x, y, T) = TxCause(x, w, T)
  BY Zenon DEF Own, Fresh, TxCause
<1>2. KeyCause(x, y, D)
  BY <1>1, Zenon DEF Cause, KeyCause
<1> QED BY <1>1, <1>2, Zenon DEF Cause

\* What makes a session transmit when it handles SAK Use.
LEMMA UsedCause ==
    ASSUME NEW x, NEW d, SameSak(x, d), x.next_kn \in Nat, NEW p, NEW D,
           p.mi \in DOMAIN d.peers, NEW e, CountsReceivers(d, e, p) \/ Follows(d, e, p)
    PROVE  Pending(x, e, SentKeys(p), D)
<1>1. CASE CountsReceivers(d, e, p)
  <2>1. /\ e.mi = x.mi /\ e.next_kn = x.next_kn /\ e.lki = x.lki /\ e.is_key_server
        /\ SamePeers(d, e) /\ d.peers[p.mi].live
        /\ \/ e.ltx = x.ltx
           \/ e.ltx = TRUE /\ \A m \in LivePeers(e) : e.peers[m].rx_ready
    BY <1>1, Zenon DEF CountsReceivers, SameMember, SameSak, SamePeers
  <2>2. p.mi \in LivePeers(e)
    BY <2>1, SamePeersLive, Zenon DEF LivePeers
  <2>3. KeyCause(x, e, D)
    BY <2>1 DEF KeyCause
  <2>4. e.ltx => TxCause(x, e, SentKeys(p)) \/ ServerTx(e)
    BY <2>1, <2>2, Zenon DEF TxCause, ServerTx, HasLivePeer, AllReady
  <2> QED BY <2>3, <2>4, Zenon DEF Pending
<1>2. CASE Follows(d, e, p)
  <2>1. /\ e.mi = x.mi /\ e.next_kn = x.next_kn /\ e.lki = x.lki /\ e.ltx = TRUE
        /\ p.sak_use # NoUse /\ p.sak_use.tx /\ p.sak_use.ki = x.lki
    BY <1>2, Zenon DEF Follows, Transmits, SameMember, SameSak, SakUseMatches
  <2>2. e.lki \in SentKeys(p)
    BY <2>1, Zenon DEF SentKeys
  <2> QED BY <2>1, <2>2 DEF Pending, KeyCause, TxCause
<1> QED BY <1>1, <1>2, Zenon

\* What gives a session a distributed SAK.
LEMMA TookCause ==
    ASSUME NEW x, NEW e, NEW T, NEW p, Pending(x, e, T, DistKeys(p)),
           DistSakApplies(e, p), NEW f, TakesSak(e, f, p), ~Own(f)
    PROVE  Pending(x, f, T, DistKeys(p))
<1>1. /\ f.mi = e.mi /\ f.next_kn = e.next_kn /\ f.ltx = FALSE
      /\ f.lki = <<p.mi, p.dist_sak.kn>>
  BY Zenon DEF TakesSak, SameMember
<1>2. f.lki \in DistKeys(p)
  BY <1>1, Zenon DEF DistSakApplies, DistKeys
<1> QED BY <1>1, <1>2, Zenon DEF Pending, KeyCause

\* After ensure_sak a key server with live peers has a SAK of its own: one that
\* it inherited as a member is replaced, and not transmitted with.
LEMMA EnsuredCause ==
    ASSUME NEW x, NEW f, NEW T, NEW D, Pending(x, f, T, D), LiveOK(f),
           NEW g, SakEnsured(f, g)
    PROVE  Cause(x, g, T, D) /\ (g.is_key_server /\ g.ltx /\ HasLivePeer(g) => Own(g))
<1>1. CASE g = f /\ ~SakWanted(f)
  <2>1. PeersSupportMacsec(f)
    BY Zenon DEF LiveOK, PeersSupportMacsec, LivePeers
  <2>2. f.is_key_server /\ HasLivePeer(f) => Own(f)
    BY <1>1, <2>1, Zenon DEF SakWanted, SakDue, Own
  <2> QED BY <1>1, <2>2, Zenon DEF Pending, Cause, ServerTx
<1>2. CASE MakesSak(f, g)
  <2>1. /\ g.mi = f.mi /\ g.lki = <<f.mi, f.next_kn>> /\ g.ltx = FALSE
        /\ g.next_kn = f.next_kn + 1
    BY <1>2, Zenon DEF MakesSak
  <2>2. Fresh(x, g)
    BY <2>1 DEF Fresh, Pending, KeyCause
  <2> QED BY <2>1, <2>2 DEF Pending, Cause, KeyCause
<1> QED BY <1>1, <1>2, Zenon DEF SakEnsured

\* The stronger account implies the weaker.
LEMMA CausePending ==
    ASSUME NEW x, NEW y, NEW T, NEW D, Cause(x, y, T, D)
    PROVE  Pending(x, y, T, D)
BY Zenon DEF Cause, Pending, ServerTx

\* A SAK that is dropped needs no cause.
LEMMA DroppedCause ==
    ASSUME NEW x, NEW u, NEW T, NEW D, Cause(x, u, T, D), NEW v, SakDropped(u, v)
    PROVE  Cause(x, v, T, D)
<1>1. CASE v = u
  BY <1>1, Zenon
<1>2. CASE DropsSak(u, v)
  BY <1>2, Zenon DEF DropsSak, SameMember, Cause, KeyCause, Own
<1> QED BY <1>1, <1>2, Zenon DEF SakDropped

-----------------------------------------------------------------------------
(* The steps of a session *)

\* handle_frame: where the SAK and its use come from.
LEMMA HandleFrameAct ==
    ASSUME NEW R, NEW n, NEW x, SessionOK(x), ActOK(R, x), x.next_kn \in Nat,
           NEW p, FrameSays(R, x.mi, p), NEW y \in HandleFrame(n, x, p)
    PROVE  ActOK(R, y) /\ Cause(x, y, SentKeys(p), DistKeys(p))
<1> DEFINE T == SentKeys(p)
           D == DistKeys(p)
<1>1. y = x \/ \E e : Heard(x, p, e) /\ Settled(e, p, y)
  BY HandleFrameOK, Zenon
<1>2. ASSUME NEW e, Heard(x, p, e)
      PROVE  SessionOK(e) /\ ActOK(R, e) /\ Pending(x, e, T, D) /\ e.mi = x.mi
  <2>1. PICK a, b, c, d :
          /\ SessionOK(d) /\ SessionOK(e)
          /\ PeerUpdated(x, a, p) /\ SenderPromoted(a, b, p) /\ PeersLearned(b, c, p)
          /\ Reelected(c, d) /\ d.peers = c.peers
          /\ e = d \/ CountsReceivers(d, e, p) \/ Follows(d, e, p)
    BY <1>2, Zenon DEF Heard
  <2>2. /\ ActOK(R, a) /\ SameSak(x, a)
        /\ a.peers[p.mi].sci # NoSci /\ a.peers[p.mi].capable
    BY <2>1, UpdatedAct, Zenon
  <2>3. ActOK(R, b) /\ SameSak(a, b)
    BY <2>1, <2>2, PromotedAct, Zenon
  <2>4. ActOK(R, c) /\ SameSak(b, c)
    BY <2>1, <2>3, LearnedAct, Zenon
  <2>5. FewerPeers(c, d)
    BY <2>1, Zenon DEF FewerPeers
  <2>6. ActOK(R, d) /\ SameSak(c, d)
    BY <2>1, <2>4, <2>5, ReelectedAct, Zenon
  <2>7. SameSak(x, d)
    BY <2>2, <2>3, <2>4, <2>6, SameSakTransitive, Zenon
  <2>8. p.mi \in DOMAIN d.peers
    BY <2>1, Zenon DEF PeerUpdated, SenderPromoted, PeersLearned
  <2>9. d.mi = x.mi
    BY <2>7, Zenon DEF SameSak
  <2>10. CASE e = d
    BY <2>1, <2>6, <2>7, <2>9, <2>10, SameSakCause, CausePending, Zenon
  <2>11. CASE CountsReceivers(d, e, p) \/ Follows(d, e, p)
    <3>1. Pending(x, e, T, D)
      BY <2>7, <2>8, <2>11, UsedCause, Zenon
    <3>2. ActOK(R, e) /\ e.mi = d.mi
      BY <2>1, <2>6, <2>9, <2>11, UsedAct
    <3> QED BY <2>1, <2>9, <3>1, <3>2, Zenon
  <2> QED BY <2>1, <2>10, <2>11, Zenon
<1>3. ASSUME NEW e, SessionOK(e), ActOK(R, e), Pending(x, e, T, D), e.mi = x.mi,
             Settled(e, p, y)
      PROVE  ActOK(R, y) /\ Cause(x, y, T, D)
  <2>1. CASE y = e /\ DistSakApplies(e, p)
    <3>1. ~e.is_key_server
      BY <2>1, Zenon DEF DistSakApplies
    <3>2. Cause(x, e, T, D)
      BY <1>3, <3>1, Zenon DEF Pending, Cause, ServerTx
    <3> QED BY <1>3, <2>1, <3>2, Zenon
  <2>2. ASSUME NEW f, NEW g, SessionOK(f), SessionOK(g),
               f = e \/ (DistSakApplies(e, p) /\ TakesSak(e, f, p)), SakEnsured(f, g),
               y = g \/ Receives(g, y, PendingRxScis(g))
        PROVE  ActOK(R, y) /\ Cause(x, y, T, D)
    <3>1. ActOK(R, f) /\ Pending(x, f, T, D)
      <4>1. CASE f = e
        BY <1>3, <4>1, Zenon
      <4>2. CASE DistSakApplies(e, p) /\ TakesSak(e, f, p)
        <5>1. ActOK(R, f) /\ ~Own(f)
          BY <1>3, <4>2, TookAct, Zenon
        <5> QED BY <1>3, <4>2, <5>1, TookCause, Zenon
      <4> QED BY <2>2, <4>1, <4>2, Zenon
    <3>2. Cause(x, g, T, D)
      BY <2>2, <3>1, EnsuredCause, Zenon DEF ActOK
    <3>3. ActOK(R, g)
      BY <2>2, <3>1, MadeAct, Zenon DEF SakEnsured, SakWanted
    <3>4. CASE y = g
      BY <3>2, <3>3, <3>4, Zenon
    <3>5. CASE Receives(g, y, PendingRxScis(g))
      <4>1. /\ ActOK(R, y) /\ y.mi = g.mi /\ y.next_kn = g.next_kn /\ y.lki = g.lki
            /\ y.ltx = g.ltx /\ SamePeers(g, y) /\ SameReady(g, y)
        BY <2>2, <3>3, <3>5, ReceivedAct, Zenon
      <4>2. AllReady(g) => AllReady(y)
        BY <4>1, SamePeersLive, Zenon
      <4> QED BY <3>2, <4>1, <4>2, KeepsCause, Zenon
    <3> QED BY <2>2, <3>4, <3>5, Zenon
  <2> QED BY <1>3, <2>1, <2>2, Zenon DEF Settled
<1>4. CASE y = x
  <2>1. SameSak(x, x)
    BY Zenon DEF SameSak
  <2> QED BY <1>4, <2>1, SameSakCause, Zenon
<1> QED BY <1>1, <1>2, <1>3, <1>4, Zenon

\* run() after the wait: a key server that transmits to live peers does so with
\* a SAK of its own.
LEMMA BottomAct ==
    ASSUME NEW R, NEW x, NEW T, NEW D, NEW y, ActOK(R, y), Cause(x, y, T, D),
           NEW z, BottomStep(y, z)
    PROVE  /\ ActOK(R, z) /\ Cause(x, z, T, D)
           /\ z.is_key_server /\ z.ltx /\ HasLivePeer(z) => Own(z)
<1>1. PICK u, v : /\ SessionOK(u) /\ SessionOK(v)
                  /\ Reelected(y, u) /\ FewerPeers(y, u)
                  /\ SakDropped(u, v) /\ SakEnsured(v, z)
  BY Zenon DEF BottomStep
<1>2. ActOK(R, u) /\ SameSak(y, u) /\ (AllReady(y) => AllReady(u))
  BY <1>1, ReelectedAct, Zenon
<1>3. Cause(x, u, T, D)
  BY <1>2, KeepsCause, Zenon DEF SameSak
<1>4. ActOK(R, v) /\ Cause(x, v, T, D)
  BY <1>1, <1>2, <1>3, DroppedAct, DroppedCause, Zenon DEF SakDropped
<1>5. Cause(x, z, T, D) /\ (z.is_key_server /\ z.ltx /\ HasLivePeer(z) => Own(z))
  BY <1>1, <1>4, EnsuredCause, CausePending, Zenon DEF ActOK
<1>6. ActOK(R, z)
  BY <1>1, <1>4, MadeAct, Zenon DEF SakEnsured, SakWanted
<1> QED BY <1>5, <1>6, Zenon

\* run() up to the wait starts no transmission.
LEMMA TopAct ==
    ASSUME NEW R, NEW x, ActOK(R, x), x.lki # NoKey => <<x.mi, x.lki>> \in R,
           x.next_kn \in Nat, NEW z, TopStep(x, z)
    PROVE  ActOK(R, z) /\ Cause(x, z, {}, {}) /\ (z.ltx => x.ltx)
<1>1. PICK u, v : /\ Reelected(x, u) /\ FewerPeers(x, u)
                  /\ ChannelsRemoved(u, v, ExpiredScis(x)) /\ SakDropped(v, z)
  BY Zenon DEF TopStep
<1>2. ActOK(R, u) /\ SameSak(x, u)
  BY <1>1, ReelectedAct, Zenon
<1>3. /\ v.mi = u.mi /\ v.next_kn = u.next_kn /\ v.lki = u.lki /\ v.ltx = u.ltx
      /\ v.peers = u.peers
  BY <1>1, Zenon DEF ChannelsRemoved, SameMember
<1>4. u.lki # NoKey => <<u.mi, u.lki>> \in R
  BY <1>2, Zenon DEF SameSak
<1>5. ActOK(R, v)
  BY <1>2, <1>3, <1>4, Zenon DEF ActOK, LiveOK, ReadyOK, InstalledOK, Own
<1>6. Cause(x, u, {}, {})
  BY <1>2, SameSakCause, Zenon
<1>7. Cause(x, v, {}, {})
  BY <1>3, <1>6, KeepsCause, Zenon DEF AllReady, LivePeers
<1>8. Cause(x, z, {}, {})
  BY <1>1, <1>7, DroppedCause, Zenon
<1>9. ActOK(R, z)
  BY <1>1, <1>5, DroppedAct, Zenon DEF SakDropped
<1>10. z.ltx => x.ltx
  BY <1>1, <1>2, <1>3, Zenon DEF SakDropped, DropsSak, SameSak
<1> QED BY <1>8, <1>9, <1>10, Zenon

-----------------------------------------------------------------------------
(* All sessions s, and the history R *)

\* Member identifiers name their node, and key numbers are numbers.
Ids(s) ==
    \A n \in Node : /\ s[n].mi = <<n, s[n].mi[2]>> /\ s[n].mi[2] \in Nat
                    /\ s[n].next_kn \in Nat
\* The key identifier K was given out: by an earlier session of its node, or by
\* the present one.
Used(s, K) ==
    /\ K[1][1] \in Node
    /\ \/ K[1][2] \in Nat /\ K[1][2] < s[K[1][1]].mi[2]
       \/ K[1] = s[K[1][1]].mi /\ K[2] \in Nat /\ K[2] < s[K[1][1]].next_kn
\* The latest SAK of a session was given out, and the session installed it.
KeyOK(s, R, n) ==
    /\ LiveOK(s[n]) /\ ReadyOK(R, s[n])
    /\ s[n].lki # NoKey => <<s[n].mi, s[n].lki>> \in R /\ Used(s, s[n].lki)
\* Nobody transmits with a SAK before its maker does.
Unshared(s) ==
    \A a \in Node : Own(s[a]) /\ ~s[a].ltx =>
        \A b \in Node \ {a} : ~(s[b].lki = s[a].lki /\ s[b].ltx)
\* The maker of K, while it holds K, transmits with it.
Transmitted(s, K) == \A k \in Node : s[k].lki = K /\ Own(s[k]) => s[k].ltx

\* What holds of all sessions.
SessionsOK(s, R) == Ids(s) /\ (\A n \in Node : KeyOK(s, R, n)) /\ Unshared(s)

\* What a step keeps: used key identifiers stay used, and those that are
\* transmitted with stay so.
Grows(s, t) ==
    /\ \A K : Used(s, K) => Used(t, K)
    /\ \A K : Used(s, K) /\ Transmitted(s, K) => Transmitted(t, K)

\* Only session n changes its SAK.
Others(s, t, R, n) ==
    \A m \in Node \ {n} : SameSak(s[m], t[m]) /\ LiveOK(t[m]) /\ ReadyOK(R, t[m])

\* The identifier of a SAK that is only just made was never used before.
LEMMA FreshUnused ==
    ASSUME NEW s, Ids(s), NEW n \in Node, NEW w, Fresh(s[n], w)
    PROVE  ~Used(s, w.lki)
<1>1. PICK kn \in Nat : w.lki = <<s[n].mi, kn>> /\ s[n].next_kn <= kn
  BY Zenon DEF Fresh
<1>2. PICK j \in Nat : s[n].mi = <<n, j>> /\ s[n].next_kn \in Nat
  BY Zenon DEF Ids
<1>3. PICK K : K = w.lki
  BY Zenon
<1>4. K[1] = s[n].mi /\ K[1][1] = n /\ K[1][2] = j /\ K[2] = kn /\ s[n].mi[2] = j
  BY <1>1, <1>2, <1>3
<1>5. ~Used(s, K)
  BY <1>1, <1>2, <1>4 DEF Used
<1> QED BY <1>3, <1>5, Zenon

\* A step of session n that accounts for its SAK keeps what holds of all
\* sessions: nobody else can hold a fresh SAK, and a SAK that is followed is
\* transmitted with by its maker.
LEMMA KeyStep ==
    ASSUME NEW s, NEW t, NEW R, NEW S, R \subseteq S, SessionsOK(s, R),
           NEW n \in Node, Others(s, t, R, n),
           NEW T, NEW D, Cause(s[n], t[n], T, D), ActOK(R, t[n]),
           t[n].lki # NoKey => <<t[n].mi, t[n].lki>> \in S,
           \A K \in T : Used(s, K) /\ Transmitted(s, K),
           \A K \in D : Used(s, K) /\ K[1] # s[n].mi
    PROVE  SessionsOK(t, S) /\ Grows(s, t)
<1>1. Ids(s) /\ (\A m \in Node : KeyOK(s, R, m)) /\ Unshared(s)
  BY Zenon DEF SessionsOK
<1>2. /\ t[n].mi = s[n].mi /\ s[n].next_kn \in Nat /\ t[n].next_kn \in Nat
      /\ s[n].next_kn <= t[n].next_kn
      /\ t[n].lki # NoKey => t[n].lki = s[n].lki \/ t[n].lki \in D \/ Fresh(s[n], t[n])
      /\ Own(t[n]) /\ ~t[n].ltx => (t[n].lki = s[n].lki /\ ~s[n].ltx) \/ Fresh(s[n], t[n])
      /\ t[n].ltx => \/ t[n].lki = s[n].lki /\ s[n].ltx
                     \/ t[n].lki \in T
                     \/ Own(t[n])
  BY Zenon DEF Cause, KeyCause, TxCause
<1>3. \A m \in Node \ {n} :
         /\ t[m].mi = s[m].mi /\ t[m].next_kn = s[m].next_kn
         /\ t[m].lki = s[m].lki /\ t[m].ltx = s[m].ltx
  BY Zenon DEF Others, SameSak
<1>4. Ids(t)
  BY <1>1, <1>2, <1>3, Zenon DEF Ids
<1>5. ASSUME NEW K, Used(s, K) PROVE Used(t, K)
  <2>1. PICK o \in Node : o = K[1][1]
    BY <1>5, Zenon DEF Used
  <2>2. /\ s[o].mi[2] \in Nat /\ t[o].mi = s[o].mi /\ s[o].next_kn \in Nat
        /\ t[o].next_kn \in Nat /\ s[o].next_kn <= t[o].next_kn
    BY <1>1, <1>2, <1>3 DEF Ids
  <2>3. \/ K[1][2] \in Nat /\ K[1][2] < s[o].mi[2]
        \/ K[1] = s[o].mi /\ K[2] \in Nat /\ K[2] < s[o].next_kn
    BY <1>5, <2>1, Zenon DEF Used
  <2>4. \/ K[1][2] \in Nat /\ K[1][2] < t[o].mi[2]
        \/ K[1] = t[o].mi /\ K[2] \in Nat /\ K[2] < t[o].next_kn
    BY <2>2, <2>3
  <2> QED BY <2>1, <2>4, Zenon DEF Used
<1>6. ASSUME Fresh(s[n], t[n]) PROVE ~Used(s, t[n].lki) /\ Used(t, t[n].lki)
  <2>1. PICK kn \in Nat : /\ t[n].lki = <<s[n].mi, kn>> /\ s[n].next_kn <= kn
                          /\ kn < t[n].next_kn
    BY <1>6, Zenon DEF Fresh
  <2>2. PICK j \in Nat : s[n].mi = <<n, j>>
    BY <1>1, Zenon DEF Ids
  <2>3. PICK K : K = t[n].lki
    BY Zenon
  <2>4. K[1] = s[n].mi /\ K[1][1] = n /\ K[1][2] = j /\ K[2] = kn /\ s[n].mi[2] = j
    BY <2>1, <2>2, <2>3
  <2>5. ~Used(s, K)
    BY <1>2, <2>1, <2>4 DEF Used
  <2>6. Used(t, K)
    BY <1>2, <2>1, <2>4, Zenon DEF Used
  <2> QED BY <2>3, <2>5, <2>6, Zenon
<1>7. t[n].lki # NoKey => Used(t, t[n].lki)
  BY <1>1, <1>2, <1>5, <1>6, Zenon DEF KeyOK
<1>8. ASSUME NEW m \in Node PROVE KeyOK(t, S, m)
  <2>1. CASE m = n
    <3>1. LiveOK(t[n]) /\ ReadyOK(S, t[n])
      BY Zenon DEF ActOK, ReadyOK
    <3> QED BY <1>7, <2>1, <3>1, Zenon DEF KeyOK
  <2>2. CASE m # n
    <3>1. LiveOK(t[m]) /\ ReadyOK(S, t[m])
      BY <2>2, Zenon DEF Others, ReadyOK
    <3>2. t[m].lki # NoKey => <<t[m].mi, t[m].lki>> \in S /\ Used(t, t[m].lki)
      BY <1>1, <1>3, <1>5, <2>2, Zenon DEF KeyOK
    <3> QED BY <3>1, <3>2, Zenon DEF KeyOK
  <2> QED BY <2>1, <2>2, Zenon
<1>9. \A m \in Node : Own(s[m]) => s[m].lki # NoKey /\ s[m].lki[1] = s[m].mi
  BY Zenon DEF Own
<1>10. \A m \in Node \ {n} : Own(t[m]) = Own(s[m])
  BY <1>3, Zenon DEF Own
<1>11. t[n].lki = s[n].lki => Own(t[n]) = Own(s[n])
  BY <1>2, Zenon DEF Own
<1>12. Unshared(t)
  <2> SUFFICES ASSUME NEW a \in Node, Own(t[a]), ~t[a].ltx, NEW b \in Node \ {a},
                      t[b].lki = t[a].lki, t[b].ltx
               PROVE  FALSE
    BY Zenon DEF Unshared
  <2>0. t[b].lki # NoKey
    BY Zenon DEF Own
  <2>1. CASE a = n
    <3>1. t[b].lki = s[b].lki /\ t[b].ltx = s[b].ltx
      BY <1>3, <2>1, Zenon
    <3>2. CASE t[n].lki = s[n].lki /\ ~s[n].ltx
      BY <1>1, <1>11, <2>1, <3>1, <3>2, Zenon DEF Unshared
    <3>3. CASE Fresh(s[n], t[n])
      <4>1. Used(s, s[b].lki)
        BY <1>1, <2>0, <3>1, Zenon DEF KeyOK
      <4> QED BY <1>6, <2>1, <3>1, <3>3, <4>1, Zenon
    <3> QED BY <1>2, <2>1, <3>2, <3>3, Zenon
  <2>2. CASE b = n
    <3>1. t[a].lki = s[a].lki /\ t[a].ltx = s[a].ltx /\ Own(s[a]) /\ t[a].mi = s[a].mi
      BY <1>3, <1>10, <2>2, Zenon
    <3>2. CASE t[n].lki = s[n].lki /\ s[n].ltx
      BY <1>1, <2>2, <3>1, <3>2, Zenon DEF Unshared
    <3>3. CASE t[n].lki \in T
      BY <2>2, <3>1, <3>3, Zenon DEF Transmitted
    <3>4. CASE Own(t[n])
      <4>1. t[n].mi = t[a].mi
        BY <2>2, <3>4, Zenon DEF Own
      <4>2. t[n].mi[1] = n /\ t[a].mi[1] = a
        BY <1>4 DEF Ids
      <4> QED BY <2>2, <4>1, <4>2, Zenon
    <3> QED BY <1>2, <2>2, <3>2, <3>3, <3>4, Zenon
  <2>3. CASE a # n /\ b # n
    BY <1>1, <1>3, <1>10, <2>3, Zenon DEF Unshared
  <2> QED BY <2>1, <2>2, <2>3, Zenon
<1>13. ASSUME NEW K, Used(s, K), Transmitted(s, K) PROVE Transmitted(t, K)
  <2> SUFFICES ASSUME NEW k \in Node, t[k].lki = K, Own(t[k]) PROVE t[k].ltx
    BY Zenon DEF Transmitted
  <2>1. CASE k = n
    <3>1. SUFFICES ASSUME ~t[n].ltx PROVE FALSE
      BY <2>1, Zenon
    <3>2. CASE t[n].lki = s[n].lki /\ ~s[n].ltx
      BY <1>11, <1>13, <2>1, <3>2, Zenon DEF Transmitted
    <3>3. CASE Fresh(s[n], t[n])
      BY <1>6, <1>13, <2>1, <3>3, Zenon
    <3> QED BY <1>2, <2>1, <3>1, <3>2, <3>3, Zenon
  <2>2. CASE k # n
    BY <1>3, <1>10, <1>13, <2>2, Zenon DEF Transmitted
  <2> QED BY <2>1, <2>2, Zenon
<1> QED BY <1>4, <1>5, <1>8, <1>12, <1>13, Zenon DEF SessionsOK, Grows

\* Session n begins again, under a new member identifier and without a SAK.
LEMMA ResetStep ==
    ASSUME NEW s, NEW t, NEW R, NEW S, R \subseteq S, SessionsOK(s, R),
           NEW n \in Node, Others(s, t, R, n), t[n].mi = <<n, s[n].mi[2] + 1>>,
           t[n].next_kn \in Nat, t[n].lki = NoKey, t[n].ltx = FALSE, DOMAIN t[n].peers = {}
    PROVE  SessionsOK(t, S) /\ Grows(s, t)
<1>1. Ids(s) /\ (\A m \in Node : KeyOK(s, R, m)) /\ Unshared(s)
  BY Zenon DEF SessionsOK
<1>3. \A m \in Node \ {n} :
         /\ t[m].mi = s[m].mi /\ t[m].next_kn = s[m].next_kn
         /\ t[m].lki = s[m].lki /\ t[m].ltx = s[m].ltx
  BY Zenon DEF Others, SameSak
<1>2. PICK j \in Nat : s[n].mi = <<n, j>>
  BY <1>1, Zenon DEF Ids
<1>4. Ids(t)
  <2>1. s[n].mi[2] = j /\ t[n].mi = <<n, j + 1>> /\ t[n].mi[2] = j + 1
    BY <1>2
  <2> QED BY <1>1, <1>3, <2>1 DEF Ids
<1>5. ASSUME NEW K, Used(s, K) PROVE Used(t, K)
  <2>1. PICK o \in Node : o = K[1][1]
    BY <1>5, Zenon DEF Used
  <2>3. \/ K[1][2] \in Nat /\ K[1][2] < s[o].mi[2]
        \/ K[1] = s[o].mi /\ K[2] \in Nat /\ K[2] < s[o].next_kn
    BY <1>5, <2>1, Zenon DEF Used
  <2>4. CASE o = n
    <3>1. s[n].mi[2] = j /\ t[n].mi[2] = j + 1
      BY <1>2
    <3>2. K[1][2] \in Nat /\ K[1][2] < j + 1
      BY <1>2, <2>3, <2>4, <3>1
    <3> QED BY <2>1, <2>4, <3>1, <3>2, Zenon DEF Used
  <2>5. CASE o # n
    BY <1>3, <2>1, <2>3, <2>5, Zenon DEF Used
  <2> QED BY <2>4, <2>5, Zenon
<1>8. ASSUME NEW m \in Node PROVE KeyOK(t, S, m)
  <2>1. CASE m = n
    BY <2>1, Zenon DEF KeyOK, LiveOK, ReadyOK
  <2>2. CASE m # n
    <3>1. LiveOK(t[m]) /\ ReadyOK(S, t[m])
      BY <2>2, Zenon DEF Others, ReadyOK
    <3>2. t[m].lki # NoKey => <<t[m].mi, t[m].lki>> \in S /\ Used(t, t[m].lki)
      BY <1>1, <1>3, <1>5, <2>2, Zenon DEF KeyOK
    <3> QED BY <3>1, <3>2, Zenon DEF KeyOK
  <2> QED BY <2>1, <2>2, Zenon
<1>9. ~Own(t[n])
  BY Zenon DEF Own
<1>10. \A m \in Node \ {n} : Own(t[m]) = Own(s[m])
  BY <1>3, Zenon DEF Own
<1>12. Unshared(t)
  BY <1>1, <1>3, <1>9, <1>10, Zenon DEF Unshared
<1>13. \A K : Transmitted(s, K) => Transmitted(t, K)
  BY <1>3, <1>9, <1>10, Zenon DEF Transmitted
<1> QED BY <1>4, <1>5, <1>8, <1>12, <1>13, Zenon DEF SessionsOK, Grows

\* A key server that starts to transmit with a SAK of its own has only live
\* peers that installed it.
LEMMA ServerReady ==
    ASSUME NEW s, NEW R, SessionsOK(s, R), NEW n \in Node,
           NEW T, NEW D, NEW w, Cause(s[n], w, T, D), ActOK(R, w),
           HasLivePeer(w) => Own(w), w.ltx, ~s[n].ltx,
           \A K \in T : Used(s, K) /\ Transmitted(s, K),
           \A K \in D : Used(s, K) /\ K[1] # s[n].mi
    PROVE  \A m \in LivePeers(w) : <<m, w.lki>> \in R
<1>1. SUFFICES ASSUME NEW m \in LivePeers(w) PROVE <<m, w.lki>> \in R
  BY Zenon
<1>2. Own(w) /\ w.mi = s[n].mi
  BY Zenon DEF HasLivePeer, Cause, KeyCause
<1>3. CASE AllReady(w)
  BY <1>2, <1>3, Zenon DEF AllReady, LivePeers, ActOK, ReadyOK
<1>4. CASE w.lki \in T
  <2>1. Used(s, w.lki) /\ Transmitted(s, w.lki)
    BY <1>4, Zenon
  <2>2. w.lki = s[n].lki \/ w.lki \in D \/ Fresh(s[n], w)
    BY <1>2, Zenon DEF Cause, KeyCause, Own
  <2>3. CASE w.lki = s[n].lki
    <3>1. Own(s[n])
      BY <1>2, <2>3, Zenon DEF Own
    <3> QED BY <2>1, <2>3, <3>1, Zenon DEF Transmitted
  <2>4. CASE w.lki \in D
    BY <1>2, <2>4, Zenon DEF Own
  <2>5. CASE Fresh(s[n], w)
    BY <2>1, <2>5, FreshUnused, Zenon DEF SessionsOK
  <2> QED BY <2>2, <2>3, <2>4, <2>5, Zenon
<1> QED BY <1>3, <1>4, Zenon DEF Cause, TxCause

-----------------------------------------------------------------------------
(* The frames in flight *)

\* What a frame in flight says was true when it was sent, and stays true.
FrameOK(s, R, n, p) ==
    /\ p.mi[1] # n /\ p.capable /\ p.sci # NoSci
    /\ p.sak_use # NoUse =>
          /\ Used(s, p.sak_use.ki)
          /\ p.sak_use.rx => <<p.mi, p.sak_use.ki>> \in R
          /\ p.sak_use.tx => Transmitted(s, p.sak_use.ki)
    /\ p.dist_sak # NoDist => Used(s, <<p.mi, p.dist_sak.kn>>)
FramesOK(s, R, q) == \A n \in Node : \A i \in DOMAIN q[n] : FrameOK(s, R, n, q[n][i])

\* A frame stays true while sessions go on.
LEMMA FrameKept ==
    ASSUME NEW s, NEW t, Grows(s, t), NEW R, NEW S, R \subseteq S, NEW n, NEW p,
           FrameOK(s, R, n, p), NEW r, SameFrame(p, r)
    PROVE  FrameOK(t, S, n, r)
<1>1. /\ r.mi = p.mi /\ r.capable = p.capable /\ r.sci = p.sci
      /\ r.sak_use = p.sak_use /\ r.dist_sak = p.dist_sak
  BY Zenon DEF SameFrame
<1> QED BY <1>1, Zenon DEF FrameOK, Grows

\* The frame a session sends is true.
LEMMA FrameSent ==
    ASSUME MacsecCapable = Node, NEW t, NEW S, SessionsOK(t, S), NEW n \in Node,
           NEW z, SessionOK(z), Quiet(z, t[n]), NEW m, m # n, NEW e,
           NEW p, p = Mkpdu(n, z, e)
    PROVE  FrameOK(t, S, m, p)
<1>1. SameSak(z, t[n])
  BY Zenon DEF Quiet, OnlyPeers
<1>2. z.mi = t[n].mi /\ z.lki = t[n].lki /\ z.ltx = t[n].ltx
  BY <1>1, Zenon DEF SameSak
<1>3. KeyOK(t, S, n) /\ Ids(t) /\ Unshared(t)
  BY Zenon DEF SessionsOK
<1>4. /\ p.mi = z.mi /\ p.sci = n /\ p.capable
      /\ p.sak_use = IF z.lki = NoKey THEN NoUse
                     ELSE [ki |-> z.lki, tx |-> z.ltx, rx |-> z.lrx, exhausted |-> e]
      /\ p.dist_sak = IF z.is_key_server THEN z.dist_sak ELSE NoDist
  BY Zenon DEF Mkpdu
<1>5. p.mi[1] # m /\ p.sci # NoSci
  BY <1>2, <1>3, <1>4, MkaAssumption DEF Ids, NoSci
<1>6. ASSUME p.sak_use # NoUse
      PROVE  /\ Used(t, p.sak_use.ki)
             /\ p.sak_use.rx => <<p.mi, p.sak_use.ki>> \in S
             /\ p.sak_use.tx => Transmitted(t, p.sak_use.ki)
  <2>1. z.lki # NoKey /\ p.sak_use.ki = z.lki /\ p.sak_use.tx = z.ltx
    BY <1>4, <1>6
  <2>2. Used(t, z.lki) /\ <<z.mi, z.lki>> \in S
    BY <1>2, <1>3, <2>1, Zenon DEF KeyOK
  <2>3. z.ltx => Transmitted(t, z.lki)
    <3> SUFFICES ASSUME z.ltx, NEW k \in Node, t[k].lki = z.lki, Own(t[k]) PROVE t[k].ltx
      BY Zenon DEF Transmitted
    <3> QED BY <1>2, <1>3, Zenon DEF Unshared
  <2> QED BY <1>4, <2>1, <2>2, <2>3, Zenon
<1>7. ASSUME p.dist_sak # NoDist PROVE Used(t, <<p.mi, p.dist_sak.kn>>)
  <2>1. z.lki = <<z.mi, z.dist_sak.kn>> /\ p.dist_sak = z.dist_sak
    BY <1>4, <1>7, Zenon DEF SessionOK, DistOK
  <2>2. z.lki # NoKey
    BY <2>1 DEF NoKey
  <2> QED BY <1>2, <1>3, <1>4, <2>1, <2>2, Zenon DEF KeyOK
<1> QED BY <1>4, <1>5, <1>6, <1>7, Zenon DEF FrameOK

\* A true frame says the truth to its receiver.
LEMMA FrameHeard ==
    ASSUME NEW s, NEW R, SessionsOK(s, R), NEW n \in Node, NEW p, FrameOK(s, R, n, p)
    PROVE  /\ FrameSays(R, s[n].mi, p)
           /\ \A K \in SentKeys(p) : Used(s, K) /\ Transmitted(s, K)
           /\ \A K \in DistKeys(p) : Used(s, K) /\ K[1] # s[n].mi
<1>1. s[n].mi[1] = n
  BY DEF SessionsOK, Ids
<1>2. p.mi # s[n].mi
  BY <1>1, Zenon DEF FrameOK
<1>3. FrameSays(R, s[n].mi, p)
  BY <1>2, Zenon DEF FrameOK, FrameSays
<1>4. \A K \in SentKeys(p) : Used(s, K) /\ Transmitted(s, K)
  BY Zenon DEF SentKeys, FrameOK
<1>5. \A K \in DistKeys(p) : Used(s, K) /\ K[1] # s[n].mi
  BY <1>2 DEF DistKeys, FrameOK
<1> QED BY <1>3, <1>4, <1>5, Zenon

-----------------------------------------------------------------------------
(* The steps of the system *)

\* The inductive invariant.
ActInv == SInv /\ SessionsOK(st, rx_ever) /\ FramesOK(st, rx_ever, queue)

\* ActivateOnlyWhenAllReceive, of one step.
Activation ==
    \A n \in Node :
        (st'[n].is_key_server /\ st'[n].ltx /\ ~st[n].ltx)
            => \A m \in LivePeers(st'[n]) : <<m, st'[n].lki>> \in rx_ever

\* What holds of all sessions holds of each.
LEMMA KeyAct ==
    ASSUME NEW s, NEW R, NEW n, KeyOK(s, R, n)
    PROVE  ActOK(R, s[n])
BY Zenon DEF KeyOK, ActOK, InstalledOK

\* Sessions that no step touches: they age, and their timers pass.
LEMMA QuietOthers ==
    ASSUME NEW s, NEW t, NEW R, SessionsOK(s, R), NEW n,
           \A m \in Node \ {n} : Quiet(s[m], t[m])
    PROVE  Others(s, t, R, n)
<1>1. ASSUME NEW m \in Node \ {n}
      PROVE  SameSak(s[m], t[m]) /\ LiveOK(t[m]) /\ ReadyOK(R, t[m])
  <2>1. ActOK(R, s[m])
    BY KeyAct, Zenon DEF SessionsOK
  <2>2. ActOK(R, t[m]) /\ SameSak(s[m], t[m])
    BY <2>1, QuietAct, Zenon
  <2> QED BY <2>2, Zenon DEF ActOK
<1> QED BY <1>1, Zenon DEF Others

\* The frames after a step of run(), the one sent included, are true.
LEMMA FinishFramesOK ==
    ASSUME MacsecCapable = Node, ActInv, NEW n \in Node, NEW z, SessionOK(z),
           NEW q, Delivers(q), NEW send, Finish(n, z, q, send),
           SessionsOK(st', rx_ever'), Grows(st, st')
    PROVE  FramesOK(st', rx_ever', queue')
<1>1. Quiet(z, st'[n])
  BY FinishSessions, Zenon DEF ActInv, SInv, SessionOK
<1>2. \A m \in Node : \A i \in DOMAIN queue'[m] :
         \/ \E j \in DOMAIN q[m] : SameFrame(q[m][j], queue'[m][i])
         \/ m # n /\ \E e : queue'[m][i] = Mkpdu(n, z, e)
  BY FinishQueues DEF ActInv, SInv, SessionOK, Delivers
<1>3. rx_ever \subseteq rx_ever'
  BY Zenon DEF Finish
<1>4. ASSUME NEW m \in Node, NEW i \in DOMAIN queue'[m]
      PROVE  FrameOK(st', rx_ever', m, queue'[m][i])
  <2>1. ASSUME NEW j \in DOMAIN q[m], SameFrame(q[m][j], queue'[m][i])
        PROVE  FrameOK(st', rx_ever', m, queue'[m][i])
    <3>1. FrameOK(st, rx_ever, m, q[m][j])
      BY Zenon DEF Delivers, ActInv, FramesOK
    <3> QED BY <1>3, <2>1, <3>1, FrameKept, Zenon
  <2>2. ASSUME m # n, NEW e, queue'[m][i] = Mkpdu(n, z, e)
        PROVE  FrameOK(st', rx_ever', m, queue'[m][i])
    BY <1>1, <2>2, FrameSent, Zenon
  <2> QED BY <1>2, <2>1, <2>2, Zenon
<1> QED BY <1>4, Zenon DEF FramesOK

\* run() of session n leads to z.
LEMMA FinishAct ==
    ASSUME MacsecCapable = Node, ActInv, NEW n \in Node, NEW z, SessionOK(z),
           NEW q, Delivers(q), NEW send, Finish(n, z, q, send),
           NEW T, NEW D, Cause(st[n], z, T, D), ActOK(rx_ever, z),
           \A K \in T : Used(st, K) /\ Transmitted(st, K),
           \A K \in D : Used(st, K) /\ K[1] # st[n].mi,
           \/ z.is_key_server /\ z.ltx /\ HasLivePeer(z) => Own(z)
           \/ z.ltx => st[n].ltx
    PROVE  ActInv' /\ Activation
<1>1. /\ Quiet(z, st'[n]) /\ \A m \in Node \ {n} : Quiet(st[m], st'[m])
  BY FinishSessions, Zenon DEF ActInv, SInv, SessionOK
<1>2. ActOK(rx_ever, st'[n]) /\ SameSak(z, st'[n])
  BY <1>1, QuietAct, Zenon
<1>3. LivePeers(st'[n]) = LivePeers(z) /\ (AllReady(z) => AllReady(st'[n]))
  BY <1>1, Zenon DEF Quiet, SameEntries, SameEntry, LivePeers, AllReady
<1>4. Cause(st[n], st'[n], T, D)
  BY <1>2, <1>3, KeepsCause, Zenon DEF SameSak
<1>5. Others(st, st', rx_ever, n)
  BY <1>1, QuietOthers, Zenon DEF ActInv
<1>6. rx_ever \subseteq rx_ever'
  BY Zenon DEF Finish
<1>7. st'[n].lki # NoKey => <<st'[n].mi, st'[n].lki>> \in rx_ever'
  <2>1. z.lki # NoKey => <<z.mi, z.lki>> \in rx_ever \/ \E sa \in z.dev.rx : sa.ki = z.lki
    BY Zenon DEF ActOK, InstalledOK
  <2>2. rx_ever' = rx_ever \union ({z.mi} \X {sa.ki : sa \in z.dev.rx})
    BY Zenon DEF Finish
  <2>3. z.lki # NoKey => <<z.mi, z.lki>> \in rx_ever'
    BY <2>1, <2>2, Zenon
  <2> QED BY <1>2, <2>3, Zenon DEF SameSak
<1>8. SessionsOK(st', rx_ever') /\ Grows(st, st')
  BY <1>2, <1>4, <1>5, <1>6, <1>7, KeyStep, Zenon DEF ActInv
<1>9. FramesOK(st', rx_ever', queue')
  BY <1>8, FinishFramesOK, Zenon
<1>10. SInv'
  BY FinishSInv, Zenon DEF ActInv
<1>11. ActInv'
  BY <1>8, <1>9, <1>10, Zenon DEF ActInv
<1>12. ASSUME NEW a \in Node, st'[a].is_key_server, st'[a].ltx, ~st[a].ltx
       PROVE  \A m \in LivePeers(st'[a]) : <<m, st'[a].lki>> \in rx_ever
  <2>1. CASE a # n
    BY <1>5, <1>12, <2>1, Zenon DEF Others, SameSak
  <2>2. CASE a = n
    <3>1. z.is_key_server /\ z.ltx /\ ~st[n].ltx
      BY <1>1, <1>12, <2>2, Zenon DEF Quiet, OnlyPeers, SameSak, SameRole
    <3>2. HasLivePeer(st'[n]) => Own(st'[n])
      BY <1>2, <1>3, <3>1, Zenon DEF HasLivePeer, Own, SameSak
    <3> QED BY <1>2, <1>4, <1>12, <2>2, <3>2, ServerReady DEF ActInv
  <2> QED BY <2>1, <2>2, Zenon
<1> QED BY <1>11, <1>12, Zenon DEF Activation

\* A session that has just reset its member identifier stays without a SAK.
LEMMA BlankBottom ==
    ASSUME NEW x, Blank(x), NEW z, BottomStep(x, z)
    PROVE  /\ z.mi = x.mi /\ z.next_kn = x.next_kn /\ z.lki = NoKey /\ z.ltx = FALSE
           /\ DOMAIN z.peers = {}
<1>1. PICK u, v : /\ Reelected(x, u) /\ FewerPeers(x, u)
                  /\ SakDropped(u, v) /\ SakEnsured(v, z)
  BY Zenon DEF BottomStep
<1>2. /\ u.mi = x.mi /\ u.next_kn = x.next_kn /\ u.lki = NoKey /\ u.ltx = FALSE
      /\ DOMAIN u.peers = {}
  BY <1>1, Zenon DEF Blank, Reelected, SameSak, FewerPeers
<1>3. /\ v.mi = x.mi /\ v.next_kn = x.next_kn /\ v.lki = NoKey /\ v.ltx = FALSE
      /\ DOMAIN v.peers = {}
  BY <1>1, <1>2, Zenon DEF SakDropped, DropsSak, SameMember
<1>4. ~HasLivePeer(v)
  BY <1>3, Zenon DEF HasLivePeer, LivePeers
<1> QED BY <1>1, <1>3, <1>4, Zenon DEF SakEnsured, SakWanted

\* A session that gives up its member identifier.
LEMMA CollisionAct ==
    ASSUME MacsecCapable = Node, ActInv, NEW n \in Node, RunCollision(n)
    PROVE  ActInv' /\ Activation
<1>1. PICK x, z, send :
         /\ Blank(x) /\ x.mi = <<n, st[n].mi[2] + 1>> /\ x.next_kn = st[n].next_kn
         /\ BottomStep(x, z) /\ Finish(n, z, queue, send)
  BY RunCollisionStep, Zenon DEF ActInv
<1>2. /\ z.mi = x.mi /\ z.next_kn = x.next_kn /\ z.lki = NoKey /\ z.ltx = FALSE
      /\ DOMAIN z.peers = {} /\ SessionOK(z)
  BY <1>1, BlankBottom, Zenon DEF BottomStep
<1>3. /\ Quiet(z, st'[n]) /\ \A m \in Node \ {n} : Quiet(st[m], st'[m])
  BY <1>1, <1>2, FinishSessions, Zenon DEF ActInv, SInv, SessionOK
<1>4. Others(st, st', rx_ever, n)
  BY <1>3, QuietOthers, Zenon DEF ActInv
<1>5. st'[n].mi = z.mi /\ st'[n].next_kn = z.next_kn /\ st'[n].lki = z.lki
      /\ st'[n].ltx = z.ltx /\ DOMAIN st'[n].peers = DOMAIN z.peers
  BY <1>3, Zenon DEF Quiet, OnlyPeers, SameSak, SameEntries
<1>6. st[n].next_kn \in Nat
  BY Zenon DEF ActInv, SessionsOK, Ids
<1>7. rx_ever \subseteq rx_ever'
  BY <1>1, Zenon DEF Finish
<1>8. SessionsOK(st', rx_ever') /\ Grows(st, st')
  BY <1>1, <1>2, <1>4, <1>5, <1>6, <1>7, ResetStep, Zenon DEF ActInv
<1>9. Delivers(queue)
  BY DeliversAll, Zenon DEF ActInv
<1>10. FramesOK(st', rx_ever', queue')
  BY <1>1, <1>2, <1>8, <1>9, FinishFramesOK, Zenon
<1>11. SInv'
  BY <1>1, <1>2, <1>9, FinishSInv, Zenon DEF ActInv
<1>12. Activation
  BY <1>2, <1>4, <1>5, Zenon DEF Activation, Others, SameSak
<1> QED BY <1>8, <1>10, <1>11, <1>12, Zenon DEF ActInv

\* Frames that a step neither sends nor reorders.
LEMMA FramesStay ==
    ASSUME ActInv, Delivers(queue'), rx_ever' = rx_ever, Grows(st, st')
    PROVE  FramesOK(st', rx_ever', queue')
<1>1. ASSUME NEW m \in Node, NEW i \in DOMAIN queue'[m]
      PROVE  FrameOK(st', rx_ever', m, queue'[m][i])
  <2>1. PICK j \in DOMAIN queue[m] : queue'[m][i] = queue[m][j]
    BY Zenon DEF Delivers
  <2>2. FrameOK(st, rx_ever, m, queue[m][j]) /\ IsFrame(queue[m][j])
    BY Zenon DEF ActInv, FramesOK, SInv, Shapes, IsQueue
  <2>3. SameFrame(queue[m][j], queue[m][j])
    BY <2>2, Zenon DEF SameFrame
  <2> QED BY <2>1, <2>2, <2>3, FrameKept, Zenon
<1> QED BY <1>1, Zenon DEF FramesOK

\* A session that is rebuilt.
LEMMA RestartAct ==
    ASSUME ActInv, NEW n \in Node, Restart(n)
    PROVE  ActInv' /\ Activation
<1>1. /\ Blank(st'[n]) /\ st'[n].mi = <<n, st[n].mi[2] + 1>> /\ st'[n].next_kn = 1
      /\ \A m \in Node \ {n} : st'[m] = st[m]
      /\ Delivers(queue')
  BY RestartStep, Zenon DEF ActInv
<1>2. rx_ever' = rx_ever
  BY Zenon DEF Restart
<1>3. \A m \in Node : LiveOK(st[m]) /\ ReadyOK(rx_ever, st[m])
  BY Zenon DEF ActInv, SessionsOK, KeyOK
<1>4. Others(st, st', rx_ever, n)
  BY <1>1, <1>3, Zenon DEF Others, SameSak
<1>5. SessionsOK(st', rx_ever') /\ Grows(st, st')
  <2>1. rx_ever \subseteq rx_ever'
    BY <1>2, Zenon
  <2>2. /\ st'[n].next_kn \in Nat /\ st'[n].lki = NoKey /\ st'[n].ltx = FALSE
        /\ DOMAIN st'[n].peers = {}
    BY <1>1 DEF Blank
  <2> QED BY <1>1, <1>4, <2>1, <2>2, ResetStep, Zenon DEF ActInv
<1>6. FramesOK(st', rx_ever', queue')
  BY <1>1, <1>2, <1>5, FramesStay, Zenon
<1>7. SInv'
  <2>1. Next
    BY Zenon DEF Next
  <2> QED BY <2>1, SInvNext, Zenon DEF ActInv
<1>8. Activation
  BY <1>1, Zenon DEF Activation, Blank
<1> QED BY <1>5, <1>6, <1>7, <1>8, Zenon DEF ActInv

\* Timers and lost frames start no transmission.
LEMMA QuietStepAct ==
    ASSUME ActInv, NEW n \in Node,
           \/ Lose(n) \/ HelloTimer(n) \/ SakTimer(n) \/ \E m \in Mi : PeerTimer(n, m)
    PROVE  ActInv' /\ Activation
<1>1. /\ \A m \in Node : Quiet(st[m], st'[m])
      /\ \E q : Delivers(q) /\ queue' = q
      /\ rx_ever' = rx_ever
  BY QuietStep, Zenon DEF ActInv
<1>2. Others(st, st', rx_ever, n)
  BY <1>1, QuietOthers, Zenon DEF ActInv
<1>3. ActOK(rx_ever, st[n]) /\ KeyOK(st, rx_ever, n)
  BY KeyAct, Zenon DEF ActInv, SessionsOK
<1>4. ActOK(rx_ever, st'[n]) /\ SameSak(st[n], st'[n])
  BY <1>1, <1>3, QuietAct, Zenon
<1>5. Cause(st[n], st'[n], {}, {})
  BY <1>4, SameSakCause, Zenon DEF ActInv, SessionsOK, Ids
<1>6. st'[n].lki # NoKey => <<st'[n].mi, st'[n].lki>> \in rx_ever'
  BY <1>1, <1>3, <1>4, Zenon DEF KeyOK, SameSak
<1>7. SessionsOK(st', rx_ever') /\ Grows(st, st')
  <2>1. rx_ever \subseteq rx_ever'
    BY <1>1, Zenon
  <2>2. SessionsOK(st, rx_ever)
    BY Zenon DEF ActInv
  <2>3. PICK T : T = {}
    BY Zenon
  <2>4. Cause(st[n], st'[n], T, T)
    BY <1>5, <2>3, Zenon
  <2>5. /\ \A K \in T : Used(st, K) /\ Transmitted(st, K)
        /\ \A K \in T : Used(st, K) /\ K[1] # st[n].mi
    BY <2>3, Zenon
  <2> QED BY <1>2, <1>4, <1>6, <2>1, <2>2, <2>4, <2>5, KeyStep, Zenon
<1>8. FramesOK(st', rx_ever', queue')
  BY <1>1, <1>7, FramesStay, Zenon
<1>9. SInv'
  <2>1. Next
    BY Zenon DEF Next
  <2> QED BY <2>1, SInvNext, Zenon DEF ActInv
<1>10. Activation
  BY <1>2, <1>4, Zenon DEF Activation, Others, SameSak
<1> QED BY <1>7, <1>8, <1>9, <1>10, Zenon DEF ActInv

\* Every step keeps the invariant, and starts a key server's transmission only
\* when all its live peers receive.
LEMMA ActNext ==
    ASSUME MacsecCapable = Node, ActInv, Next
    PROVE  ActInv' /\ Activation
<1>0. /\ SInv /\ \A n \in Node : /\ SessionOK(st[n]) /\ ActOK(rx_ever, st[n])
                                 /\ KeyOK(st, rx_ever, n) /\ st[n].next_kn \in Nat
  BY KeyAct, Zenon DEF ActInv, SInv, SessionsOK, Ids
<1>1. ASSUME NEW n \in Node, RunTop(n) PROVE ActInv' /\ Activation
  <2>1. PICK z, send : TopStep(st[n], z) /\ Finish(n, z, queue, send)
    BY <1>0, <1>1, RunTopStep, Zenon
  <2>2. st[n].lki # NoKey => <<st[n].mi, st[n].lki>> \in rx_ever
    BY <1>0, Zenon DEF KeyOK
  <2>3. ActOK(rx_ever, z) /\ Cause(st[n], z, {}, {}) /\ (z.ltx => st[n].ltx)
    BY <1>0, <2>1, <2>2, TopAct, Zenon
  <2>4. SessionOK(z) /\ Delivers(queue)
    BY <1>0, <2>1, DeliversAll, Zenon DEF TopStep
  <2> QED BY <2>1, <2>3, <2>4, FinishAct, SMTT(30)
<1>2. ASSUME NEW n \in Node, RunReceive(n) PROVE ActInv' /\ Activation
  <2>1. PICK x, z, q, send :
           /\ x \in HandleFrame(n, st[n], Head(queue[n])) /\ BottomStep(x, z)
           /\ SessionOK(x) /\ Delivers(q) /\ Finish(n, z, q, send)
           /\ 1 \in DOMAIN queue[n] /\ Head(queue[n]) = queue[n][1]
    BY <1>0, <1>2, RunReceiveStep, Zenon
  <2>2. PICK p : p = Head(queue[n])
    BY Zenon
  <2>3. FrameOK(st, rx_ever, n, p)
    BY <2>1, <2>2, Zenon DEF ActInv, FramesOK
  <2>4. /\ FrameSays(rx_ever, st[n].mi, p)
        /\ \A K \in SentKeys(p) : Used(st, K) /\ Transmitted(st, K)
        /\ \A K \in DistKeys(p) : Used(st, K) /\ K[1] # st[n].mi
    BY <2>3, FrameHeard, Zenon DEF ActInv
  <2>5. ActOK(rx_ever, x) /\ Cause(st[n], x, SentKeys(p), DistKeys(p))
    BY <1>0, <2>1, <2>2, <2>4, HandleFrameAct, Zenon
  <2>6. /\ ActOK(rx_ever, z) /\ Cause(st[n], z, SentKeys(p), DistKeys(p)) /\ SessionOK(z)
        /\ z.is_key_server /\ z.ltx /\ HasLivePeer(z) => Own(z)
    BY <2>1, <2>5, BottomAct, Zenon DEF BottomStep
  <2> QED BY <2>1, <2>4, <2>6, FinishAct, Zenon
<1>3. ASSUME NEW n \in Node, RunTimeout(n) PROVE ActInv' /\ Activation
  <2>1. PICK x, z, send : /\ Quiet(st[n], x) /\ SessionOK(x) /\ BottomStep(x, z)
                          /\ Finish(n, z, queue, send)
    BY <1>0, <1>3, RunTimeoutStep, Zenon
  <2>2. ActOK(rx_ever, x) /\ SameSak(st[n], x)
    BY <1>0, <2>1, QuietAct, Zenon
  <2>3. Cause(st[n], x, {}, {})
    BY <1>0, <2>2, SameSakCause, Zenon
  <2>4. /\ ActOK(rx_ever, z) /\ Cause(st[n], z, {}, {}) /\ SessionOK(z)
        /\ z.is_key_server /\ z.ltx /\ HasLivePeer(z) => Own(z)
    BY <2>1, <2>2, <2>3, BottomAct, Zenon DEF BottomStep
  <2>5. Delivers(queue)
    BY <1>0, DeliversAll, Zenon
  <2> QED BY <2>1, <2>4, <2>5, FinishAct, SMTT(30)
<1> QED BY <1>1, <1>2, <1>3, CollisionAct, RestartAct, QuietStepAct, Zenon DEF Next

\* Nothing is used, sent or received at first.
LEMMA ActInit ==
    ASSUME Init
    PROVE  ActInv
<1>1. /\ SInv /\ \A n \in Node : Blank(st[n]) /\ st[n].mi = <<n, 1>> /\ st[n].next_kn = 1
  BY SInvInit, Zenon
<1>2. Ids(st)
  BY <1>1 DEF Ids
<1>3. \A n \in Node : KeyOK(st, rx_ever, n)
  BY <1>1, Zenon DEF KeyOK, LiveOK, ReadyOK, Blank
<1>4. Unshared(st)
  BY <1>1, Zenon DEF Unshared, Own, Blank
<1>5. FramesOK(st, rx_ever, queue)
  BY DEF Init, FramesOK
<1> QED BY <1>1, <1>2, <1>3, <1>4, <1>5, Zenon DEF ActInv, SessionsOK

\* ActivateOnlyWhenAllReceive: on a segment where every participant advertises
\* MACsec, a key server starts transmitting with a SAK (handle_frame, on the SAK
\* Use of the last peer) only when every peer it holds to be live has installed
\* that SAK for reception, whatever is lost, delayed or reset.
THEOREM ServerTransmitsLast ==
    ASSUME MacsecCapable = Node
    PROVE  Spec => ActivateOnlyWhenAllReceive
<1>1. Init => ActInv
  BY ActInit, Zenon
<1>2. ActInv /\ [Next]_vars => ActInv'
  <2>1. ActInv /\ vars' = vars => ActInv'
    <3> SUFFICES ASSUME ActInv, vars' = vars PROVE ActInv'
      BY Zenon
    <3>1. SInv'
      BY SInvNext, Zenon DEF ActInv
    <3>2. SessionsOK(st', rx_ever') /\ FramesOK(st', rx_ever', queue')
      BY Zenon DEF vars, ActInv
    <3> QED BY <3>1, <3>2, Zenon DEF ActInv
  <2> QED BY <2>1, ActNext, Zenon
<1>3. ActInv /\ [Next]_vars => [Activation]_vars
  BY ActNext, Zenon
<1>4. Spec => [][Activation]_vars
  BY <1>1, <1>2, <1>3, PTL DEF Spec
<1> QED BY <1>4, Zenon DEF ActivateOnlyWhenAllReceive, Activation
=============================================================================
