----------------------------- MODULE MkaProofs ------------------------------
(***************************************************************************)
(* TLAPS proofs about Mka, for any participants, priorities, bounds and    *)
(* losses.                                                                 *)
(*                                                                         *)
(* The first part says what each operation of MkaSession (mka.rs) does to  *)
(* a session and to its netdev. An effect such as MakesSak(x, y) says what *)
(* the session y after the operation keeps of the session x before it and  *)
(* what it changes; a lemma states that the operation has that effect.     *)
(*                                                                         *)
(* The second part shows that every session stays in order (SInv): the SAK *)
(* a session says it transmits with is the one its netdev encodes with,    *)
(* and what a key server distributes is its latest SAK.                    *)
(*                                                                         *)
(* The third part is about the RX side, and holds until the first reset of *)
(* a session (CInv): a peer counted as received has its RX SA in the       *)
(* netdev, and a session that waits without live peers has no SAs.         *)
(***************************************************************************)
EXTENDS Mka, TLAPS

\* The records of the model: a netdev, a TX SA, a peer entry, a session.
IsDev(d) == d = [tx |-> d.tx, rx |-> d.rx, enc |-> d.enc]
IsTxSa(sa) == sa = [an |-> sa.an, ki |-> sa.ki, active |-> sa.active]
IsPeer(r) ==
    r = [age |-> r.age, sci |-> r.sci, key_server |-> r.key_server,
         capable |-> r.capable, live |-> r.live, stale |-> r.stale,
         rx_ready |-> r.rx_ready, rx_installed |-> r.rx_installed]
IsSession(x) ==
    x = [mi |-> x.mi, encrypt |-> x.encrypt, peers |-> x.peers,
         is_key_server |-> x.is_key_server, key_server_sci |-> x.key_server_sci,
         lki |-> x.lki, lan |-> x.lan, ltx |-> x.ltx, lrx |-> x.lrx,
         dist_sak |-> x.dist_sak, next_kn |-> x.next_kn, sak_aged |-> x.sak_aged,
         hello_due |-> x.hello_due, need_send |-> x.need_send,
         need_new_sak |-> x.need_new_sak, dev |-> x.dev]

\* A session of the right shape, as the steps below keep it.
Shaped(x) ==
    /\ IsSession(x)
    /\ \A m \in DOMAIN x.peers : IsPeer(x.peers[m])
    /\ IsDev(x.dev)
    /\ \A sa \in x.dev.tx : IsTxSa(sa)

\* y is the member x, with the same latest SAK (and the same netdev).
SameMember(x, y) ==
    y.mi = x.mi /\ y.encrypt = x.encrypt /\ y.next_kn = x.next_kn
SameSak(x, y) ==
    /\ y.mi = x.mi /\ y.encrypt = x.encrypt /\ y.next_kn = x.next_kn
    /\ y.lki = x.lki /\ y.lan = x.lan /\ y.ltx = x.ltx /\ y.lrx = x.lrx
    /\ y.dev = x.dev
SameRole(x, y) ==
    /\ y.is_key_server = x.is_key_server /\ y.key_server_sci = x.key_server_sci
    /\ y.dist_sak = x.dist_sak
\* Two entries of a peer that differ in rx_ready and rx_installed at most.
SamePeer(r, s) ==
    /\ s.age = r.age /\ s.sci = r.sci /\ s.key_server = r.key_server
    /\ s.capable = r.capable /\ s.live = r.live /\ s.stale = r.stale

\* y is x with the flag rx_ready, or rx_installed, of the peers ms set to v.
SetsReady(x, y, ms, v) ==
    /\ Shaped(y) /\ SameSak(x, y) /\ SameRole(x, y)
    /\ DOMAIN y.peers = DOMAIN x.peers
    /\ \A m \in DOMAIN x.peers :
         /\ SamePeer(x.peers[m], y.peers[m])
         /\ y.peers[m].rx_installed = x.peers[m].rx_installed
         /\ y.peers[m].rx_ready = IF m \in ms THEN v ELSE x.peers[m].rx_ready
SetsInstalled(x, y, ms, v) ==
    /\ Shaped(y) /\ SameSak(x, y) /\ SameRole(x, y)
    /\ DOMAIN y.peers = DOMAIN x.peers
    /\ \A m \in DOMAIN x.peers :
         /\ SamePeer(x.peers[m], y.peers[m])
         /\ y.peers[m].rx_ready = x.peers[m].rx_ready
         /\ y.peers[m].rx_installed = IF m \in ms THEN v ELSE x.peers[m].rx_installed

\* Marking peers as ready changes their rx_ready and nothing else.
LEMMA ReadySet ==
    ASSUME NEW x, Shaped(x), NEW ms, NEW v, NEW y, y = SetRxReady(x, ms, v)
    PROVE  SetsReady(x, y, ms, v)
<1> DEFINE f == [m \in DOMAIN x.peers |->
        IF m \in ms THEN [x.peers[m] EXCEPT !.rx_ready = v] ELSE x.peers[m]]
<1>1. PICK g : g = f
  BY Zenon
<1>2. y = [x EXCEPT !.peers = g]
  BY <1>1, Zenon DEF SetRxReady
<1>3. IsSession(y) /\ SameSak(x, y) /\ SameRole(x, y) /\ y.peers = g
  BY <1>2, Zenon DEF Shaped, IsSession, SameSak, SameRole
<1>4. DOMAIN g = DOMAIN x.peers
  BY <1>1, Zenon
<1>5. ASSUME NEW m \in DOMAIN x.peers
      PROVE /\ SamePeer(x.peers[m], g[m]) /\ IsPeer(g[m])
            /\ g[m].rx_installed = x.peers[m].rx_installed
            /\ g[m].rx_ready = IF m \in ms THEN v ELSE x.peers[m].rx_ready
  <2>1. PICK r : r = x.peers[m]
    BY Zenon
  <2>2. IsPeer(r)
    BY <2>1, Zenon DEF Shaped
  <2>3. g[m] = IF m \in ms THEN [r EXCEPT !.rx_ready = v] ELSE r
    BY <1>1, <2>1, Zenon
  <2> QED BY <2>1, <2>2, <2>3, Zenon DEF IsPeer, SamePeer
<1> QED BY <1>3, <1>4, <1>5, Zenon DEF Shaped, SameSak, SetsReady

\* Two changes of the flags rx_ready and rx_installed of a peer leave the rest
\* of its entry as it was.
LEMMA SamePeerTransitive ==
    ASSUME NEW r, NEW s, NEW t, SamePeer(r, s), SamePeer(s, t)
    PROVE  SamePeer(r, t)
BY Zenon DEF SamePeer

\* Marking peers as received changes their rx_installed and nothing else.
LEMMA InstalledSet ==
    ASSUME NEW x, Shaped(x), NEW ms, NEW v, NEW y, y = SetRxInstalled(x, ms, v)
    PROVE  SetsInstalled(x, y, ms, v)
<1> DEFINE f == [m \in DOMAIN x.peers |->
        IF m \in ms THEN [x.peers[m] EXCEPT !.rx_installed = v] ELSE x.peers[m]]
<1>1. PICK g : g = f
  BY Zenon
<1>2. y = [x EXCEPT !.peers = g]
  BY <1>1, Zenon DEF SetRxInstalled
<1>3. IsSession(y) /\ SameSak(x, y) /\ SameRole(x, y) /\ y.peers = g
  BY <1>2, Zenon DEF Shaped, IsSession, SameSak, SameRole
<1>4. DOMAIN g = DOMAIN x.peers
  BY <1>1, Zenon
<1>5. ASSUME NEW m \in DOMAIN x.peers
      PROVE /\ SamePeer(x.peers[m], g[m]) /\ IsPeer(g[m])
            /\ g[m].rx_ready = x.peers[m].rx_ready
            /\ g[m].rx_installed = IF m \in ms THEN v ELSE x.peers[m].rx_installed
  <2>1. PICK r : r = x.peers[m]
    BY Zenon
  <2>2. IsPeer(r)
    BY <2>1, Zenon DEF Shaped
  <2>3. g[m] = IF m \in ms THEN [r EXCEPT !.rx_installed = v] ELSE r
    BY <1>1, <2>1, Zenon
  <2> QED BY <2>1, <2>2, <2>3, Zenon DEF IsPeer, SamePeer
<1> QED BY <1>3, <1>4, <1>5, Zenon DEF Shaped, SameSak, SetsInstalled

\* y is x after an election: a session that is no longer the key server does
\* not distribute its SAK any more.
Reelected(x, y) ==
    /\ Shaped(y) /\ SameSak(x, y)
    /\ \/ y.dist_sak = NoDist
       \/ /\ y.dist_sak = x.dist_sak
          /\ y.is_key_server \/ y.is_key_server = x.is_key_server

\* elect_key_server touches neither the peers nor the SAK, and a session that
\* loses the election stops distributing.
LEMMA Elects ==
    ASSUME NEW n, NEW x, Shaped(x), NEW y, y = ElectKeyServer(n, x)
    PROVE  Reelected(x, y) /\ y.peers = x.peers
<1>1. PICK best : y = [x EXCEPT !.is_key_server = (best = n),
                  !.key_server_sci = best,
                  !.need_send = @ \/ ((best = n) # x.is_key_server),
                  !.need_new_sak = IF (best = n) # x.is_key_server THEN (best = n) ELSE @,
                  !.dist_sak = IF (best = n) # x.is_key_server /\ ~(best = n) THEN NoDist ELSE @]
  BY Zenon DEF ElectKeyServer
<1>2. PICK e : e = (best = n)
  BY Zenon
<1>3. PICK ns : ns = (x.need_send \/ (e # x.is_key_server))
  BY Zenon
<1>4. PICK nn : nn = IF e # x.is_key_server THEN e ELSE x.need_new_sak
  BY Zenon
<1>5. PICK ds : ds = IF e # x.is_key_server /\ ~e THEN NoDist ELSE x.dist_sak
  BY Zenon
<1>6. y = [x EXCEPT !.is_key_server = e, !.key_server_sci = best,
                  !.need_send = ns, !.need_new_sak = nn, !.dist_sak = ds]
  BY <1>1, <1>2, <1>3, <1>4, <1>5, Zenon
<1>7. /\ IsSession(y) /\ SameSak(x, y) /\ y.peers = x.peers
      /\ y.dist_sak = ds /\ y.is_key_server = e
  BY <1>6, ZenonT(40) DEF Shaped, IsSession, SameSak
<1> QED BY <1>2, <1>5, <1>7, Zenon DEF Shaped, SameSak, Reelected

\* The TX SAs of a netdev are records, and no two share an association number.
TxSas(d) == \A sa \in d.tx : IsTxSa(sa)
OnePerAn(d) == \A a, b \in d.tx : a.an = b.an => a = b

\* Installing a TX SA puts its SAK under its association number, alone there.
LEMMA TxSaInstalled ==
    ASSUME NEW d, IsDev(d), TxSas(d), NEW an, NEW ki, NEW e, e = InstallTxSa(d, an, ki)
    PROVE  /\ IsDev(e) /\ TxSas(e) /\ e.rx = d.rx /\ e.enc = d.enc
           /\ OnePerAn(d) => OnePerAn(e)
           /\ \E sa \in e.tx : sa.an = an /\ sa.ki = ki
           /\ \A sa \in e.tx : sa \in d.tx \/ sa.ki = ki
<1>1. CASE \E sa \in d.tx : sa.an = an /\ sa.ki = ki
  BY <1>1, Zenon DEF InstallTxSa
<1>2. CASE ~ \E sa \in d.tx : sa.an = an /\ sa.ki = ki
  <2>1. PICK new : new = [an |-> an, ki |-> ki, active |-> FALSE]
    BY Zenon
  <2>2. IsTxSa(new) /\ new.an = an /\ new.ki = ki
    BY <2>1, Zenon DEF IsTxSa
  <2>3. PICK txs : txs = {sa \in d.tx : sa.an # an} \union {new}
    BY Zenon
  <2>4. e = [d EXCEPT !.tx = txs]
    BY <1>2, <2>1, <2>3, Zenon DEF InstallTxSa
  <2>5. IsDev(e) /\ e.tx = txs /\ e.rx = d.rx /\ e.enc = d.enc
    BY <2>4, Zenon DEF IsDev
  <2> QED BY <2>2, <2>3, <2>5 DEF TxSas, OnePerAn
<1> QED BY <1>1, <1>2, Zenon

\* Installing RX SAs adds one for each of the SCIs and keeps those of other
\* SCIs.
LEMMA RxSasInstalled ==
    ASSUME NEW d, IsDev(d), NEW scis, NEW an, NEW ki, NEW e,
           e = InstallRxSas(d, scis, an, ki)
    PROVE  /\ IsDev(e) /\ e.tx = d.tx /\ e.enc = d.enc
           /\ \A sci \in scis : [sci |-> sci, an |-> an, ki |-> ki] \in e.rx
           /\ \A sa \in d.rx : ~(sa.sci \in scis) => sa \in e.rx
<1>1. PICK rxs : rxs = {sa \in d.rx : ~(sa.sci \in scis /\ sa.an = an)}
                     \union {[sci |-> sci, an |-> an, ki |-> ki] : sci \in scis}
  BY Zenon
<1>2. e = [d EXCEPT !.rx = rxs]
  BY <1>1, Zenon DEF InstallRxSas
<1>3. IsDev(e) /\ e.tx = d.tx /\ e.enc = d.enc /\ e.rx = rxs
  BY <1>2, Zenon DEF IsDev
<1> QED BY <1>1, <1>3, Zenon

\* Activating an association number makes the netdev encode with it and neither
\* adds nor removes an SA.
LEMMA TxSaActivated ==
    ASSUME NEW d, IsDev(d), TxSas(d), OnePerAn(d), NEW an, NEW e, e = SetTxSaActive(d, an)
    PROVE  /\ IsDev(e) /\ TxSas(e) /\ OnePerAn(e) /\ e.rx = d.rx /\ e.enc = an
           /\ \A sa \in e.tx : sa.an = an => sa.active
           /\ \A sa \in d.tx : \E s \in e.tx : s.an = sa.an /\ s.ki = sa.ki
           /\ \A s \in e.tx : \E sa \in d.tx : s.an = sa.an /\ s.ki = sa.ki
<1>1. PICK F : F = [sa \in d.tx |-> IF sa.an = an THEN [sa EXCEPT !.active = TRUE] ELSE sa]
  BY Zenon
<1>2. ASSUME NEW sa \in d.tx
      PROVE  /\ IsTxSa(F[sa]) /\ F[sa].an = sa.an /\ F[sa].ki = sa.ki
             /\ sa.an = an => F[sa].active
  <2>1. F[sa] = IF sa.an = an THEN [sa EXCEPT !.active = TRUE] ELSE sa
    BY <1>1, Zenon
  <2> QED BY <2>1, Zenon DEF TxSas, IsTxSa
<1>3. PICK txs : txs = {F[sa] : sa \in d.tx}
  BY Zenon
<1>4. txs = {IF sa.an = an THEN [sa EXCEPT !.active = TRUE] ELSE sa : sa \in d.tx}
  BY <1>1, <1>3, Zenon
<1>5. e = [d EXCEPT !.tx = txs, !.enc = an]
  BY <1>4, Zenon DEF SetTxSaActive
<1>6. IsDev(e) /\ e.tx = txs /\ e.rx = d.rx /\ e.enc = an
  BY <1>5, Zenon DEF IsDev
<1> HIDE DEF IsTxSa
<1>7. OnePerAn(e)
  <2>1. ASSUME NEW a \in txs, NEW b \in txs, a.an = b.an PROVE a = b
    <3>1. PICK s \in d.tx : a = F[s]
      BY <1>3, Zenon
    <3>2. PICK t \in d.tx : b = F[t]
      BY <1>3, Zenon
    <3>3. s.an = t.an
      BY <1>2, <2>1, <3>1, <3>2, Zenon
    <3> QED BY <3>1, <3>2, <3>3, Zenon DEF OnePerAn
  <2> QED BY <1>6, <2>1, Zenon DEF OnePerAn
<1> QED BY <1>2, <1>3, <1>6, <1>7 DEF TxSas

\* The conditions under which ensure_sak makes a SAK.
SakWanted(x) ==
    x.is_key_server /\ HasLivePeer(x) /\ PeersSupportMacsec(x) /\ SakDue(x)

\* y is x with a SAK of its own making.
MakesSak(x, y) ==
    /\ Shaped(y) /\ y.mi = x.mi /\ y.encrypt = x.encrypt
    /\ y.is_key_server = x.is_key_server /\ y.key_server_sci = x.key_server_sci
    /\ y.lki = <<x.mi, x.next_kn>> /\ y.ltx = FALSE /\ y.lrx = TRUE
    /\ y.lan = (x.lan + 1) % 4 /\ y.next_kn = x.next_kn + 1
    /\ y.dist_sak = [kn |-> x.next_kn, an |-> y.lan, encrypt |-> x.encrypt]
    /\ y.dev = InstallRxSas(InstallTxSa(x.dev, y.lan, y.lki), LivePeerScis(x),
                            y.lan, y.lki)
    /\ DOMAIN y.peers = DOMAIN x.peers
    /\ \A m \in DOMAIN x.peers :
          /\ SamePeer(x.peers[m], y.peers[m])
          /\ y.peers[m].rx_ready = FALSE
          /\ y.peers[m].rx_installed =>
                m \in LivePeers(x) /\ x.peers[m].sci \in LivePeerScis(x)

\* ensure_sak makes a SAK exactly when a key server with live, capable peers
\* wants one.
LEMMA EnsuresSak ==
    ASSUME NEW n, NEW x, Shaped(x), NEW y, y = EnsureSak(n, x)
    PROVE  (y = x /\ ~SakWanted(x)) \/ (SakWanted(x) /\ MakesSak(x, y))
<1>1. CASE ~SakWanted(x)
  BY <1>1, Zenon DEF EnsureSak, SakWanted
<1>2. CASE SakWanted(x)
  <2>1. PICK an : an = (x.lan + 1) % 4
    BY Zenon
  <2>2. PICK ki : ki = <<x.mi, x.next_kn>>
    BY Zenon
  <2>3. PICK scis : scis = LivePeerScis(x)
    BY Zenon
  <2>4. PICK d : d = InstallTxSa(x.dev, an, ki)
    BY Zenon
  <2>5. PICK e : e = InstallRxSas(d, scis, an, ki)
    BY Zenon
  <2>6. PICK dist : dist = [kn |-> x.next_kn, an |-> an, encrypt |-> x.encrypt]
    BY Zenon
  <2>7. PICK kn : kn = x.next_kn + 1
    BY Zenon
  <2>8. PICK u : u = [x EXCEPT !.lki = ki, !.lan = an, !.ltx = FALSE, !.lrx = TRUE,
                       !.next_kn = kn, !.sak_aged = FALSE,
                       !.need_new_sak = FALSE, !.need_send = TRUE,
                       !.dist_sak = dist, !.dev = e]
    BY Zenon
  <2>9. PICK ms : ms = {m \in LivePeers(x) : x.peers[m].sci \in scis}
    BY Zenon
  <2> PICK dom : dom = DOMAIN u.peers
    BY Zenon
  <2>10. PICK v : v = SetRxReady(u, dom, FALSE)
    BY Zenon
  <2>11. PICK w : w = SetRxInstalled(v, dom, FALSE)
    BY Zenon
  <2>12. y = SetRxInstalled(w, ms, TRUE)
    BY <1>2, <2>1, <2>2, <2>3, <2>4, <2>5, <2>6, <2>7, <2>8, <2>9, <2>10, <2>11, Zenon
       DEF EnsureSak, SakWanted, ForgetReceivers, NextKn
  <2>13. /\ IsSession(u) /\ u.mi = x.mi /\ u.encrypt = x.encrypt /\ u.peers = x.peers
         /\ u.is_key_server = x.is_key_server /\ u.key_server_sci = x.key_server_sci
         /\ u.lki = ki /\ u.lan = an /\ u.ltx = FALSE /\ u.lrx = TRUE
         /\ u.next_kn = kn /\ u.dist_sak = dist /\ u.dev = e
    BY <2>8, Zenon DEF Shaped, IsSession
  <2>14. IsDev(e) /\ TxSas(e)
    <3>1. IsDev(x.dev) /\ TxSas(x.dev)
      BY Zenon DEF Shaped, TxSas
    <3>2. IsDev(d) /\ TxSas(d)
      BY <2>4, <3>1, TxSaInstalled, Zenon
    <3> QED BY <2>5, <3>2, RxSasInstalled DEF TxSas
  <2>15. Shaped(u)
    BY <2>13, <2>14, Zenon DEF Shaped, TxSas
  <2>16. SetsReady(u, v, dom, FALSE)
    BY <2>10, <2>15, ReadySet, Zenon
  <2>17. SetsInstalled(v, w, dom, FALSE)
    <3>1. Shaped(v)
      BY <2>16, Zenon DEF SetsReady
    <3> QED BY <2>11, <3>1, InstalledSet, Zenon
  <2>18. SetsInstalled(w, y, ms, TRUE)
    <3>1. Shaped(w)
      BY <2>17, Zenon DEF SetsInstalled
    <3> QED BY <2>12, <3>1, InstalledSet, Zenon
  <2>19. /\ DOMAIN y.peers = DOMAIN x.peers
         /\ \A m \in DOMAIN x.peers :
              /\ SamePeer(x.peers[m], y.peers[m])
              /\ y.peers[m].rx_ready = FALSE
              /\ y.peers[m].rx_installed => m \in ms
    <3>1. DOMAIN y.peers = dom /\ DOMAIN w.peers = dom /\ DOMAIN v.peers = dom
      BY <2>16, <2>17, <2>18, Zenon DEF SetsReady, SetsInstalled
    <3>2. ASSUME NEW m \in dom
          PROVE  /\ SamePeer(u.peers[m], v.peers[m]) /\ v.peers[m].rx_ready = FALSE
                 /\ SamePeer(v.peers[m], w.peers[m])
                 /\ w.peers[m].rx_ready = v.peers[m].rx_ready
                 /\ w.peers[m].rx_installed = FALSE
                 /\ SamePeer(w.peers[m], y.peers[m])
                 /\ y.peers[m].rx_ready = w.peers[m].rx_ready
                 /\ m \notin ms => y.peers[m].rx_installed = w.peers[m].rx_installed
      BY <2>16, <2>17, <2>18, <3>1, Zenon DEF SetsReady, SetsInstalled
    <3>3. ASSUME NEW m \in dom PROVE SamePeer(u.peers[m], y.peers[m])
      <4>1. SamePeer(u.peers[m], w.peers[m])
        BY <3>2, SamePeerTransitive, Zenon
      <4> QED BY <3>2, <4>1, SamePeerTransitive, Zenon
    <3>4. ASSUME NEW m \in dom
          PROVE  y.peers[m].rx_ready = FALSE /\ (y.peers[m].rx_installed => m \in ms)
      BY <3>2, Zenon
    <3> QED BY <2>13, <3>1, <3>3, <3>4, Zenon
  <2>20. Shaped(y) /\ SameSak(u, y) /\ SameRole(u, y)
    BY <2>16, <2>17, <2>18, Zenon DEF SameSak, SameRole, SetsReady, SetsInstalled
  <2>21. /\ y.mi = x.mi /\ y.encrypt = x.encrypt /\ y.lki = ki /\ y.ltx = FALSE /\ y.lrx = TRUE
         /\ y.lan = an /\ y.next_kn = kn /\ y.dist_sak = dist /\ y.dev = e
         /\ y.is_key_server = x.is_key_server /\ y.key_server_sci = x.key_server_sci
    BY <2>13, <2>20, Zenon DEF SameSak, SameRole
  <2> HIDE DEF SameSak, SameRole, Shaped
  <2>22. MakesSak(x, y)
    BY <2>1, <2>2, <2>3, <2>4, <2>5, <2>6, <2>7, <2>9, <2>19, <2>20, <2>21, Zenon DEF MakesSak
  <2> QED BY <1>2, <2>22, Zenon
<1> QED BY <1>1, <1>2, Zenon

\* The netdev of y has receive SAs of the latest SAK for the SCIs scis too.
Receives(x, y, scis) ==
    /\ Shaped(y) /\ SameMember(x, y) /\ SameRole(x, y)
    /\ x.lki # NoKey /\ y.lki = x.lki /\ y.lan = x.lan /\ y.ltx = x.ltx /\ y.lrx = x.lrx
    /\ y.dev = InstallRxSas(x.dev, scis, x.lan, x.lki)
    /\ DOMAIN y.peers = DOMAIN x.peers
    /\ \A m \in DOMAIN x.peers :
          /\ SamePeer(x.peers[m], y.peers[m])
          /\ y.peers[m].rx_ready = x.peers[m].rx_ready
          /\ y.peers[m].rx_installed =>
                x.peers[m].rx_installed \/ x.peers[m].sci \in scis

\* install_rx_sas_for_live_peers adds RX SAs of the latest SAK for the live
\* peers that lack them, or does nothing.
LEMMA RxSasForLivePeers ==
    ASSUME NEW x, Shaped(x), NEW y, y = InstallRxSasForLivePeers(x)
    PROVE  y = x \/ Receives(x, y, PendingRxScis(x))
<1> PICK scis : scis = PendingRxScis(x)
  BY Zenon
<1>1. CASE x.lki = NoKey \/ scis = {}
  BY <1>1, Zenon DEF InstallRxSasForLivePeers
<1>2. CASE ~(x.lki = NoKey \/ scis = {})
  <2>1. PICK e : e = InstallRxSas(x.dev, scis, x.lan, x.lki)
    BY Zenon
  <2>2. PICK u : u = [x EXCEPT !.dev = e]
    BY Zenon
  <2>3. PICK ms : ms = {m \in DOMAIN x.peers : x.peers[m].sci \in scis}
    BY Zenon
  <2>4. y = SetRxInstalled(u, ms, TRUE)
    BY <1>2, <2>1, <2>2, <2>3, Zenon DEF InstallRxSasForLivePeers
  <2>5. /\ IsSession(u) /\ SameMember(x, u) /\ SameRole(x, u) /\ u.peers = x.peers
        /\ u.lki = x.lki /\ u.lan = x.lan /\ u.ltx = x.ltx /\ u.lrx = x.lrx /\ u.dev = e
    BY <2>2, Zenon DEF Shaped, IsSession, SameMember, SameRole
  <2>6. IsDev(e) /\ e.tx = x.dev.tx
    <3>1. IsDev(x.dev)
      BY Zenon DEF Shaped
    <3> QED BY <2>1, <3>1, RxSasInstalled
  <2>7. Shaped(u)
    BY <2>5, <2>6, Zenon DEF Shaped
  <2>8. SetsInstalled(u, y, ms, TRUE)
    BY <2>4, <2>7, InstalledSet, Zenon
  <2>9. /\ Shaped(y) /\ SameMember(x, y) /\ SameRole(x, y)
        /\ y.lki = x.lki /\ y.lan = x.lan /\ y.ltx = x.ltx /\ y.lrx = x.lrx /\ y.dev = e
    BY <2>5, <2>8, Zenon DEF SetsInstalled, SameSak, SameRole, SameMember
  <2>10. /\ DOMAIN y.peers = DOMAIN x.peers
         /\ \A m \in DOMAIN x.peers :
              /\ SamePeer(x.peers[m], y.peers[m])
              /\ y.peers[m].rx_ready = x.peers[m].rx_ready
              /\ y.peers[m].rx_installed => x.peers[m].rx_installed \/ x.peers[m].sci \in scis
    BY <2>3, <2>5, <2>8, Zenon DEF SetsInstalled
  <2> QED BY <1>2, <2>1, <2>9, <2>10, Zenon DEF Receives
<1> QED BY <1>1, <1>2, Zenon

\* The session transmits with its latest SAK.
Transmits(x, y) ==
    /\ Shaped(y) /\ SameMember(x, y) /\ SameRole(x, y) /\ y.peers = x.peers
    /\ y.lki = x.lki /\ y.lan = x.lan /\ y.ltx = TRUE /\ y.lrx = x.lrx
    /\ y.dev = SetTxSaActive(x.dev, x.lan)

\* activate_tx_sa makes the session transmit with its latest SAK.
LEMMA ActivatesTxSa ==
    ASSUME NEW x, Shaped(x), OnePerAn(x.dev), NEW y, y = ActivateTxSa(x)
    PROVE  Transmits(x, y)
<1>1. PICK e : e = SetTxSaActive(x.dev, x.lan)
  BY Zenon
<1>2. y = [x EXCEPT !.ltx = TRUE, !.need_send = TRUE, !.dev = e]
  BY <1>1, Zenon DEF ActivateTxSa
<1>3. /\ IsSession(y) /\ SameMember(x, y) /\ SameRole(x, y) /\ y.peers = x.peers
      /\ y.lki = x.lki /\ y.lan = x.lan /\ y.ltx = TRUE /\ y.lrx = x.lrx /\ y.dev = e
  BY <1>2, Zenon DEF Shaped, IsSession, SameMember, SameRole
<1>4. IsDev(e) /\ TxSas(e)
  <2>1. IsDev(x.dev) /\ TxSas(x.dev)
    BY Zenon DEF Shaped, TxSas
  <2> QED BY <1>1, <2>1, TxSaActivated, Zenon
<1>5. Shaped(y)
  BY <1>3, <1>4, Zenon DEF Shaped, TxSas
<1> QED BY <1>1, <1>3, <1>5, Zenon DEF Transmits

\* The SAK and all SAs are gone.
DropsSak(x, y) ==
    /\ Shaped(y) /\ SameMember(x, y)
    /\ y.is_key_server = x.is_key_server /\ y.key_server_sci = x.key_server_sci
    /\ y.lki = NoKey /\ y.ltx = FALSE /\ y.lrx = FALSE /\ y.dist_sak = NoDist
    /\ y.dev.tx = {} /\ y.dev.rx = {}
    /\ DOMAIN y.peers = DOMAIN x.peers
    /\ \A m \in DOMAIN x.peers :
          /\ SamePeer(x.peers[m], y.peers[m])
          /\ y.peers[m].rx_ready = FALSE
          /\ y.peers[m].rx_installed = x.peers[m].rx_installed

\* drop_unsecure_sak removes the SAK and all SAs of a session without live
\* peers, and leaves any other session alone.
LEMMA DropsUnsecureSak ==
    ASSUME NEW x, Shaped(x), NEW y, y = DropUnsecureSak(x)
    PROVE  \/ y = x /\ (x.lki = NoKey \/ HasLivePeer(x))
           \/ ~HasLivePeer(x) /\ DropsSak(x, y)
<1>1. CASE x.lki = NoKey \/ HasLivePeer(x)
  BY <1>1, Zenon DEF DropUnsecureSak
<1>2. CASE ~(x.lki = NoKey \/ HasLivePeer(x))
  <2>1. PICK e : e = ClearSas(x.dev)
    BY Zenon
  <2>2. PICK u : u = [x EXCEPT !.dev = e, !.lki = NoKey, !.lan = 0,
                              !.ltx = FALSE, !.lrx = FALSE, !.dist_sak = NoDist,
                              !.sak_aged = TRUE, !.need_new_sak = FALSE,
                              !.need_send = TRUE]
    BY Zenon
  <2>3. PICK dom : dom = DOMAIN x.peers
    BY Zenon
  <2>4. y = SetRxReady(u, dom, FALSE)
    BY <1>2, <2>1, <2>2, <2>3, Zenon DEF DropUnsecureSak
  <2>5. /\ IsSession(u) /\ SameMember(x, u) /\ u.peers = x.peers
        /\ u.is_key_server = x.is_key_server /\ u.key_server_sci = x.key_server_sci
        /\ u.lki = NoKey /\ u.ltx = FALSE /\ u.lrx = FALSE /\ u.dist_sak = NoDist /\ u.dev = e
    BY <2>2, Zenon DEF Shaped, IsSession, SameMember
  <2>6. IsDev(e) /\ e.tx = {} /\ e.rx = {}
    <3>1. PICK d : d = x.dev
      BY Zenon
    <3>2. IsDev(d)
      BY <3>1, Zenon DEF Shaped
    <3>3. e = [d EXCEPT !.tx = {}, !.rx = {}]
      BY <2>1, <3>1, Zenon DEF ClearSas
    <3> QED BY <3>2, <3>3, Zenon DEF IsDev
  <2>7. Shaped(u)
    BY <2>5, <2>6, Zenon DEF Shaped
  <2>8. SetsReady(u, y, dom, FALSE)
    BY <2>4, <2>7, ReadySet, Zenon
  <2>9. /\ Shaped(y) /\ SameMember(x, y)
        /\ y.is_key_server = x.is_key_server /\ y.key_server_sci = x.key_server_sci
        /\ y.lki = NoKey /\ y.ltx = FALSE /\ y.lrx = FALSE /\ y.dist_sak = NoDist
        /\ y.dev.tx = {} /\ y.dev.rx = {}
    BY <2>5, <2>6, <2>8, Zenon DEF SetsReady, SameSak, SameRole, SameMember
  <2>10. /\ DOMAIN y.peers = DOMAIN x.peers
         /\ \A m \in DOMAIN x.peers :
              /\ SamePeer(x.peers[m], y.peers[m])
              /\ y.peers[m].rx_ready = FALSE
              /\ y.peers[m].rx_installed = x.peers[m].rx_installed
    BY <2>3, <2>5, <2>8, Zenon DEF SetsReady
  <2> QED BY <1>2, <2>9, <2>10, Zenon DEF DropsSak
<1> QED BY <1>1, <1>2, Zenon

\* The peers of y are peers of x, unchanged.
FewerPeers(x, y) ==
    /\ DOMAIN y.peers \subseteq DOMAIN x.peers
    /\ \A m \in DOMAIN y.peers : y.peers[m] = x.peers[m]

\* expire_peers removes the expired peers and holds an election.
LEMMA ExpiresPeers ==
    ASSUME NEW n, NEW x, Shaped(x), NEW y, y = ExpirePeers(n, x)
    PROVE  /\ Reelected(x, y) /\ FewerPeers(x, y)
           /\ \A m \in DOMAIN y.peers : m \notin ExpiredPeers(x)
<1>1. CASE ExpiredPeers(x) = {}
  BY <1>1, Zenon DEF ExpirePeers, Reelected, FewerPeers, SameSak
<1>2. CASE ExpiredPeers(x) # {}
  <2>1. PICK f : f = [m \in DOMAIN x.peers \ ExpiredPeers(x) |-> x.peers[m]]
    BY Zenon
  <2>2. PICK v : v = [x EXCEPT !.peers = f, !.need_send = TRUE]
    BY Zenon
  <2>3. PICK nn : nn = (v.need_new_sak \/ (x.is_key_server /\ x.lki # NoKey /\ HasLivePeer(v)))
    BY Zenon
  <2>4. PICK u : u = [v EXCEPT !.need_new_sak = nn]
    BY Zenon
  <2>5. y = ElectKeyServer(n, u)
    BY <1>2, <2>1, <2>2, <2>3, <2>4, Zenon DEF ExpirePeers
  <2>6. IsSession(v) /\ SameSak(x, v) /\ SameRole(x, v) /\ v.peers = f
    BY <2>2, Zenon DEF Shaped, IsSession, SameSak, SameRole
  <2>7. IsSession(u) /\ SameSak(x, u) /\ SameRole(x, u) /\ u.peers = f
    BY <2>4, <2>6, Zenon DEF IsSession, SameSak, SameRole
  <2>8. /\ DOMAIN f = DOMAIN x.peers \ ExpiredPeers(x)
        /\ \A m \in DOMAIN f : f[m] = x.peers[m]
    BY <2>1, Zenon
  <2>9. Shaped(u)
    BY <2>7, <2>8, Zenon DEF Shaped, SameSak
  <2>10. Reelected(u, y) /\ y.peers = u.peers
    BY <2>5, <2>9, Elects, Zenon
  <2>11. Reelected(x, y)
    BY <2>7, <2>10, Zenon DEF Reelected, SameSak, SameRole
  <2>12. FewerPeers(x, y) /\ \A m \in DOMAIN y.peers : m \notin ExpiredPeers(x)
    BY <2>7, <2>8, <2>10, Zenon DEF FewerPeers
  <2> QED BY <2>11, <2>12, Zenon
<1> QED BY <1>1, <1>2, Zenon

\* Only the peers of y differ from those of x.
OnlyPeers(x, y) == Shaped(y) /\ SameSak(x, y) /\ SameRole(x, y)

\* The flags of the entry of a peer that is not in dom.
IsNewPeer(r) ==
    r.live = FALSE /\ r.stale = FALSE /\ r.rx_ready = FALSE /\ r.rx_installed = FALSE
SameFlags(r, s) ==
    s.live = r.live /\ s.rx_ready = r.rx_ready /\ s.rx_installed = r.rx_installed

\* y is x with an entry for the sender of p that tells what the frame does.
PeerUpdated(x, y, p) ==
    /\ OnlyPeers(x, y)
    /\ DOMAIN y.peers = DOMAIN x.peers \union {p.mi}
    /\ \A m \in DOMAIN x.peers \ {p.mi} : y.peers[m] = x.peers[m]
    /\ y.peers[p.mi].sci = p.sci /\ y.peers[p.mi].capable = p.capable
    /\ y.peers[p.mi].key_server = p.key_server
    /\ \/ p.mi \in DOMAIN x.peers /\ SameFlags(x.peers[p.mi], y.peers[p.mi])
       \/ p.mi \notin DOMAIN x.peers /\ IsNewPeer(y.peers[p.mi])

\* The entry of a sender says what its frame says; a sender not known before
\* enters without any flag.
LEMMA UpdatesPeer ==
    ASSUME NEW x, Shaped(x), NEW p, NEW y, y = UpdatePeer(x, p)
    PROVE  PeerUpdated(x, y, p)
<1>1. PICK old : old = IF p.mi \in DOMAIN x.peers THEN x.peers[p.mi] ELSE NewPeer(p.sci, p.age)
  BY Zenon
<1>2. PICK mi : mi = p.mi
  BY Zenon
<1>3. PICK new : new = [old EXCEPT !.age = p.age, !.sci = p.sci, !.stale = FALSE,
                           !.key_server = p.key_server, !.capable = p.capable]
  BY Zenon
<1>4. PICK g : g = [m \in DOMAIN x.peers \union {mi} |->
                       IF m = mi THEN new ELSE x.peers[m]]
  BY Zenon
<1>5. y = [x EXCEPT !.peers = g, !.need_send = TRUE]
  BY <1>1, <1>2, <1>3, <1>4, Zenon DEF UpdatePeer
<1>6. IsSession(y) /\ SameSak(x, y) /\ SameRole(x, y) /\ y.peers = g
  BY <1>5, Zenon DEF Shaped, IsSession, SameSak, SameRole
<1>7. /\ DOMAIN g = DOMAIN x.peers \union {mi} /\ g[mi] = new
      /\ \A m \in DOMAIN x.peers \ {mi} : g[m] = x.peers[m]
  BY <1>4, Zenon
<1>8. /\ IsPeer(old)
      /\ \/ mi \in DOMAIN x.peers /\ old = x.peers[mi]
         \/ mi \notin DOMAIN x.peers /\ IsNewPeer(old)
  <2>1. CASE mi \in DOMAIN x.peers
    BY <1>1, <1>2, <2>1, Zenon DEF Shaped
  <2>2. CASE mi \notin DOMAIN x.peers
    BY <1>1, <1>2, <2>2, Zenon DEF NewPeer, IsPeer, IsNewPeer
  <2> QED BY <2>1, <2>2, Zenon
<1>9. /\ IsPeer(new) /\ new.sci = p.sci /\ new.capable = p.capable
      /\ new.key_server = p.key_server /\ SameFlags(old, new) /\ new.stale = FALSE
  BY <1>3, <1>8, Zenon DEF IsPeer, SameFlags
<1>10. OnlyPeers(x, y)
  BY <1>6, <1>7, <1>9, Zenon DEF OnlyPeers, Shaped, SameSak
<1>11. \/ mi \in DOMAIN x.peers /\ SameFlags(x.peers[mi], new)
       \/ mi \notin DOMAIN x.peers /\ IsNewPeer(new)
  BY <1>8, <1>9, Zenon DEF SameFlags, IsNewPeer
<1> QED BY <1>2, <1>6, <1>7, <1>9, <1>10, <1>11, Zenon DEF PeerUpdated

\* y is x with the sender of p, perhaps, promoted to a live peer.
SenderPromoted(x, y, p) ==
    /\ OnlyPeers(x, y) /\ DOMAIN y.peers = DOMAIN x.peers
    /\ \A m \in DOMAIN x.peers \ {p.mi} : y.peers[m] = x.peers[m]
    /\ y.peers[p.mi].sci = x.peers[p.mi].sci
    /\ y.peers[p.mi].capable = x.peers[p.mi].capable
    /\ y.peers[p.mi].key_server = x.peers[p.mi].key_server
    /\ y.peers[p.mi].rx_ready = x.peers[p.mi].rx_ready
    /\ y.peers[p.mi].rx_installed = x.peers[p.mi].rx_installed
    /\ y.peers[p.mi].live = x.peers[p.mi].live \/ y.peers[p.mi].live = TRUE

\* A sender that lists our recent frames becomes live, and nothing else changes.
LEMMA PromotesSender ==
    ASSUME NEW x, Shaped(x), NEW p, p.mi \in DOMAIN x.peers,
           NEW y, y = PromoteSender(x, p)
    PROVE  SenderPromoted(x, y, p)
<1>1. CASE y = x
  BY <1>1, Zenon DEF OnlyPeers, SameSak, SameRole, SenderPromoted
<1>2. CASE y # x
  <2>1. PICK mi \in DOMAIN x.peers : mi = p.mi
    BY Zenon
  <2>2. PICK nn : nn = (x.need_new_sak \/ (x.is_key_server /\ x.lki # NoKey))
    BY Zenon
  <2>3. PICK f : f = x.peers
    BY Zenon
  <2>4. PICK r : r = [f[mi] EXCEPT !.live = TRUE]
    BY Zenon
  <2>5. PICK g : g = [f EXCEPT ![mi] = r]
    BY Zenon
  <2>6. y = [x EXCEPT !.peers[mi].live = TRUE, !.need_send = TRUE, !.need_new_sak = nn]
    BY <1>2, <2>1, <2>2, Zenon DEF PromoteSender
  <2>7. y = [x EXCEPT !.peers = g, !.need_send = TRUE, !.need_new_sak = nn]
    BY <2>3, <2>4, <2>5, <2>6, Zenon
  <2>8. IsSession(y) /\ SameSak(x, y) /\ SameRole(x, y) /\ y.peers = g
    BY <2>7, Zenon DEF Shaped, IsSession, SameSak, SameRole
  <2>9. /\ DOMAIN g = DOMAIN x.peers /\ g[mi] = r
        /\ \A m \in DOMAIN x.peers \ {mi} : g[m] = x.peers[m]
    BY <2>3, <2>5, Zenon
  <2>10. PICK old : old = x.peers[mi]
    BY Zenon
  <2>11. IsPeer(old) /\ r = [old EXCEPT !.live = TRUE]
    BY <2>3, <2>4, <2>10, Zenon DEF Shaped
  <2>12. /\ IsPeer(r) /\ r.sci = old.sci /\ r.capable = old.capable
         /\ r.key_server = old.key_server /\ r.rx_ready = old.rx_ready
         /\ r.rx_installed = old.rx_installed /\ r.live = TRUE
    BY <2>11, Zenon DEF IsPeer
  <2>13. OnlyPeers(x, y)
    BY <2>8, <2>9, <2>12, Zenon DEF OnlyPeers, Shaped, SameSak
  <2> QED BY <2>1, <2>8, <2>9, <2>10, <2>12, <2>13, Zenon DEF SenderPromoted
<1> QED BY <1>1, <1>2, Zenon

\* y is x with entries for live peers of the sender of p.
PeersLearned(x, y, p) ==
    /\ OnlyPeers(x, y) /\ DOMAIN x.peers \subseteq DOMAIN y.peers
    /\ DOMAIN y.peers \subseteq DOMAIN x.peers \union (p.live \ {x.mi})
    /\ \A m \in DOMAIN x.peers : y.peers[m] = x.peers[m]
    /\ \A m \in DOMAIN y.peers \ DOMAIN x.peers :
          IsNewPeer(y.peers[m]) /\ y.peers[m].sci = NoSci

\* The live peers a frame lists that are not known yet enter without an SCI and
\* without any flag.
LEMMA LearnsPeers ==
    ASSUME NEW x, Shaped(x), NEW p, NEW y, y = LearnPeers(x, p)
    PROVE  PeersLearned(x, y, p)
<1>1. CASE y = x
  BY <1>1, Zenon DEF OnlyPeers, SameSak, SameRole, PeersLearned
<1>2. CASE y # x
  <2>1. PICK us : us = p.live \ (DOMAIN x.peers \union {x.mi})
    BY Zenon
  <2>2. PICK g : g = [m \in DOMAIN x.peers \union us |->
                       IF m \in DOMAIN x.peers THEN x.peers[m]
                       ELSE NewPeer(NoSci, p.heard[m])]
    BY Zenon
  <2>3. y = [x EXCEPT !.peers = g, !.need_send = TRUE]
    BY <1>2, <2>1, <2>2, Zenon DEF LearnPeers
  <2>4. IsSession(y) /\ SameSak(x, y) /\ SameRole(x, y) /\ y.peers = g
    BY <2>3, Zenon DEF Shaped, IsSession, SameSak, SameRole
  <2>5. /\ DOMAIN g = DOMAIN x.peers \union us
        /\ \A m \in DOMAIN x.peers : g[m] = x.peers[m]
        /\ \A m \in us : g[m] = NewPeer(NoSci, p.heard[m])
    BY <2>1, <2>2, Zenon
  <2>6. \A m \in us : IsPeer(g[m]) /\ IsNewPeer(g[m]) /\ g[m].sci = NoSci
    BY <2>5 DEF NewPeer, IsPeer, IsNewPeer
  <2>7. OnlyPeers(x, y)
    BY <2>4, <2>5, <2>6, Zenon DEF OnlyPeers, Shaped, SameSak
  <2> QED BY <2>1, <2>4, <2>5, <2>6, <2>7, Zenon DEF PeersLearned
<1> QED BY <1>1, <1>2, Zenon

\* The key server x notes whether the sender of p can receive and, once all its
\* live peers can, transmits and stops distributing.
CountsReceivers(x, y, p) ==
    /\ SakUseMatches(x, p) /\ x.is_key_server /\ x.peers[p.mi].live
    /\ Shaped(y) /\ SameMember(x, y)
    /\ y.is_key_server = x.is_key_server /\ y.key_server_sci = x.key_server_sci
    /\ y.lki = x.lki /\ y.lan = x.lan /\ y.lrx = x.lrx
    /\ DOMAIN y.peers = DOMAIN x.peers
    /\ \A m \in DOMAIN x.peers :
          /\ SamePeer(x.peers[m], y.peers[m])
          /\ y.peers[m].rx_installed = x.peers[m].rx_installed
          /\ y.peers[m].rx_ready = IF m \in {p.mi} THEN p.sak_use.rx
                                   ELSE x.peers[m].rx_ready
    /\ \/ y.ltx = x.ltx /\ y.dev = x.dev /\ y.dist_sak \in {x.dist_sak, NoDist}
       \/ /\ ~x.ltx /\ y.ltx = TRUE /\ y.dist_sak = NoDist
          /\ y.dev = SetTxSaActive(x.dev, x.lan)
          /\ \A m \in LivePeers(y) : y.peers[m].rx_ready

\* The member x transmits because its key server, the sender of p, does.
Follows(x, y, p) ==
    /\ SakUseMatches(x, p) /\ ~x.is_key_server /\ p.sak_use.tx /\ ~x.ltx
    /\ Transmits(x, y)

\* The SAK Use of a frame counts only for the latest SAK: a key server notes the
\* receiver, a member follows its key server, and otherwise nothing happens.
LEMMA HandlesSakUse ==
    ASSUME NEW x, Shaped(x), OnePerAn(x.dev), NEW p, NEW y, y = HandleSakUse(x, p)
    PROVE  y = x \/ CountsReceivers(x, y, p) \/ Follows(x, y, p)
<1>1. CASE ~SakUseMatches(x, p)
  BY <1>1, Zenon DEF HandleSakUse
<1>2. CASE SakUseMatches(x, p) /\ ~(x.is_key_server /\ x.peers[p.mi].live)
  <2>1. CASE y = x
    BY <2>1, Zenon
  <2>2. CASE y # x
    <3>1. ~x.is_key_server /\ p.sak_use.tx /\ ~x.ltx /\ y = ActivateTxSa(x)
      BY <1>2, <2>2, Zenon DEF HandleSakUse
    <3>2. Transmits(x, y)
      BY <3>1, ActivatesTxSa, Zenon
    <3> QED BY <1>2, <3>1, <3>2, Zenon DEF Follows
  <2> QED BY <2>1, <2>2, Zenon
<1>3. CASE SakUseMatches(x, p) /\ x.is_key_server /\ x.peers[p.mi].live
  <2>1. PICK mi : mi = p.mi
    BY Zenon
  <2>2. PICK rx : rx = p.sak_use.rx
    BY Zenon
  <2>3. PICK ms : ms = {mi}
    BY Zenon
  <2>4. PICK u : u = SetRxReady(x, ms, rx)
    BY Zenon
  <2>5. PICK nn : nn = (u.need_new_sak \/ p.sak_use.exhausted)
    BY Zenon
  <2>6. PICK v : v = [u EXCEPT !.need_new_sak = nn]
    BY Zenon
  <2>7. \/ y = v
        \/ /\ \A m \in LivePeers(v) : v.peers[m].rx_ready
           /\ y = StopDistributing(IF v.ltx THEN v ELSE ActivateTxSa(v))
    BY <1>3, <2>1, <2>2, <2>3, <2>4, <2>5, <2>6, Zenon DEF HandleSakUse
  <2>8. SetsReady(x, u, ms, rx)
    BY <2>4, ReadySet, Zenon
  <2>9. Shaped(u) /\ SameSak(x, u) /\ SameRole(x, u)
    BY <2>8, Zenon DEF SetsReady
  <2>10. IsSession(v) /\ SameSak(x, v) /\ SameRole(x, v) /\ v.peers = u.peers
    BY <2>6, <2>9, Zenon DEF Shaped, IsSession, SameSak, SameRole
  <2>11. Shaped(v)
    BY <2>9, <2>10, Zenon DEF Shaped, SameSak
  <2>12. /\ DOMAIN v.peers = DOMAIN x.peers
         /\ \A m \in DOMAIN x.peers :
              /\ SamePeer(x.peers[m], v.peers[m])
              /\ v.peers[m].rx_installed = x.peers[m].rx_installed
              /\ v.peers[m].rx_ready = IF m \in {p.mi} THEN p.sak_use.rx
                                       ELSE x.peers[m].rx_ready
    BY <2>1, <2>2, <2>3, <2>8, <2>10, Zenon DEF SetsReady
  <2>13. CASE y = v
    <3>1. SameMember(x, y) /\ y.is_key_server = x.is_key_server /\ y.key_server_sci = x.key_server_sci
      BY <2>10, <2>13, Zenon DEF SameRole, SameSak, SameMember
    <3>2. y.lki = x.lki /\ y.lan = x.lan /\ y.lrx = x.lrx /\ y.ltx = x.ltx /\ y.dev = x.dev
      BY <2>10, <2>13, Zenon DEF SameSak
    <3>3. y.dist_sak \in {x.dist_sak, NoDist}
      BY <2>10, <2>13, Zenon DEF SameRole, SameSak
    <3> QED BY <1>3, <2>11, <2>12, <2>13, <3>1, <3>2, <3>3, Zenon DEF CountsReceivers
  <2>14. CASE /\ \A m \in LivePeers(v) : v.peers[m].rx_ready
              /\ y = StopDistributing(IF v.ltx THEN v ELSE ActivateTxSa(v))
    <3>1. PICK w : w = IF v.ltx THEN v ELSE ActivateTxSa(v)
      BY Zenon
    <3>2. y = [w EXCEPT !.dist_sak = NoDist]
      BY <2>14, <3>1, Zenon DEF StopDistributing
    <3>3. (w = v /\ v.ltx) \/ (Transmits(v, w) /\ ~v.ltx)
      <4>1. OnePerAn(v.dev)
        BY <2>10, Zenon DEF SameSak
      <4>2. CASE v.ltx
        BY <3>1, <4>2, Zenon
      <4>3. CASE ~v.ltx
        <5>1. w = ActivateTxSa(v)
          BY <3>1, <4>3, Zenon
        <5> QED BY <2>11, <4>1, <4>3, <5>1, ActivatesTxSa, Zenon
      <4> QED BY <4>2, <4>3, Zenon
    <3>4. /\ Shaped(w) /\ SameMember(x, w) /\ w.peers = v.peers
          /\ w.is_key_server = x.is_key_server /\ w.key_server_sci = x.key_server_sci
          /\ w.lki = x.lki /\ w.lan = x.lan /\ w.lrx = x.lrx
          /\ \/ w.ltx = x.ltx /\ w.dev = x.dev
             \/ ~x.ltx /\ w.ltx = TRUE /\ w.dev = SetTxSaActive(x.dev, x.lan)
      BY <2>10, <2>11, <3>3, Zenon DEF Transmits, SameSak, SameRole, SameMember
    <3>5. /\ IsSession(y) /\ SameMember(w, y) /\ y.peers = w.peers
          /\ y.is_key_server = w.is_key_server /\ y.key_server_sci = w.key_server_sci
          /\ y.lki = w.lki /\ y.lan = w.lan /\ y.lrx = w.lrx /\ y.ltx = w.ltx
          /\ y.dev = w.dev /\ y.dist_sak = NoDist
      BY <3>2, <3>4, Zenon DEF Shaped, IsSession, SameMember
    <3>6. Shaped(y) /\ SameMember(x, y)
      BY <3>4, <3>5, Zenon DEF Shaped, SameMember
    <3>7. y.peers = v.peers /\ \A m \in LivePeers(y) : y.peers[m].rx_ready
      BY <2>14, <3>4, <3>5, Zenon DEF LivePeers
    <3>8. \/ y.ltx = x.ltx /\ y.dev = x.dev
          \/ ~x.ltx /\ y.ltx = TRUE /\ y.dev = SetTxSaActive(x.dev, x.lan)
      BY <3>4, <3>5, Zenon
    <3> HIDE DEF Shaped, SameMember
    <3> QED BY <1>3, <2>12, <3>4, <3>5, <3>6, <3>7, <3>8 DEF CountsReceivers
  <2> QED BY <2>7, <2>13, <2>14, Zenon
<1> QED BY <1>1, <1>2, <1>3, Zenon

\* The member x takes the SAK that p distributes.
TakesSak(x, y, p) ==
    LET scis == LivePeerScis(x) \union {x.peers[p.mi].sci}
    IN  /\ Shaped(y) /\ SameMember(x, y) /\ SameRole(x, y)
        /\ y.lki = <<p.mi, p.dist_sak.kn>> /\ y.lan = p.dist_sak.an
        /\ y.ltx = FALSE /\ y.lrx = TRUE
        /\ y.dev = InstallTxSa(InstallRxSas(x.dev, scis, y.lan, y.lki), y.lan, y.lki)
        /\ DOMAIN y.peers = DOMAIN x.peers
        /\ \A m \in DOMAIN x.peers :
              /\ SamePeer(x.peers[m], y.peers[m])
              /\ y.peers[m].rx_ready = x.peers[m].rx_ready
              /\ y.peers[m].rx_installed => x.peers[m].rx_installed \/ m \in LivePeers(x)

\* A distributed SAK that is not the latest one becomes it, to receive with
\* only.
LEMMA InstallsDistSak ==
    ASSUME NEW x, Shaped(x), NEW p, NEW y, y = InstallDistSak(x, p)
    PROVE  y = x \/ TakesSak(x, y, p)
<1>1. CASE x.lki = <<p.mi, p.dist_sak.kn>>
  BY <1>1, Zenon DEF InstallDistSak
<1>2. CASE x.lki # <<p.mi, p.dist_sak.kn>>
  <2>1. PICK ki : ki = <<p.mi, p.dist_sak.kn>>
    BY Zenon
  <2>2. PICK an : an = p.dist_sak.an
    BY Zenon
  <2>3. PICK scis : scis = LivePeerScis(x) \union {x.peers[p.mi].sci}
    BY Zenon
  <2>4. PICK d : d = InstallRxSas(x.dev, scis, an, ki)
    BY Zenon
  <2>5. PICK e : e = InstallTxSa(d, an, ki)
    BY Zenon
  <2>6. PICK u : u = [x EXCEPT !.lki = ki, !.lan = an, !.lrx = TRUE, !.ltx = FALSE,
                               !.need_send = TRUE, !.dev = e]
    BY Zenon
  <2>7. PICK ms : ms = {m \in LivePeers(x) : x.peers[m].sci \in scis}
    BY Zenon
  <2>8. y = SetRxInstalled(u, ms, TRUE)
    BY <1>2, <2>1, <2>2, <2>3, <2>4, <2>5, <2>6, <2>7, Zenon DEF InstallDistSak
  <2>9. /\ IsSession(u) /\ SameMember(x, u) /\ SameRole(x, u) /\ u.peers = x.peers
        /\ u.lki = ki /\ u.lan = an /\ u.ltx = FALSE /\ u.lrx = TRUE /\ u.dev = e
    BY <2>6, Zenon DEF Shaped, IsSession, SameMember, SameRole
  <2>10. IsDev(e) /\ TxSas(e)
    <3>1. IsDev(x.dev) /\ TxSas(x.dev)
      BY Zenon DEF Shaped, TxSas
    <3>2. IsDev(d) /\ TxSas(d)
      BY <2>4, <3>1, RxSasInstalled DEF TxSas
    <3> QED BY <2>5, <3>2, TxSaInstalled, Zenon
  <2>11. Shaped(u)
    BY <2>9, <2>10, Zenon DEF Shaped, TxSas
  <2>12. SetsInstalled(u, y, ms, TRUE)
    BY <2>8, <2>11, InstalledSet, Zenon
  <2>13. /\ Shaped(y) /\ SameMember(x, y) /\ SameRole(x, y)
         /\ y.lki = ki /\ y.lan = an /\ y.ltx = FALSE /\ y.lrx = TRUE /\ y.dev = e
    BY <2>9, <2>12, Zenon DEF SetsInstalled, SameSak, SameRole, SameMember
  <2>14. /\ DOMAIN y.peers = DOMAIN x.peers
         /\ \A m \in DOMAIN x.peers :
              /\ SamePeer(x.peers[m], y.peers[m])
              /\ y.peers[m].rx_ready = x.peers[m].rx_ready
              /\ y.peers[m].rx_installed => x.peers[m].rx_installed \/ m \in LivePeers(x)
    BY <2>7, <2>9, <2>12, Zenon DEF SetsInstalled
  <2> HIDE DEF Shaped, SameMember, SameRole
  <2> QED BY <2>1, <2>2, <2>3, <2>4, <2>5, <2>13, <2>14, Zenon DEF TakesSak
<1> QED BY <1>1, <1>2, Zenon

\* A session without peers and without a SAK.
Blank(y) ==
    /\ Shaped(y) /\ DOMAIN y.peers = {}
    /\ y.lki = NoKey /\ y.ltx = FALSE /\ y.lrx = FALSE /\ y.dist_sak = NoDist

\* reset_mi leaves a session without peers and SAK, but with its netdev and its
\* key number.
LEMMA ResetsMi ==
    ASSUME NEW n, NEW x, Shaped(x), NEW y, y = ResetMi(n, x)
    PROVE  /\ Blank(y) /\ y.mi = <<n, x.mi[2] + 1>>
           /\ y.encrypt = x.encrypt /\ y.next_kn = x.next_kn /\ y.dev = x.dev
<1>1. PICK mi : mi = <<n, x.mi[2] + 1>>
  BY Zenon
<1>2. PICK f : f = <<>>
  BY Zenon
<1>3. PICK e : e = (n \in KeyServerCapable)
  BY Zenon
<1>4. y = [x EXCEPT !.mi = mi, !.peers = f, !.is_key_server = e,
              !.key_server_sci = NoSci, !.lki = NoKey, !.dist_sak = NoDist,
              !.sak_aged = TRUE, !.ltx = FALSE, !.lrx = FALSE,
              !.need_new_sak = FALSE, !.need_send = TRUE]
  BY <1>1, <1>2, <1>3, Zenon DEF ResetMi
<1>5. /\ IsSession(y) /\ y.mi = mi /\ y.peers = f /\ y.lki = NoKey /\ y.ltx = FALSE
      /\ y.lrx = FALSE /\ y.dist_sak = NoDist
      /\ y.encrypt = x.encrypt /\ y.next_kn = x.next_kn /\ y.dev = x.dev
  BY <1>4, ZenonT(60) DEF Shaped, IsSession
<1>6. DOMAIN y.peers = {}
  BY <1>2, <1>5
<1> QED BY <1>1, <1>5, <1>6, Zenon DEF Blank, Shaped

\* A new session has no peers, no SAK and no SA.
LEMMA NewSessionBlank ==
    ASSUME NEW n, NEW mi, NEW encrypt, NEW y, y = NewSession(n, mi, encrypt)
    PROVE  /\ Blank(y) /\ y.mi = mi /\ y.encrypt = encrypt /\ y.next_kn = 1
           /\ y.dev.tx = {} /\ y.dev.rx = {}
<1>1. PICK f : f = <<>>
  BY Zenon
<1>2. PICK e : e = (n \in KeyServerCapable)
  BY Zenon
<1>3. PICK d : d = MacsecCreate
  BY Zenon
<1>4. PICK x : x = [mi |-> mi, encrypt |-> encrypt, peers |-> f,
       is_key_server |-> e, key_server_sci |-> NoSci,
       lki |-> NoKey, lan |-> 0, ltx |-> FALSE, lrx |-> FALSE, dist_sak |-> NoDist,
       next_kn |-> 1, sak_aged |-> TRUE,
       hello_due |-> TRUE, need_send |-> TRUE, need_new_sak |-> FALSE, dev |-> d]
  BY Zenon
<1>5. y = ElectKeyServer(n, x)
  BY <1>1, <1>2, <1>3, <1>4, Zenon DEF NewSession
<1>6. IsDev(d) /\ d.tx = {} /\ d.rx = {}
  BY <1>3, Zenon DEF MacsecCreate, IsDev
<1>7. /\ IsSession(x) /\ x.mi = mi /\ x.encrypt = encrypt /\ x.peers = f /\ x.next_kn = 1
      /\ x.lki = NoKey /\ x.ltx = FALSE /\ x.lrx = FALSE /\ x.dist_sak = NoDist /\ x.dev = d
  BY <1>4, Zenon DEF IsSession
<1>8. DOMAIN x.peers = {}
  BY <1>1, <1>7
<1>9. Shaped(x)
  BY <1>6, <1>7, <1>8, Zenon DEF Shaped
<1>10. Reelected(x, y) /\ y.peers = x.peers
  BY <1>5, <1>9, Elects, Zenon
<1> QED BY <1>6, <1>7, <1>8, <1>10, Zenon DEF Reelected, SameSak, Blank

\* The entries of y are those of x, but for the member numbers (and expiry).
SameEntry(r, s) ==
    /\ s.sci = r.sci /\ s.key_server = r.key_server /\ s.capable = r.capable
    /\ s.live = r.live /\ s.rx_ready = r.rx_ready /\ s.rx_installed = r.rx_installed
SameEntries(x, y) ==
    /\ DOMAIN y.peers = DOMAIN x.peers
    /\ \A m \in DOMAIN x.peers : SameEntry(x.peers[m], y.peers[m])

\* A frame that another member sends changes only the ages kept of its numbers.
LEMMA AgesPeers ==
    ASSUME NEW x, Shaped(x), NEW mi, NEW y, y = AgePeers(x, mi)
    PROVE  OnlyPeers(x, y) /\ SameEntries(x, y)
<1>1. CASE mi \notin DOMAIN x.peers
  BY <1>1, Zenon DEF AgePeers, OnlyPeers, SameSak, SameRole, SameEntries, SameEntry
<1>2. CASE mi \in DOMAIN x.peers
  <2>1. PICK f : f = x.peers
    BY Zenon
  <2>2. PICK old : old = f[mi]
    BY Zenon
  <2>3. PICK age : age = Older(old.age)
    BY Zenon
  <2>4. PICK r : r = [old EXCEPT !.age = age]
    BY Zenon
  <2>5. PICK g : g = [f EXCEPT ![mi] = r]
    BY Zenon
  <2>6. y = [x EXCEPT !.peers[mi].age = Older(@)]
    BY <1>2, Zenon DEF AgePeers
  <2>7. y = [x EXCEPT !.peers = g]
    BY <2>1, <2>2, <2>3, <2>4, <2>5, <2>6, Zenon
  <2>8. IsSession(y) /\ SameSak(x, y) /\ SameRole(x, y) /\ y.peers = g
    BY <2>7, Zenon DEF Shaped, IsSession, SameSak, SameRole
  <2>9. /\ DOMAIN g = DOMAIN x.peers /\ g[mi] = r
        /\ \A m \in DOMAIN x.peers \ {mi} : g[m] = x.peers[m]
    BY <1>2, <2>1, <2>5, Zenon
  <2>10. IsPeer(old) /\ old = x.peers[mi]
    BY <1>2, <2>1, <2>2, Zenon DEF Shaped
  <2>11. IsPeer(r) /\ SameEntry(old, r)
    BY <2>4, <2>10, Zenon DEF IsPeer, SameEntry
  <2>12. OnlyPeers(x, y)
    BY <2>8, <2>9, <2>11, Zenon DEF OnlyPeers, Shaped, SameSak
  <2>13. \A m \in DOMAIN x.peers : SameEntry(x.peers[m], g[m])
    <3>1. \A m \in DOMAIN x.peers \ {mi} : SameEntry(x.peers[m], g[m])
      BY <2>9, Zenon DEF SameEntry
    <3> QED BY <2>9, <2>10, <2>11, <3>1, Zenon
  <2> QED BY <2>8, <2>9, <2>12, <2>13, Zenon DEF SameEntries
<1> QED BY <1>1, <1>2, Zenon

\* That a peer falls silent changes only its entry, and none of its flags.
LEMMA PeerSilent ==
    ASSUME NEW x, Shaped(x), NEW mi \in DOMAIN x.peers,
           NEW y, y = [x EXCEPT !.peers[mi].stale = TRUE]
    PROVE  OnlyPeers(x, y) /\ SameEntries(x, y)
<1>1. PICK f : f = x.peers
  BY Zenon
<1>2. PICK old : old = f[mi]
  BY Zenon
<1>3. PICK r : r = [old EXCEPT !.stale = TRUE]
  BY Zenon
<1>4. PICK g : g = [f EXCEPT ![mi] = r]
  BY Zenon
<1>5. y = [x EXCEPT !.peers = g]
  BY <1>1, <1>2, <1>3, <1>4, Zenon
<1>6. IsSession(y) /\ SameSak(x, y) /\ SameRole(x, y) /\ y.peers = g
  BY <1>5, Zenon DEF Shaped, IsSession, SameSak, SameRole
<1>7. /\ DOMAIN g = DOMAIN x.peers /\ g[mi] = r
      /\ \A m \in DOMAIN x.peers \ {mi} : g[m] = x.peers[m]
  BY <1>1, <1>4, Zenon
<1>8. IsPeer(old) /\ old = x.peers[mi]
  BY <1>1, <1>2, Zenon DEF Shaped
<1>9. IsPeer(r) /\ SameEntry(old, r)
  BY <1>3, <1>8, Zenon DEF IsPeer, SameEntry
<1>10. OnlyPeers(x, y)
  BY <1>6, <1>7, <1>9, Zenon DEF OnlyPeers, Shaped, SameSak
<1>11. \A m \in DOMAIN x.peers : SameEntry(x.peers[m], g[m])
  <2>1. \A m \in DOMAIN x.peers \ {mi} : SameEntry(x.peers[m], g[m])
    BY <1>7, Zenon DEF SameEntry
  <2> QED BY <1>7, <1>8, <1>9, <2>1, Zenon
<1> QED BY <1>6, <1>7, <1>10, <1>11, Zenon DEF SameEntries


-----------------------------------------------------------------------------
(* One session *)

\* The latest SAK is under its association number in the netdev, and a session
\* that says it transmits has the netdev encode with that SA.
TxOK(x) ==
    /\ OnePerAn(x.dev)
    /\ x.lki # NoKey => \E sa \in x.dev.tx : sa.an = x.lan /\ sa.ki = x.lki
    /\ x.ltx => /\ x.lki # NoKey /\ x.dev.enc = x.lan
                /\ \A sa \in x.dev.tx : sa.an = x.lan => sa.active
\* What is distributed is the latest SAK, made by this key server and not yet
\* used to transmit.
DistOK(x) ==
    x.dist_sak # NoDist =>
        /\ x.is_key_server /\ x.lki = <<x.mi, x.dist_sak.kn>>
        /\ x.lan = x.dist_sak.an /\ ~x.ltx
SessionOK(x) == Shaped(x) /\ TxOK(x) /\ DistOK(x)

\* Changes to peer entries leave the SAK and the netdev as they were.
LEMMA OnlyPeersOK ==
    ASSUME NEW x, SessionOK(x), NEW y, OnlyPeers(x, y)
    PROVE  SessionOK(y)
BY Zenon DEF SessionOK, OnlyPeers, SameSak, SameRole, TxOK, DistOK

\* An election keeps a session in order: a server voted out no longer
\* distributes.
LEMMA ReelectedOK ==
    ASSUME NEW x, SessionOK(x), NEW y, Reelected(x, y)
    PROVE  SessionOK(y)
BY Zenon DEF SessionOK, Reelected, SameSak, TxOK, DistOK

\* The SAK that ensure_sak makes is installed before it is distributed.
LEMMA MakesSakOK ==
    ASSUME NEW x, SessionOK(x), x.is_key_server, NEW y, MakesSak(x, y)
    PROVE  SessionOK(y)
<1>1. PICK an : an = y.lan
  BY Zenon
<1>2. PICK ki : ki = y.lki
  BY Zenon
<1>3. PICK scis : scis = LivePeerScis(x)
  BY Zenon
<1>4. PICK d : d = InstallTxSa(x.dev, an, ki)
  BY Zenon
<1>5. PICK e : e = InstallRxSas(d, scis, an, ki)
  BY Zenon
<1>6. IsDev(x.dev) /\ TxSas(x.dev) /\ OnePerAn(x.dev)
  BY Zenon DEF SessionOK, Shaped, TxSas, TxOK
<1>7. IsDev(d) /\ OnePerAn(d) /\ \E sa \in d.tx : sa.an = an /\ sa.ki = ki
  BY <1>4, <1>6, TxSaInstalled
<1>8. e.tx = d.tx
  BY <1>5, <1>7, RxSasInstalled
<1>9. /\ Shaped(y) /\ y.dev = e /\ y.ltx = FALSE /\ y.is_key_server /\ y.mi = x.mi
      /\ y.lki = <<x.mi, x.next_kn>>
      /\ y.dist_sak = [kn |-> x.next_kn, an |-> y.lan, encrypt |-> x.encrypt]
  BY <1>1, <1>2, <1>3, <1>4, <1>5, Zenon DEF MakesSak
<1>10. TxOK(y)
  BY <1>1, <1>2, <1>7, <1>8, <1>9, Zenon DEF TxOK, OnePerAn
<1>11. DistOK(y)
  BY <1>9 DEF DistOK
<1> QED BY <1>9, <1>10, <1>11, Zenon DEF SessionOK

\* More RX SAs do not disturb the TX SA.
LEMMA ReceivesOK ==
    ASSUME NEW x, SessionOK(x), NEW y, NEW scis, Receives(x, y, scis)
    PROVE  SessionOK(y)
<1>1. IsDev(x.dev)
  BY Zenon DEF SessionOK, Shaped
<1>2. PICK e : e = InstallRxSas(x.dev, scis, x.lan, x.lki)
  BY Zenon
<1>3. e.tx = x.dev.tx /\ e.enc = x.dev.enc
  BY <1>1, <1>2, RxSasInstalled
<1>4. /\ Shaped(y) /\ y.dev = e /\ y.lki = x.lki /\ y.lan = x.lan /\ y.ltx = x.ltx
      /\ y.mi = x.mi /\ y.is_key_server = x.is_key_server /\ y.dist_sak = x.dist_sak
  BY <1>2, Zenon DEF Receives, SameMember, SameRole
<1> QED BY <1>3, <1>4, Zenon DEF SessionOK, TxOK, DistOK, OnePerAn

\* A session that transmits with its latest SAK has the netdev do so, whether
\* the key server starts or a member follows.
LEMMA ActiveOK ==
    ASSUME NEW x, SessionOK(x), x.lki # NoKey, NEW y, y.dist_sak = NoDist,
           Shaped(y), y.lki = x.lki, y.lan = x.lan, y.dev = SetTxSaActive(x.dev, x.lan)
    PROVE  SessionOK(y)
<1>1. IsDev(x.dev) /\ TxSas(x.dev) /\ OnePerAn(x.dev)
  BY Zenon DEF SessionOK, Shaped, TxSas, TxOK
<1>2. PICK an : an = x.lan
  BY Zenon
<1>3. PICK e : e = SetTxSaActive(x.dev, an)
  BY Zenon
<1>4. /\ OnePerAn(e) /\ e.enc = an
      /\ \A sa \in e.tx : sa.an = an => sa.active
      /\ \A sa \in x.dev.tx : \E s \in e.tx : s.an = sa.an /\ s.ki = sa.ki
  BY <1>1, <1>3, TxSaActivated
<1>5. \E sa \in x.dev.tx : sa.an = x.lan /\ sa.ki = x.lki
  BY Zenon DEF SessionOK, TxOK
<1>6. \E s \in e.tx : s.an = x.lan /\ s.ki = x.lki
  BY <1>4, <1>5, Zenon
<1>7. TxOK(y)
  BY <1>2, <1>3, <1>4, <1>6, Zenon DEF TxOK
<1> QED BY <1>7, Zenon DEF SessionOK, DistOK

\* Handling SAK Use keeps a session in order.
LEMMA HandleSakUseOK ==
    ASSUME NEW x, SessionOK(x), NEW p, NEW y, y = HandleSakUse(x, p)
    PROVE  SessionOK(y)
<1>1. Shaped(x) /\ OnePerAn(x.dev)
  BY Zenon DEF SessionOK, TxOK
<1>2. y = x \/ CountsReceivers(x, y, p) \/ Follows(x, y, p)
  BY <1>1, HandlesSakUse, Zenon
<1>3. CASE CountsReceivers(x, y, p)
  <2>1. /\ Shaped(y) /\ y.mi = x.mi /\ y.is_key_server = x.is_key_server
        /\ y.lki = x.lki /\ y.lan = x.lan /\ x.lki # NoKey
    BY <1>3, Zenon DEF CountsReceivers, SameMember, SakUseMatches
  <2>2. CASE y.ltx = x.ltx /\ y.dev = x.dev /\ y.dist_sak \in {x.dist_sak, NoDist}
    BY <2>1, <2>2, Zenon DEF SessionOK, TxOK, DistOK
  <2>3. CASE y.dev = SetTxSaActive(x.dev, x.lan) /\ y.dist_sak = NoDist
    BY <2>1, <2>3, ActiveOK, Zenon
  <2> QED BY <1>3, <2>2, <2>3, Zenon DEF CountsReceivers
<1>4. CASE Follows(x, y, p)
  <2>1. /\ Shaped(y) /\ y.lki = x.lki /\ y.lan = x.lan /\ x.lki # NoKey
        /\ y.dev = SetTxSaActive(x.dev, x.lan) /\ y.dist_sak = x.dist_sak
        /\ ~x.is_key_server
    BY <1>4, Zenon DEF Follows, Transmits, SakUseMatches, SameRole
  <2>2. y.dist_sak = NoDist
    BY <2>1, Zenon DEF SessionOK, DistOK
  <2> QED BY <2>1, <2>2, ActiveOK, Zenon
<1> QED BY <1>2, <1>3, <1>4, Zenon

\* Taking a distributed SAK keeps a session in order: only a session that is not
\* the key server, and so distributes nothing, takes one.
LEMMA InstallDistSakOK ==
    ASSUME NEW x, SessionOK(x), ~x.is_key_server, NEW p, NEW y, y = InstallDistSak(x, p)
    PROVE  SessionOK(y)
<1>1. Shaped(x)
  BY Zenon DEF SessionOK
<1>2. y = x \/ TakesSak(x, y, p)
  BY <1>1, InstallsDistSak, Zenon
<1>3. CASE TakesSak(x, y, p)
  <2>1. PICK an : an = y.lan
    BY Zenon
  <2>2. PICK ki : ki = y.lki
    BY Zenon
  <2>3. PICK scis : scis = LivePeerScis(x) \union {x.peers[p.mi].sci}
    BY Zenon
  <2>4. PICK d : d = InstallRxSas(x.dev, scis, an, ki)
    BY Zenon
  <2>5. PICK e : e = InstallTxSa(d, an, ki)
    BY Zenon
  <2>6. IsDev(x.dev) /\ TxSas(x.dev) /\ OnePerAn(x.dev)
    BY Zenon DEF SessionOK, Shaped, TxSas, TxOK
  <2>7. IsDev(d) /\ d.tx = x.dev.tx
    BY <2>4, <2>6, RxSasInstalled
  <2>8. TxSas(d) /\ OnePerAn(d)
    BY <2>6, <2>7, Zenon DEF TxSas, OnePerAn
  <2>9. OnePerAn(e) /\ \E sa \in e.tx : sa.an = an /\ sa.ki = ki
    BY <2>5, <2>7, <2>8, TxSaInstalled
  <2>10. Shaped(y) /\ y.dev = e /\ y.ltx = FALSE /\ y.dist_sak = x.dist_sak
    BY <1>3, <2>1, <2>2, <2>3, <2>4, <2>5, Zenon DEF TakesSak, SameRole
  <2>11. TxOK(y)
    BY <2>1, <2>2, <2>9, <2>10, Zenon DEF TxOK
  <2> QED BY <2>10, <2>11, Zenon DEF SessionOK, DistOK
<1> QED BY <1>2, <1>3, Zenon

\* ensure_sak keeps a session in order.
LEMMA EnsureSakOK ==
    ASSUME NEW n, NEW x, SessionOK(x), NEW y, y = EnsureSak(n, x)
    PROVE  SessionOK(y)
<1>1. (y = x /\ ~SakWanted(x)) \/ (SakWanted(x) /\ MakesSak(x, y))
  BY EnsuresSak, Zenon DEF SessionOK
<1> QED BY <1>1, MakesSakOK, Zenon DEF SakWanted

\* drop_unsecure_sak keeps a session in order: it also stops distributing.
LEMMA DropUnsecureSakOK ==
    ASSUME NEW x, SessionOK(x), NEW y, y = DropUnsecureSak(x)
    PROVE  SessionOK(y)
<1>1. y = x \/ DropsSak(x, y)
  BY DropsUnsecureSak, Zenon DEF SessionOK
<1>2. CASE DropsSak(x, y)
  BY <1>2, Zenon DEF DropsSak, SessionOK, TxOK, DistOK, OnePerAn
<1> QED BY <1>1, <1>2, Zenon

\* A session that begins without a SAK is in order, whatever SAs its netdev has.
LEMMA BlankOK ==
    ASSUME NEW y, Blank(y), OnePerAn(y.dev)
    PROVE  SessionOK(y)
BY Zenon DEF Blank, SessionOK, TxOK, DistOK

-----------------------------------------------------------------------------
(* The wire *)

\* An MKPDU, a queue of them, and two MKPDUs alike up to member numbers.
IsFrame(p) ==
    p = [mi |-> p.mi, sci |-> p.sci, age |-> p.age, key_server |-> p.key_server,
         capable |-> p.capable, heard |-> p.heard, live |-> p.live,
         sak_use |-> p.sak_use, dist_sak |-> p.dist_sak]
IsQueue(q) ==
    /\ q \in Seq({q[i] : i \in DOMAIN q})
    /\ \A i \in DOMAIN q : IsFrame(q[i])
SameFrame(p, r) ==
    /\ IsFrame(r) /\ r.mi = p.mi /\ r.sci = p.sci /\ r.key_server = p.key_server
    /\ r.capable = p.capable /\ r.live = p.live
    /\ r.sak_use = p.sak_use /\ r.dist_sak = p.dist_sak

\* A sequence is one over the set of its elements.
LEMMA SeqOfItsElements ==
    ASSUME NEW S, NEW q \in Seq(S)
    PROVE  q \in Seq({q[i] : i \in DOMAIN q}) /\ \A i \in DOMAIN q : q[i] \in S
<1>1. /\ Len(q) \in Nat /\ DOMAIN q = 1..Len(q) /\ \A i \in DOMAIN q : q[i] \in S
      /\ q = [i \in 1..Len(q) |-> q[i]]
  OBVIOUS
<1>2. PICK T : T = {q[i] : i \in DOMAIN q}
  BY Zenon
<1>3. \A i \in 1..Len(q) : q[i] \in T
  BY <1>1, <1>2, Zenon
<1>4. q \in [1..Len(q) -> T]
  BY <1>1, <1>3, Zenon
<1>5. q \in Seq(T)
  BY <1>1, <1>4
<1> QED BY <1>1, <1>2, <1>5, Zenon

\* A frame in flight only grows older.
LEMMA AgesFrame ==
    ASSUME NEW p, IsFrame(p), NEW mi, NEW r, r = AgeFrame(p, mi)
    PROVE  SameFrame(p, r)
<1>1. PICK a : a = IF p.mi = mi THEN Older(p.age) ELSE p.age
  BY Zenon
<1>2. PICK h : h = [m \in DOMAIN p.heard |-> IF m = mi THEN Older(p.heard[m]) ELSE p.heard[m]]
  BY Zenon
<1>3. r = [p EXCEPT !.age = a, !.heard = h]
  BY <1>1, <1>2, Zenon DEF AgeFrame
<1> QED BY <1>3, Zenon DEF IsFrame, SameFrame

\* A queue of frames only grows older, in order.
LEMMA AgesQueue ==
    ASSUME NEW q, IsQueue(q), NEW mi, NEW r, r = AgeQueue(q, mi)
    PROVE  /\ IsQueue(r) /\ DOMAIN r = DOMAIN q
           /\ \A i \in DOMAIN q : SameFrame(q[i], r[i])
<1>1. r = [i \in DOMAIN q |-> AgeFrame(q[i], mi)]
  BY Zenon DEF AgeQueue
<1>2. Len(q) \in Nat /\ DOMAIN q = 1..Len(q)
  BY DEF IsQueue
<1>3. \A i \in DOMAIN q : SameFrame(q[i], r[i])
  BY <1>1, AgesFrame, Zenon DEF IsQueue
<1>4. PICK T : T = {r[i] : i \in DOMAIN r}
  BY Zenon
<1>5. r \in [1..Len(q) -> T]
  BY <1>1, <1>2, <1>4, Zenon
<1>6. r \in Seq(T)
  BY <1>2, <1>5
<1> QED BY <1>1, <1>3, <1>4, <1>6, Zenon DEF IsQueue, SameFrame

\* A queue that loses a frame to a later one of its sender is still a queue.
LEMMA WithoutOne ==
    ASSUME NEW S, NEW q \in Seq(S), NEW k, NEW r, r = Without(q, k)
    PROVE  r \in Seq(S)
<1>1. r = [i \in 1..(Len(q) - 1) |-> IF i < k THEN q[i] ELSE q[i + 1]]
  BY Zenon DEF Without
<1>2. \A i \in 1..(Len(q) - 1) : (IF i < k THEN q[i] ELSE q[i + 1]) \in S
  OBVIOUS
<1>3. CASE Len(q) = 0
  <2>1. r = <<>>
    BY <1>1, <1>3
  <2> QED BY <2>1
<1>4. CASE Len(q) # 0
  <2>1. Len(q) - 1 \in Nat
    BY <1>4
  <2> QED BY <1>1, <1>2, <2>1
<1> QED BY <1>3, <1>4, Zenon

\* The frame sent joins a queue, which otherwise holds frames it held before.
LEMMA Enqueues ==
    ASSUME NEW q, IsQueue(q), NEW p, IsFrame(p), NEW r, r = Enqueue(q, p)
    PROVE  /\ IsQueue(r)
           /\ \A i \in DOMAIN r : r[i] = p \/ \E j \in DOMAIN q : r[i] = q[j]
<1>1. PICK T : T = {q[i] : i \in DOMAIN q}
  BY Zenon
<1>2. q \in Seq(T)
  BY <1>1, Zenon DEF IsQueue
<1>3. PICK k : r = Append(q, p) \/ r = Append(Without(q, k), p)
  BY Zenon DEF Enqueue
<1>4. PICK s : s = Without(q, k)
  BY Zenon
<1>5. PICK t \in Seq(T) : r = Append(t, p)
  <2>1. s \in Seq(T)
    BY <1>2, <1>4, WithoutOne, Zenon
  <2> QED BY <1>2, <1>3, <1>4, <2>1, Zenon
<1>6. PICK U : U = T \union {p}
  BY Zenon
<1>7. t \in Seq(U) /\ p \in U
  BY <1>5, <1>6
<1>8. r \in Seq(U)
  BY <1>5, <1>7
<1>9. r \in Seq({r[i] : i \in DOMAIN r}) /\ \A i \in DOMAIN r : r[i] \in U
  BY <1>8, SeqOfItsElements
<1>10. \A i \in DOMAIN r : r[i] = p \/ \E j \in DOMAIN q : r[i] = q[j]
  BY <1>1, <1>6, <1>9, Zenon
<1>11. \A i \in DOMAIN r : IsFrame(r[i])
  <2>1. \A j \in DOMAIN q : IsFrame(q[j])
    BY Zenon DEF IsQueue
  <2> QED BY <1>10, <2>1, Zenon
<1> QED BY <1>9, <1>10, <1>11, Zenon DEF IsQueue

\* Queue r is what is left of q once its first frame is received.
Received(q, r) ==
    /\ IsQueue(r) /\ \A i \in DOMAIN r : \E j \in DOMAIN q : r[i] = q[j]
    /\ 1 \in DOMAIN q /\ Head(q) = q[1]

\* Receiving takes the first frame and leaves the others.
LEMMA TailQueue ==
    ASSUME NEW q, IsQueue(q), q # <<>>
    PROVE  Received(q, Tail(q))
<1>0. PICK r : r = Tail(q)
  BY Zenon
<1>1. PICK T : T = {q[i] : i \in DOMAIN q}
  BY Zenon
<1>2. q \in Seq(T)
  BY <1>1, Zenon DEF IsQueue
<1>3. r \in Seq(T) /\ 1 \in DOMAIN q /\ Head(q) = q[1]
  BY <1>0, <1>2
<1>4. r \in Seq({r[i] : i \in DOMAIN r}) /\ \A i \in DOMAIN r : r[i] \in T
  <2>1. \A t \in Seq(T) :
           t \in Seq({t[i] : i \in DOMAIN t}) /\ \A i \in DOMAIN t : t[i] \in T
    BY SeqOfItsElements, Zenon
  <2> QED BY <1>3, <2>1, Zenon
<1>5. \A i \in DOMAIN r : \E j \in DOMAIN q : r[i] = q[j]
  BY <1>1, <1>4, Zenon
<1>6. Received(q, r)
  BY <1>3, <1>4, <1>5, Zenon DEF IsQueue, Received
<1> QED BY <1>0, <1>6, Zenon

-----------------------------------------------------------------------------
(* The steps of the sessions *)

\* The end of handle_frame, from the session e left by the SAK Use.
FrameRest(n, e, p, y) ==
    \/ DistSakApplies(e, p) /\ y = e
    \/ \E f, g :
          /\ f = e \/ (DistSakApplies(e, p) /\ f = InstallDistSak(e, p))
          /\ g = EnsureSak(n, f)
          /\ y = InstallRxSasForLivePeers(g)

\* handle_frame as the sequence of its stages.
LEMMA HandleFrameStages ==
    ASSUME NEW n, NEW x, NEW p, NEW y \in HandleFrame(n, x, p)
    PROVE  \/ y = x
           \/ \E a, b, c, d, e :
                 /\ a = UpdatePeer(x, p) /\ b = PromoteSender(a, p)
                 /\ c = LearnPeers(b, p) /\ d = ElectKeyServer(n, c)
                 /\ e = HandleSakUse(d, p) /\ FrameRest(n, e, p, y)
<1>1. CASE p.mi \in DOMAIN x.peers /\ x.peers[p.mi].age <= p.age
  BY <1>1, Zenon DEF HandleFrame
<1>2. CASE ~(p.mi \in DOMAIN x.peers /\ x.peers[p.mi].age <= p.age)
  <2>1. PICK a : a = UpdatePeer(x, p)
    BY Zenon
  <2>2. PICK b : b = PromoteSender(a, p)
    BY Zenon
  <2>3. PICK c : c = LearnPeers(b, p)
    BY Zenon
  <2>4. PICK d : d = ElectKeyServer(n, c)
    BY Zenon
  <2>5. PICK e : e = HandleSakUse(d, p)
    BY Zenon
  <2>6. y \in IF DistSakApplies(e, p) /\ ~DistSakSupported(e, p) THEN {e}
              ELSE {InstallRxSasForLivePeers(z) : z \in
                       IF ~DistSakApplies(e, p) THEN {EnsureSak(n, e)}
                       ELSE {EnsureSak(n, z) : z \in {InstallDistSak(e, p)}}}
    <3>1. {HandleSakUse(z, p) : z \in {ElectKeyServer(n, u) : u \in
             {LearnPeers(v, p) : v \in {PromoteSender(w, p) : w \in {UpdatePeer(x, p)}}}}}
          = {e}
      BY <2>1, <2>2, <2>3, <2>4, <2>5, Zenon
    <3>2. PICK used : used = {HandleSakUse(z, p) : z \in {ElectKeyServer(n, u) : u \in
             {LearnPeers(v, p) : v \in {PromoteSender(w, p) : w \in {UpdatePeer(x, p)}}}}}
      BY Zenon
    <3>3. y \in UNION {IF DistSakApplies(z, p) /\ ~DistSakSupported(z, p) THEN {z}
                       ELSE {InstallRxSasForLivePeers(v) : v \in
                               IF ~DistSakApplies(z, p) THEN {EnsureSak(n, z)}
                               ELSE {EnsureSak(n, w) : w \in {InstallDistSak(z, p)}}}
                       : z \in used}
      BY <1>2, <3>2, Zenon DEF HandleFrame
    <3> QED BY <3>1, <3>2, <3>3, Zenon
  <2>7. FrameRest(n, e, p, y)
    <3>1. CASE DistSakApplies(e, p) /\ ~DistSakSupported(e, p)
      BY <2>6, <3>1, Zenon DEF FrameRest
    <3>2. CASE ~(DistSakApplies(e, p) /\ ~DistSakSupported(e, p))
      <4>1. PICK g : /\ g \in IF ~DistSakApplies(e, p) THEN {EnsureSak(n, e)}
                               ELSE {EnsureSak(n, z) : z \in {InstallDistSak(e, p)}}
                     /\ y = InstallRxSasForLivePeers(g)
        BY <2>6, <3>2, Zenon
      <4>2. PICK f : /\ f = e \/ (DistSakApplies(e, p) /\ f = InstallDistSak(e, p))
                     /\ g = EnsureSak(n, f)
        BY <4>1, Zenon
      <4> QED BY <4>1, <4>2, Zenon DEF FrameRest
    <3> QED BY <3>1, <3>2, Zenon
  <2> QED BY <2>1, <2>2, <2>3, <2>4, <2>5, <2>7, Zenon
<1> QED BY <1>1, <1>2, Zenon

\* What ensure_sak, drop_unsecure_sak and expire_peers do.
SakEnsured(x, y) == (y = x /\ ~SakWanted(x)) \/ (SakWanted(x) /\ MakesSak(x, y))
SakDropped(x, y) ==
    (y = x /\ (x.lki = NoKey \/ HasLivePeer(x))) \/ (~HasLivePeer(x) /\ DropsSak(x, y))

\* The stages of handle_frame up to the SAK Use, and after it.
Heard(x, p, e) ==
    \E a, b, c, d :
        /\ SessionOK(a) /\ SessionOK(b) /\ SessionOK(c) /\ SessionOK(d) /\ SessionOK(e)
        /\ PeerUpdated(x, a, p) /\ SenderPromoted(a, b, p) /\ PeersLearned(b, c, p)
        /\ Reelected(c, d) /\ d.peers = c.peers
        /\ e = d \/ CountsReceivers(d, e, p) \/ Follows(d, e, p)
Settled(e, p, y) ==
    \/ y = e /\ DistSakApplies(e, p)
    \/ \E f, g :
          /\ SessionOK(f) /\ SessionOK(g)
          /\ f = e \/ (DistSakApplies(e, p) /\ TakesSak(e, f, p))
          /\ SakEnsured(f, g)
          /\ y = g \/ Receives(g, y, PendingRxScis(g))

\* handle_frame keeps a session in order, through all of its stages.
LEMMA HandleFrameOK ==
    ASSUME NEW n, NEW x, SessionOK(x), NEW p, NEW y \in HandleFrame(n, x, p)
    PROVE  SessionOK(y) /\ (y = x \/ \E e : Heard(x, p, e) /\ Settled(e, p, y))
<1>1. CASE y = x
  BY <1>1, Zenon
<1>2. CASE y # x
  <2>1. PICK a, b, c, d, e :
                 /\ a = UpdatePeer(x, p) /\ b = PromoteSender(a, p)
                 /\ c = LearnPeers(b, p) /\ d = ElectKeyServer(n, c)
                 /\ e = HandleSakUse(d, p) /\ FrameRest(n, e, p, y)
    BY <1>2, HandleFrameStages
  <2> USE DEF SessionOK
  <2>2. PeerUpdated(x, a, p)
    BY <2>1, UpdatesPeer, Zenon
  <2>3. SessionOK(a) /\ p.mi \in DOMAIN a.peers
    <3>1. OnlyPeers(x, a) /\ p.mi \in DOMAIN a.peers
      BY <2>2, Zenon DEF PeerUpdated
    <3> QED BY <3>1, OnlyPeersOK, Zenon
  <2>4. SenderPromoted(a, b, p)
    BY <2>1, <2>3, PromotesSender, Zenon
  <2>5. SessionOK(b)
    <3>1. OnlyPeers(a, b)
      BY <2>4, Zenon DEF SenderPromoted
    <3> QED BY <2>3, <3>1, OnlyPeersOK, Zenon
  <2>6. PeersLearned(b, c, p)
    BY <2>1, <2>5, LearnsPeers, Zenon
  <2>7. SessionOK(c)
    <3>1. OnlyPeers(b, c)
      BY <2>6, Zenon DEF PeersLearned
    <3> QED BY <2>5, <3>1, OnlyPeersOK, Zenon
  <2>8. Reelected(c, d) /\ d.peers = c.peers
    BY <2>1, <2>7, Elects
  <2>9. SessionOK(d)
    BY <2>7, <2>8, ReelectedOK, Zenon
  <2>10. SessionOK(e) /\ (e = d \/ CountsReceivers(d, e, p) \/ Follows(d, e, p))
    <3>1. OnePerAn(d.dev)
      BY <2>9, Zenon DEF TxOK
    <3> QED BY <2>1, <2>9, <3>1, HandleSakUseOK, HandlesSakUse, Zenon
  <2> HIDE DEF SessionOK
  <2>11. Heard(x, p, e)
    BY <2>2, <2>3, <2>4, <2>5, <2>6, <2>7, <2>8, <2>9, <2>10, Zenon DEF Heard
  <2>12. ASSUME NEW f, NEW g,
               f = e \/ (DistSakApplies(e, p) /\ f = InstallDistSak(e, p)),
               g = EnsureSak(n, f), y = InstallRxSasForLivePeers(g)
        PROVE  SessionOK(y) /\ Settled(e, p, y)
    <3>1. SessionOK(f) /\ (f = e \/ (DistSakApplies(e, p) /\ TakesSak(e, f, p)))
      <4>1. CASE f = e
        BY <2>10, <4>1, Zenon
      <4>2. CASE DistSakApplies(e, p) /\ f = InstallDistSak(e, p)
        <5>1. Shaped(e) /\ ~e.is_key_server
          BY <2>10, <4>2, Zenon DEF SessionOK, DistSakApplies
        <5>2. SessionOK(f)
          BY <2>10, <4>2, <5>1, InstallDistSakOK, Zenon
        <5>3. f = e \/ TakesSak(e, f, p)
          BY <4>2, <5>1, InstallsDistSak, Zenon
        <5> QED BY <4>2, <5>2, <5>3, Zenon
      <4> QED BY <2>12, <4>1, <4>2, Zenon
    <3>2. SakEnsured(f, g)
      BY <2>12, <3>1, EnsuresSak, Zenon DEF SessionOK, SakEnsured
    <3>3. SessionOK(g)
      BY <2>12, <3>1, EnsureSakOK, Zenon
    <3>4. y = g \/ Receives(g, y, PendingRxScis(g))
      BY <2>12, <3>3, RxSasForLivePeers, Zenon DEF SessionOK
    <3>5. SessionOK(y)
      BY <3>3, <3>4, ReceivesOK, Zenon
    <3> QED BY <3>1, <3>2, <3>3, <3>4, <3>5, Zenon DEF Settled
  <2>13. SessionOK(y) /\ Settled(e, p, y)
    <3>1. CASE DistSakApplies(e, p) /\ y = e
      BY <2>10, <3>1, Zenon DEF Settled
    <3> QED BY <2>1, <2>12, <3>1, Zenon DEF FrameRest
  <2> QED BY <2>11, <2>13, Zenon
<1> QED BY <1>1, <1>2, Zenon

\* What any step may do to a session besides: member numbers age, timers pass.
Quiet(x, y) == OnlyPeers(x, y) /\ SameEntries(x, y)

\* Setting hello_due, need_send or sak_aged changes nothing that matters here.
LEMMA QuietFlags ==
    ASSUME NEW x, Shaped(x), NEW y, IsSession(y), SameSak(x, y), SameRole(x, y),
           y.peers = x.peers
    PROVE  Quiet(x, y)
<1>1. OnlyPeers(x, y)
  BY Zenon DEF OnlyPeers, Shaped, SameSak
<1> QED BY <1>1, Zenon DEF Quiet, SameEntries, SameEntry

\* The sessions and the queues have their shape.
Shapes ==
    /\ st = [n \in Node |-> st[n]] /\ \A n \in Node : Shaped(st[n])
    /\ queue = [n \in Node |-> queue[n]] /\ \A n \in Node : IsQueue(queue[n])

\* At the end of a step of run() the session is x, but for its timers, and the
\* other sessions age at most.
LEMMA FinishSessions ==
    ASSUME Shapes, NEW n \in Node, NEW x, Shaped(x), NEW q, NEW send, Finish(n, x, q, send)
    PROVE  /\ st' = [m \in Node |-> st'[m]]
           /\ Quiet(x, st'[n]) /\ st'[n].peers = x.peers
           /\ \A m \in Node \ {n} : Quiet(st[m], st'[m])
<1>1. CASE send
  <2>1. st' = [m \in Node |-> IF m = n THEN [x EXCEPT !.need_send = FALSE, !.hello_due = FALSE]
                 ELSE AgePeers(st[m], x.mi)]
    BY <1>1, Zenon DEF Finish
  <2>2. PICK y : y = st'[n]
    BY Zenon
  <2>3. y = [x EXCEPT !.need_send = FALSE, !.hello_due = FALSE]
    BY <2>1, <2>2, Zenon
  <2>4. Quiet(x, y) /\ y.peers = x.peers
    <3>1. IsSession(y) /\ SameSak(x, y) /\ SameRole(x, y) /\ y.peers = x.peers
      BY <2>3, Zenon DEF Shaped, IsSession, SameSak, SameRole
    <3> QED BY <3>1, QuietFlags, Zenon
  <2>5. ASSUME NEW m \in Node \ {n} PROVE Quiet(st[m], st'[m])
    <3>1. PICK z : z = AgePeers(st[m], x.mi)
      BY Zenon
    <3>2. st'[m] = z /\ Shaped(st[m])
      BY <2>1, <3>1, Zenon DEF Shapes
    <3>3. Quiet(st[m], z)
      BY <3>1, <3>2, AgesPeers, Zenon DEF Quiet
    <3> QED BY <3>2, <3>3, Zenon
  <2> QED BY <2>1, <2>2, <2>4, <2>5, Zenon
<1>2. CASE ~send
  <2>1. st' = [st EXCEPT ![n] = x]
    BY <1>2, Zenon DEF Finish
  <2>2. \A z : Shaped(z) => Quiet(z, z)
    BY Zenon DEF Quiet, OnlyPeers, SameEntries, SameEntry, SameSak, SameRole
  <2>3. st'[n] = x /\ \A m \in Node \ {n} : st'[m] = st[m]
    BY <2>1, Zenon DEF Shapes
  <2>4. st' = [m \in Node |-> st'[m]]
    BY <2>1, Zenon DEF Shapes
  <2> QED BY <2>2, <2>3, <2>4, Zenon DEF Shapes
<1> QED BY <1>1, <1>2, Zenon

\* At the end of a step of run() the queues hold the frames they held and at
\* most one more, the frame sent.
LEMMA FinishQueues ==
    ASSUME Shapes, NEW n \in Node, NEW x, Shaped(x), NEW send, NEW q,
           q = [m \in Node |-> q[m]], \A m \in Node : IsQueue(q[m]), Finish(n, x, q, send)
    PROVE  /\ queue' = [m \in Node |-> queue'[m]] /\ \A m \in Node : IsQueue(queue'[m])
           /\ \A m \in Node : \A i \in DOMAIN queue'[m] :
                 \/ \E j \in DOMAIN q[m] : SameFrame(q[m][j], queue'[m][i])
                 \/ m # n /\ \E exhausted : queue'[m][i] = Mkpdu(n, x, exhausted)
<1>1. CASE send
  <2>1. PICK ex : queue' = [m \in Node |->
                     IF m = n THEN AgeQueue(q[m], x.mi)
                     ELSE Enqueue(AgeQueue(q[m], x.mi), Mkpdu(n, x, ex))]
    BY <1>1, Zenon DEF Finish
  <2>2. PICK p : p = Mkpdu(n, x, ex)
    BY Zenon
  <2>3. IsFrame(p)
    BY <2>2, Zenon DEF Mkpdu, IsFrame
  <2>4. ASSUME NEW m \in Node
        PROVE  /\ IsQueue(queue'[m])
               /\ \A i \in DOMAIN queue'[m] :
                    \/ \E j \in DOMAIN q[m] : SameFrame(q[m][j], queue'[m][i])
                    \/ m # n /\ queue'[m][i] = p
    <3>1. PICK r : r = AgeQueue(q[m], x.mi)
      BY Zenon
    <3>2. /\ IsQueue(r) /\ DOMAIN r = DOMAIN q[m]
          /\ \A i \in DOMAIN q[m] : SameFrame(q[m][i], r[i])
      BY <3>1, AgesQueue, Zenon
    <3>3. CASE m = n
      <4>1. queue'[m] = r
        BY <2>1, <3>1, <3>3, Zenon
      <4> QED BY <3>2, <4>1, Zenon
    <3>4. CASE m # n
      <4>1. PICK s : s = Enqueue(r, p)
        BY Zenon
      <4>2. queue'[m] = s
        BY <2>1, <2>2, <3>1, <3>4, <4>1, Zenon
      <4>3. IsQueue(s) /\ \A i \in DOMAIN s : s[i] = p \/ \E j \in DOMAIN r : s[i] = r[j]
        BY <2>3, <3>2, <4>1, Enqueues
      <4> QED BY <3>2, <3>4, <4>2, <4>3, Zenon
    <3> QED BY <3>3, <3>4, Zenon
  <2>5. queue' = [m \in Node |-> queue'[m]]
    BY <2>1, Zenon
  <2> QED BY <2>2, <2>4, <2>5, Zenon
<1>2. CASE ~send
  <2>1. queue' = q
    BY <1>2, Zenon DEF Finish
  <2>2. \A p : IsFrame(p) => SameFrame(p, p)
    BY Zenon DEF SameFrame
  <2>3. \A m \in Node : \A i \in DOMAIN q[m] : IsFrame(q[m][i])
    BY Zenon DEF IsQueue
  <2> QED BY <2>1, <2>2, <2>3, Zenon
<1> QED BY <1>1, <1>2, Zenon

\* The netdev of y has no RX SA of the SCIs scis; the halves of run(), up to the
\* wait and after it.
ChannelsRemoved(x, y, scis) ==
    /\ Shaped(y) /\ SameMember(x, y) /\ SameRole(x, y) /\ y.peers = x.peers
    /\ y.lki = x.lki /\ y.lan = x.lan /\ y.ltx = x.ltx /\ y.lrx = x.lrx
    /\ y.dev.tx = x.dev.tx /\ y.dev.enc = x.dev.enc
    /\ y.dev.rx = {sa \in x.dev.rx : sa.sci \notin scis}
TopStep(x, z) ==
    /\ SessionOK(z)
    /\ \E u, v : /\ Reelected(x, u) /\ FewerPeers(x, u)
                 /\ \A m \in DOMAIN u.peers : m \notin ExpiredPeers(x)
                 /\ ChannelsRemoved(u, v, ExpiredScis(x)) /\ SakDropped(v, z)
BottomStep(x, z) ==
    /\ SessionOK(z)
    /\ \E u, v : /\ SessionOK(u) /\ SessionOK(v)
                 /\ Reelected(x, u) /\ FewerPeers(x, u)
                 /\ SakDropped(u, v) /\ SakEnsured(v, z)

\* run() up to the wait.
LEMMA RunTopStep ==
    ASSUME NEW n \in Node, SessionOK(st[n]), RunTop(n)
    PROVE  \E z, send : TopStep(st[n], z) /\ Finish(n, z, queue, send)
<1>1. PICK o : o = st[n]
  BY Zenon
<1>2. PICK u, v, z, send :
         /\ u = ExpirePeers(n, o) /\ v = [u EXCEPT !.dev = RemoveRxScs(@, ExpiredScis(o))]
         /\ z = DropUnsecureSak(v) /\ Finish(n, z, queue, send)
  <2>1. PICK u \in {ExpirePeers(n, o)} :
          \E y \in {[u EXCEPT !.dev = RemoveRxScs(@, ExpiredScis(o))]} :
           \E z \in {DropUnsecureSak(y)} :
             Finish(n, z, queue, z.need_send \/ z.hello_due)
    BY <1>1, Zenon DEF RunTop
  <2>2. PICK v \in {[u EXCEPT !.dev = RemoveRxScs(@, ExpiredScis(o))]} :
           \E z \in {DropUnsecureSak(v)} :
             Finish(n, z, queue, z.need_send \/ z.hello_due)
    BY <2>1, Zenon
  <2>3. PICK z \in {DropUnsecureSak(v)} : Finish(n, z, queue, z.need_send \/ z.hello_due)
    BY <2>2, Zenon
  <2> QED BY <2>1, <2>2, <2>3, Zenon
<1>3. /\ Reelected(o, u) /\ FewerPeers(o, u)
      /\ \A m \in DOMAIN u.peers : m \notin ExpiredPeers(o)
  BY <1>1, <1>2, ExpiresPeers, Zenon DEF SessionOK
<1>4. SessionOK(u)
  BY <1>1, <1>3, ReelectedOK, Zenon
<1>5. PICK scis : scis = ExpiredScis(o)
  BY Zenon
<1>6. ChannelsRemoved(u, v, scis)
  <2>1. PICK d : d = u.dev
    BY Zenon
  <2>2. PICK e : e = [d EXCEPT !.rx = {sa \in d.rx : sa.sci \notin scis}]
    BY Zenon
  <2>3. v = [u EXCEPT !.dev = e]
    BY <1>2, <1>5, <2>1, <2>2, Zenon DEF RemoveRxScs
  <2>4. IsDev(d) /\ IsSession(u)
    BY <1>4, <2>1, Zenon DEF SessionOK, Shaped
  <2>5. IsDev(e) /\ e.tx = d.tx /\ e.enc = d.enc /\ e.rx = {sa \in d.rx : sa.sci \notin scis}
    BY <2>2, <2>4, Zenon DEF IsDev
  <2>6. /\ IsSession(v) /\ SameMember(u, v) /\ SameRole(u, v) /\ v.peers = u.peers
        /\ v.lki = u.lki /\ v.lan = u.lan /\ v.ltx = u.ltx /\ v.lrx = u.lrx /\ v.dev = e
    BY <2>3, <2>4, Zenon DEF IsSession, SameMember, SameRole
  <2>7. Shaped(v)
    BY <1>4, <2>1, <2>5, <2>6, Zenon DEF SessionOK, Shaped
  <2> QED BY <2>1, <2>5, <2>6, <2>7, Zenon DEF ChannelsRemoved
<1>7. SessionOK(v)
  BY <1>4, <1>6 DEF ChannelsRemoved, SessionOK, TxOK, DistOK, OnePerAn, SameMember, SameRole
<1>8. SessionOK(z) /\ SakDropped(v, z)
  BY <1>2, <1>7, DropUnsecureSakOK, DropsUnsecureSak, Zenon DEF SessionOK, SakDropped
<1>9. TopStep(o, z)
  BY <1>3, <1>5, <1>6, <1>8, Zenon DEF TopStep
<1> QED BY <1>1, <1>2, <1>9, Zenon

\* run() after the wait.
LEMMA RunBottomStep ==
    ASSUME NEW n \in Node, NEW x, SessionOK(x), NEW q, RunBottom(n, x, q)
    PROVE  \E z, send : BottomStep(x, z) /\ Finish(n, z, q, send)
<1>1. PICK u, v, z, send :
         /\ u = ExpirePeers(n, x) /\ v = DropUnsecureSak(u)
         /\ z = EnsureSak(n, v) /\ Finish(n, z, q, send)
  <2>1. PICK u \in {ExpirePeers(n, x)} :
           \E z \in {EnsureSak(n, DropUnsecureSak(u))} : Finish(n, z, q, z.need_send)
    BY Zenon DEF RunBottom
  <2>2. PICK z \in {EnsureSak(n, DropUnsecureSak(u))} : Finish(n, z, q, z.need_send)
    BY <2>1, Zenon
  <2> QED BY <2>1, <2>2, Zenon
<1>2. Reelected(x, u) /\ FewerPeers(x, u)
  BY <1>1, ExpiresPeers, Zenon DEF SessionOK
<1>3. SessionOK(u)
  BY <1>2, ReelectedOK, Zenon
<1>4. SessionOK(v) /\ SakDropped(u, v)
  BY <1>1, <1>3, DropUnsecureSakOK, DropsUnsecureSak, Zenon DEF SessionOK, SakDropped
<1>5. SessionOK(z) /\ SakEnsured(v, z)
  BY <1>1, <1>4, EnsureSakOK, EnsuresSak, Zenon DEF SessionOK, SakEnsured
<1>6. BottomStep(x, z)
  BY <1>2, <1>3, <1>4, <1>5, Zenon DEF BottomStep
<1> QED BY <1>1, <1>6, Zenon

-----------------------------------------------------------------------------
(* All sessions *)

\* The inductive invariant: every session is in order and every queue is one.
SInv == Shapes /\ \A n \in Node : SessionOK(st[n])

\* The queues q a step leaves before it sends: those of the state, or one frame
\* shorter.
Delivers(q) ==
    /\ q = [m \in Node |-> q[m]] /\ \A m \in Node : IsQueue(q[m])
    /\ \A m \in Node : \A i \in DOMAIN q[m] :
          \E j \in DOMAIN queue[m] : q[m][i] = queue[m][j]

\* A step that receives nothing leaves the queues to itself.
LEMMA DeliversAll ==
    ASSUME SInv
    PROVE  Delivers(queue)
BY Zenon DEF SInv, Shapes, Delivers

\* A step that receives a frame takes it from the front of its queue.
LEMMA DeliversOne ==
    ASSUME SInv, NEW n \in Node, queue[n] # <<>>,
           NEW q, q = [queue EXCEPT ![n] = Tail(@)]
    PROVE  /\ Delivers(q)
           /\ 1 \in DOMAIN queue[n] /\ Head(queue[n]) = queue[n][1]
<1>1. PICK o : o = queue[n]
  BY Zenon
<1>2. IsQueue(o) /\ o # <<>>
  BY <1>1, Zenon DEF SInv, Shapes
<1>3. PICK t : t = Tail(o)
  BY Zenon
<1>4. Received(o, t)
  BY <1>2, <1>3, TailQueue, Zenon
<1>5. /\ q = [m \in Node |-> q[m]] /\ q[n] = t /\ \A m \in Node \ {n} : q[m] = queue[m]
  BY <1>1, <1>3, Zenon DEF SInv, Shapes
<1>6. ASSUME NEW m \in Node
      PROVE  /\ IsQueue(q[m])
             /\ \A i \in DOMAIN q[m] : \E j \in DOMAIN queue[m] : q[m][i] = queue[m][j]
  <2>1. CASE m = n
    <3>1. q[m] = t /\ queue[m] = o
      BY <1>1, <1>5, <2>1, Zenon
    <3>2. Received(queue[m], q[m])
      BY <1>4, <3>1, Zenon
    <3> QED BY <3>2, Zenon DEF Received
  <2>2. CASE m # n
    BY <1>5, <2>2, Zenon DEF SInv, Shapes
  <2> QED BY <2>1, <2>2, Zenon
<1>7. 1 \in DOMAIN queue[n] /\ Head(queue[n]) = queue[n][1]
  BY <1>1, <1>4, Zenon DEF Received
<1> QED BY <1>5, <1>6, <1>7, Zenon DEF Delivers

\* A session in order, sent or not, keeps the invariant.
LEMMA FinishSInv ==
    ASSUME SInv, NEW n \in Node, NEW z, SessionOK(z), NEW q, Delivers(q),
           NEW send, Finish(n, z, q, send)
    PROVE  SInv'
<1>1. Shapes /\ Shaped(z)
  BY Zenon DEF SInv, SessionOK
<1>2. /\ st' = [m \in Node |-> st'[m]] /\ Quiet(z, st'[n])
      /\ \A m \in Node \ {n} : Quiet(st[m], st'[m])
  BY <1>1, FinishSessions, Zenon
<1>3. queue' = [m \in Node |-> queue'[m]] /\ \A m \in Node : IsQueue(queue'[m])
  BY <1>1, FinishQueues, Zenon DEF Delivers
<1>4. ASSUME NEW m \in Node PROVE SessionOK(st'[m])
  <2>1. CASE m = n
    BY <1>2, <2>1, OnlyPeersOK, Zenon DEF Quiet
  <2>2. CASE m # n
    <3>1. Quiet(st[m], st'[m]) /\ SessionOK(st[m])
      BY <1>2, <2>2, Zenon DEF SInv
    <3> QED BY <3>1, OnlyPeersOK, Zenon DEF Quiet
  <2> QED BY <2>1, <2>2, Zenon
<1> QED BY <1>2, <1>3, <1>4, Zenon DEF SInv, Shapes, SessionOK

\* A session receives a frame, hears nothing until its hello timer, or finds its
\* MI in use.
LEMMA RunReceiveStep ==
    ASSUME SInv, NEW n \in Node, RunReceive(n)
    PROVE  \E x, z, q, send :
              /\ x \in HandleFrame(n, st[n], Head(queue[n])) /\ BottomStep(x, z)
              /\ SessionOK(x) /\ Delivers(q) /\ Finish(n, z, q, send)
              /\ 1 \in DOMAIN queue[n] /\ Head(queue[n]) = queue[n][1]
<1>1. PICK q : q = [queue EXCEPT ![n] = Tail(@)]
  BY Zenon
<1>2. queue[n] # <<>>
  BY Zenon DEF RunReceive
<1>3. PICK x \in HandleFrame(n, st[n], Head(queue[n])) : RunBottom(n, x, q)
  BY <1>1, Zenon DEF RunReceive
<1>4. SessionOK(st[n])
  BY Zenon DEF SInv
<1>5. SessionOK(x)
  BY <1>3, <1>4, HandleFrameOK, Zenon
<1>6. \E z, send : BottomStep(x, z) /\ Finish(n, z, q, send)
  BY <1>3, <1>5, RunBottomStep, Zenon
<1>7. Delivers(q) /\ 1 \in DOMAIN queue[n] /\ Head(queue[n]) = queue[n][1]
  BY <1>1, <1>2, DeliversOne, Zenon
<1> QED BY <1>3, <1>5, <1>6, <1>7, Zenon

\* No frame arrives before the next hello.
LEMMA RunTimeoutStep ==
    ASSUME SInv, NEW n \in Node, RunTimeout(n)
    PROVE  \E x, z, send :
              /\ Quiet(st[n], x) /\ SessionOK(x) /\ BottomStep(x, z)
              /\ Finish(n, z, queue, send)
<1>1. PICK o : o = st[n]
  BY Zenon
<1>2. PICK x : x = [o EXCEPT !.hello_due = TRUE]
  BY Zenon
<1>3. RunBottom(n, x, queue)
  BY <1>1, <1>2, Zenon DEF RunTimeout
<1>4. SessionOK(o)
  BY <1>1, Zenon DEF SInv
<1>5. IsSession(x) /\ SameSak(o, x) /\ SameRole(o, x) /\ x.peers = o.peers
  BY <1>2, <1>4, Zenon DEF SessionOK, Shaped, IsSession, SameSak, SameRole
<1>6. Quiet(o, x)
  BY <1>4, <1>5, QuietFlags, Zenon DEF SessionOK
<1>7. SessionOK(x)
  BY <1>4, <1>6, OnlyPeersOK, Zenon DEF Quiet
<1> QED BY <1>1, <1>3, <1>6, <1>7, RunBottomStep, Zenon

\* Another participant uses our member identifier: the session begins again with
\* the netdev it has.
LEMMA RunCollisionStep ==
    ASSUME SInv, NEW n \in Node, RunCollision(n)
    PROVE  \E x, z, send :
              /\ Blank(x) /\ x.mi = <<n, st[n].mi[2] + 1>> /\ x.next_kn = st[n].next_kn
              /\ SessionOK(x) /\ BottomStep(x, z) /\ Finish(n, z, queue, send)
<1>1. PICK o : o = st[n]
  BY Zenon
<1>2. PICK x : x = ResetMi(n, o)
  BY Zenon
<1>3. RunBottom(n, x, queue)
  BY <1>1, <1>2, Zenon DEF RunCollision
<1>4. SessionOK(o)
  BY <1>1, Zenon DEF SInv
<1>5. Blank(x) /\ x.mi = <<n, o.mi[2] + 1>> /\ x.next_kn = o.next_kn /\ x.dev = o.dev
  BY <1>2, <1>4, ResetsMi DEF SessionOK
<1>6. SessionOK(x)
  BY <1>4, <1>5, BlankOK, Zenon DEF SessionOK, TxOK
<1> QED BY <1>1, <1>3, <1>5, <1>6, RunBottomStep, Zenon

\* Timers and lost frames change no session.
LEMMA QuietStep ==
    ASSUME SInv, NEW n \in Node,
           \/ Lose(n) \/ HelloTimer(n) \/ SakTimer(n) \/ \E m \in Mi : PeerTimer(n, m)
    PROVE  /\ st' = [m \in Node |-> st'[m]] /\ \A m \in Node : Quiet(st[m], st'[m])
           /\ \E q : Delivers(q) /\ queue' = q
           /\ pc' = pc /\ tx_ever' = tx_ever /\ rx_ever' = rx_ever
<1>1. \A z : Shaped(z) => Quiet(z, z)
  BY Zenon DEF Quiet, OnlyPeers, SameEntries, SameEntry, SameSak, SameRole
<1>2. PICK o : o = st[n]
  BY Zenon
<1>3. Shaped(o) /\ st = [m \in Node |-> st[m]] /\ \A m \in Node : Quiet(st[m], st[m])
  BY <1>1, <1>2, Zenon DEF SInv, Shapes
<1>4. CASE Lose(n)
  <2>1. PICK q : q = [queue EXCEPT ![n] = Tail(@)]
    BY Zenon
  <2>2. queue[n] # <<>> /\ queue' = q /\ st' = st /\ pc' = pc
        /\ tx_ever' = tx_ever /\ rx_ever' = rx_ever
    BY <1>4, <2>1, Zenon DEF Lose
  <2>3. Delivers(q)
    BY <2>1, <2>2, DeliversOne, Zenon
  <2> QED BY <1>3, <2>2, <2>3, Zenon
<1>5. ASSUME NEW y, Quiet(o, y), st' = [st EXCEPT ![n] = y]
      PROVE  st' = [m \in Node |-> st'[m]] /\ \A m \in Node : Quiet(st[m], st'[m])
  <2>1. st'[n] = y /\ (\A m \in Node \ {n} : st'[m] = st[m]) /\ st' = [m \in Node |-> st'[m]]
    BY <1>3, <1>5, Zenon
  <2> QED BY <1>2, <1>3, <1>5, <2>1, Zenon
<1>6. CASE HelloTimer(n)
  <2>1. PICK y : y = [o EXCEPT !.hello_due = TRUE]
    BY Zenon
  <2>2. /\ st' = [st EXCEPT ![n] = y] /\ queue' = queue /\ pc' = pc
        /\ tx_ever' = tx_ever /\ rx_ever' = rx_ever
    BY <1>2, <1>6, <2>1, Zenon DEF HelloTimer
  <2>3. IsSession(y) /\ SameSak(o, y) /\ SameRole(o, y) /\ y.peers = o.peers
    BY <1>3, <2>1, Zenon DEF Shaped, IsSession, SameSak, SameRole
  <2>4. Quiet(o, y)
    BY <1>3, <2>3, QuietFlags, Zenon
  <2> QED BY <1>5, <2>2, <2>4, DeliversAll, Zenon
<1>7. CASE SakTimer(n)
  <2>1. PICK y : y = [o EXCEPT !.sak_aged = TRUE]
    BY Zenon
  <2>2. /\ st' = [st EXCEPT ![n] = y] /\ queue' = queue /\ pc' = pc
        /\ tx_ever' = tx_ever /\ rx_ever' = rx_ever
    BY <1>2, <1>7, <2>1, Zenon DEF SakTimer
  <2>3. IsSession(y) /\ SameSak(o, y) /\ SameRole(o, y) /\ y.peers = o.peers
    BY <1>3, <2>1, Zenon DEF Shaped, IsSession, SameSak, SameRole
  <2>4. Quiet(o, y)
    BY <1>3, <2>3, QuietFlags, Zenon
  <2> QED BY <1>5, <2>2, <2>4, DeliversAll, Zenon
<1>8. CASE \E m \in Mi : PeerTimer(n, m)
  <2>1. PICK m \in Mi : PeerTimer(n, m)
    BY <1>8, Zenon
  <2>2. PICK y : y = [o EXCEPT !.peers[m].stale = TRUE]
    BY Zenon
  <2>3. /\ st' = [st EXCEPT ![n] = y] /\ queue' = queue /\ pc' = pc
        /\ tx_ever' = tx_ever /\ rx_ever' = rx_ever /\ m \in DOMAIN o.peers
    BY <1>2, <2>1, <2>2, Zenon DEF PeerTimer
  <2>4. Quiet(o, y)
    BY <1>3, <2>2, <2>3, PeerSilent, Zenon DEF Quiet
  <2> QED BY <1>5, <2>3, <2>4, DeliversAll, Zenon
<1> QED BY <1>4, <1>6, <1>7, <1>8, Zenon

\* A session that is rebuilt begins with a netdev of its own and no frames.
LEMMA RestartStep ==
    ASSUME SInv, NEW n \in Node, Restart(n)
    PROVE  /\ st' = [m \in Node |-> st'[m]]
           /\ Blank(st'[n]) /\ st'[n].mi = <<n, st[n].mi[2] + 1>> /\ st'[n].next_kn = 1
           /\ st'[n].dev.tx = {} /\ st'[n].dev.rx = {}
           /\ \A m \in Node \ {n} : st'[m] = st[m]
           /\ Delivers(queue') /\ queue'[n] = <<>>
<1>1. PICK o : o = st[n]
  BY Zenon
<1>2. PICK y : y = NewSession(n, <<n, o.mi[2] + 1>>, o.encrypt)
  BY Zenon
<1>3. st' = [st EXCEPT ![n] = y] /\ queue' = [queue EXCEPT ![n] = <<>>]
  BY <1>1, <1>2, Zenon DEF Restart
<1>4. Blank(y) /\ y.mi = <<n, o.mi[2] + 1>> /\ y.next_kn = 1 /\ y.dev.tx = {} /\ y.dev.rx = {}
  BY <1>2, NewSessionBlank
<1>5. IsQueue(<<>>)
  BY DEF IsQueue
<1>6. Delivers(queue') /\ queue'[n] = <<>>
  BY <1>3, <1>5 DEF SInv, Shapes, Delivers
<1> QED BY <1>1, <1>3, <1>4, <1>6, Zenon DEF SInv, Shapes

\* All sessions begin without peers, SAK and SAs.
LEMMA SInvInit ==
    ASSUME Init
    PROVE  /\ SInv /\ \A n \in Node : Blank(st[n]) /\ st[n].mi = <<n, 1>> /\ st[n].next_kn = 1
                                      /\ st[n].dev.tx = {} /\ st[n].dev.rx = {}
<1>1. PICK enc \in Encrypting : st = [n \in Node |-> NewSession(n, <<n, 1>>, n \in enc)]
  BY Zenon DEF Init
<1>2. ASSUME NEW n \in Node
      PROVE  /\ Blank(st[n]) /\ st[n].mi = <<n, 1>> /\ st[n].next_kn = 1
             /\ st[n].dev.tx = {} /\ st[n].dev.rx = {} /\ SessionOK(st[n])
  <2>1. PICK y : y = NewSession(n, <<n, 1>>, n \in enc)
    BY Zenon
  <2>2. st[n] = y
    BY <1>1, <2>1, Zenon
  <2>3. Blank(y) /\ y.mi = <<n, 1>> /\ y.next_kn = 1 /\ y.dev.tx = {} /\ y.dev.rx = {}
    BY <2>1, NewSessionBlank
  <2>4. SessionOK(y)
    BY <2>3, BlankOK, Zenon DEF OnePerAn
  <2> QED BY <2>2, <2>3, <2>4, Zenon
<1>3. IsQueue(<<>>)
  BY DEF IsQueue
<1>4. Shapes
  BY <1>1, <1>2, <1>3, Zenon DEF Init, Shapes, SessionOK
<1> QED BY <1>2, <1>4, Zenon DEF SInv

\* Every step keeps every session in order.
LEMMA SInvNext ==
    ASSUME SInv, [Next]_vars
    PROVE  SInv'
<1>1. CASE vars' = vars
  BY <1>1, Zenon DEF vars, SInv, Shapes
<1>2. ASSUME NEW n \in Node, RunTop(n) PROVE SInv'
  <2>1. PICK z, send : TopStep(st[n], z) /\ Finish(n, z, queue, send)
    BY <1>2, RunTopStep, Zenon DEF SInv
  <2> QED BY <2>1, FinishSInv, DeliversAll, Zenon DEF TopStep
<1>3. ASSUME NEW n \in Node, RunReceive(n) PROVE SInv'
  <2>1. PICK x, z, q, send : BottomStep(x, z) /\ Delivers(q) /\ Finish(n, z, q, send)
    BY <1>3, RunReceiveStep, Zenon
  <2> QED BY <2>1, FinishSInv, Zenon DEF BottomStep
<1>4. ASSUME NEW n \in Node, RunTimeout(n) PROVE SInv'
  <2>1. PICK x, z, send : BottomStep(x, z) /\ Finish(n, z, queue, send)
    BY <1>4, RunTimeoutStep, Zenon
  <2> QED BY <2>1, FinishSInv, DeliversAll, Zenon DEF BottomStep
<1>5. ASSUME NEW n \in Node, RunCollision(n) PROVE SInv'
  <2>1. PICK x, z, send : BottomStep(x, z) /\ Finish(n, z, queue, send)
    BY <1>5, RunCollisionStep, Zenon
  <2> QED BY <2>1, FinishSInv, DeliversAll, Zenon DEF BottomStep
<1>6. ASSUME NEW n \in Node, Restart(n) PROVE SInv'
  <2>1. /\ st' = [m \in Node |-> st'[m]] /\ Blank(st'[n])
        /\ st'[n].dev.tx = {} /\ st'[n].dev.rx = {}
        /\ \A m \in Node \ {n} : st'[m] = st[m]
        /\ Delivers(queue')
    BY <1>6, RestartStep, Zenon
  <2>2. SessionOK(st'[n])
    BY <2>1, BlankOK, Zenon DEF OnePerAn
  <2>3. \A m \in Node : SessionOK(st'[m])
    BY <2>1, <2>2, Zenon DEF SInv
  <2> QED BY <2>1, <2>3, Zenon DEF SInv, Shapes, SessionOK, Delivers
<1>7. ASSUME NEW n \in Node,
             \/ Lose(n) \/ HelloTimer(n) \/ SakTimer(n) \/ \E m \in Mi : PeerTimer(n, m)
      PROVE  SInv'
  <2>1. /\ st' = [m \in Node |-> st'[m]] /\ \A m \in Node : Quiet(st[m], st'[m])
        /\ \E q : Delivers(q) /\ queue' = q
    BY <1>7, QuietStep, Zenon
  <2>2. ASSUME NEW m \in Node PROVE SessionOK(st'[m])
    <3>1. Quiet(st[m], st'[m]) /\ SessionOK(st[m])
      BY <2>1, Zenon DEF SInv
    <3> QED BY <3>1, OnlyPeersOK, Zenon DEF Quiet
  <2> QED BY <2>1, <2>2, Zenon DEF SInv, Shapes, SessionOK, Delivers
<1>8. CASE Next
  BY <1>2, <1>3, <1>4, <1>5, <1>6, <1>7, <1>8, Zenon DEF Next
<1> QED BY <1>1, <1>8, Zenon

\* Whatever frames are lost or delayed, and whatever sessions are reset, every
\* session of mka.rs is in order after every step.
THEOREM SInvInvariant == Spec => []SInv
<1>1. Init => SInv
  BY SInvInit, Zenon
<1>2. SInv /\ [Next]_vars => SInv'
  BY SInvNext, Zenon
<1> QED BY <1>1, <1>2, PTL DEF Spec

\* TxMatchesKernel: a session that says it transmits (latest_tx) has the netdev
\* encode with the TX SA of its latest SAK, for any number of participants, any
\* losses, silences and resets.
THEOREM TxAlwaysMatchesKernel == Spec => []TxMatchesKernel
<1>1. SInv => TxMatchesKernel
  BY DEF SInv, SessionOK, TxOK, TxMatchesKernel, TxKeys, OnePerAn
<1> QED BY <1>1, SInvInvariant, PTL

\* DistributesLatest: what a key server distributes (dist_sak) is its latest
\* SAK, with its association number, and it stops once it transmits.
THEOREM OnlyLatestDistributed == Spec => []DistributesLatest
<1>1. SInv => DistributesLatest
  BY Zenon DEF SInv, SessionOK, DistOK, DistributesLatest
<1> QED BY <1>1, SInvInvariant, PTL

-----------------------------------------------------------------------------
(* The RX side of one session, until the first reset *)

\* The member identifiers while no session was reset, one of each node; the RX
\* SA of peer entry r for the latest SAK.
FirstMi == Node \X {1}
Sa(x, r) == [sci |-> r.sci, an |-> x.lan, ki |-> x.lki]
\* A live peer has told its SCI, its own node, and only live peers are received.
PeerClean(m, r) ==
    /\ m \in FirstMi
    /\ r.sci \in {NoSci, m[1]}
    /\ r.live => r.sci # NoSci
    /\ r.rx_installed => r.live
PeersClean(x) == \A m \in DOMAIN x.peers : PeerClean(m, x.peers[m])
\* Without a SAK there is no SA, and a peer counted as received has its RX SA.
SasClean(x) ==
    /\ x.lki = NoKey => x.dev.tx = {} /\ x.dev.rx = {}
    /\ x.lki # NoKey =>
          \A m \in DOMAIN x.peers : x.peers[m].rx_installed => Sa(x, x.peers[m]) \in x.dev.rx
Clean(x) == PeersClean(x) /\ SasClean(x)
\* A frame from a session that was never reset.
CleanFrame(p) == p.mi \in FirstMi /\ p.sci = p.mi[1] /\ p.live \subseteq FirstMi

\* Ages and timers change nothing of this.
LEMMA QuietClean ==
    ASSUME NEW x, Clean(x), NEW y, Quiet(x, y)
    PROVE  Clean(y) /\ y.mi = x.mi /\ y.lki = x.lki /\ HasLivePeer(y) = HasLivePeer(x)
<1>1. /\ y.mi = x.mi /\ y.lki = x.lki /\ y.lan = x.lan /\ y.dev = x.dev
      /\ DOMAIN y.peers = DOMAIN x.peers
      /\ \A m \in DOMAIN x.peers : SameEntry(x.peers[m], y.peers[m])
  BY Zenon DEF Quiet, OnlyPeers, SameEntries, SameSak
<1>2. PeersClean(y)
  BY <1>1, ZenonT(40) DEF Clean, PeersClean, PeerClean, SameEntry
<1>3. SasClean(y)
  BY <1>1, Zenon DEF Clean, SasClean, SameEntry, Sa
<1>4. LivePeers(y) = LivePeers(x)
  BY <1>1, Zenon DEF LivePeers, SameEntry
<1> QED BY <1>1, <1>2, <1>3, <1>4, Zenon DEF Clean, HasLivePeer

\* A frame that is received gives its sender an SCI.
LEMMA UpdatedClean ==
    ASSUME NEW x, Clean(x), NEW p, CleanFrame(p), NEW y, PeerUpdated(x, y, p)
    PROVE  Clean(y) /\ y.mi = x.mi /\ y.peers[p.mi].sci # NoSci
<1>1. /\ y.mi = x.mi /\ y.lki = x.lki /\ y.lan = x.lan /\ y.dev = x.dev
      /\ DOMAIN y.peers = DOMAIN x.peers \union {p.mi}
      /\ \A m \in DOMAIN x.peers \ {p.mi} : y.peers[m] = x.peers[m]
      /\ y.peers[p.mi].sci = p.sci
      /\ \/ p.mi \in DOMAIN x.peers /\ SameFlags(x.peers[p.mi], y.peers[p.mi])
         \/ p.mi \notin DOMAIN x.peers /\ IsNewPeer(y.peers[p.mi])
  BY Zenon DEF PeerUpdated, OnlyPeers, SameSak
<1>2. p.mi \in FirstMi /\ p.sci = p.mi[1] /\ p.sci # NoSci
  BY MkaAssumption, Zenon DEF CleanFrame, FirstMi, NoSci
<1>3. \A m \in DOMAIN x.peers : PeerClean(m, x.peers[m])
  BY Zenon DEF Clean, PeersClean
<1>4. PeerClean(p.mi, y.peers[p.mi])
  BY <1>1, <1>2, <1>3, Zenon DEF PeerClean, SameFlags, IsNewPeer
<1>5. PeersClean(y)
  BY <1>1, <1>3, <1>4, Zenon DEF PeersClean
<1>6. ASSUME NEW m \in DOMAIN y.peers, y.peers[m].rx_installed
      PROVE  m \in DOMAIN x.peers /\ x.peers[m].rx_installed /\ y.peers[m].sci = x.peers[m].sci
  <2>1. CASE m = p.mi
    BY <1>1, <1>2, <1>3, <1>6, <2>1, Zenon DEF PeerClean, SameFlags, IsNewPeer
  <2>2. CASE m # p.mi
    BY <1>1, <1>6, <2>2, Zenon
  <2> QED BY <2>1, <2>2, Zenon
<1>7. SasClean(y)
  BY <1>1, <1>6, Zenon DEF Clean, SasClean, Sa
<1> QED BY <1>1, <1>2, <1>5, <1>7, Zenon DEF Clean

\* A sender becomes live only once its frame gave its SCI.
LEMMA PromotedClean ==
    ASSUME NEW x, Clean(x), NEW p, x.peers[p.mi].sci # NoSci,
           NEW y, SenderPromoted(x, y, p)
    PROVE  Clean(y) /\ y.mi = x.mi
<1>1. /\ y.mi = x.mi /\ y.lki = x.lki /\ y.lan = x.lan /\ y.dev = x.dev
      /\ DOMAIN y.peers = DOMAIN x.peers
      /\ \A m \in DOMAIN x.peers : /\ y.peers[m].sci = x.peers[m].sci
                                   /\ y.peers[m].rx_installed = x.peers[m].rx_installed
      /\ \A m \in DOMAIN x.peers \ {p.mi} : y.peers[m] = x.peers[m]
      /\ y.peers[p.mi].live = x.peers[p.mi].live \/ y.peers[p.mi].live = TRUE
  BY Zenon DEF SenderPromoted, OnlyPeers, SameSak
<1>2. \A m \in DOMAIN x.peers : PeerClean(m, x.peers[m])
  BY Zenon DEF Clean, PeersClean
<1>3. ASSUME NEW m \in DOMAIN x.peers PROVE PeerClean(m, y.peers[m])
  <2>1. CASE m = p.mi
    BY <1>1, <1>2, <2>1, Zenon DEF PeerClean
  <2>2. CASE m # p.mi
    BY <1>1, <1>2, <2>2, Zenon
  <2> QED BY <2>1, <2>2, Zenon
<1>4. SasClean(y)
  BY <1>1, Zenon DEF Clean, SasClean, Sa
<1> QED BY <1>1, <1>3, <1>4, Zenon DEF Clean, PeersClean

\* Peers learned from the list of another are not live.
LEMMA LearnedClean ==
    ASSUME NEW x, Clean(x), NEW p, CleanFrame(p), NEW y, PeersLearned(x, y, p)
    PROVE  Clean(y) /\ y.mi = x.mi
<1>1. /\ y.mi = x.mi /\ y.lki = x.lki /\ y.lan = x.lan /\ y.dev = x.dev
      /\ DOMAIN y.peers \subseteq DOMAIN x.peers \union p.live
      /\ \A m \in DOMAIN x.peers : y.peers[m] = x.peers[m]
      /\ \A m \in DOMAIN y.peers \ DOMAIN x.peers :
            IsNewPeer(y.peers[m]) /\ y.peers[m].sci = NoSci
  BY Zenon DEF PeersLearned, OnlyPeers, SameSak
<1>2. PeersClean(y)
  BY <1>1, ZenonT(40) DEF Clean, PeersClean, PeerClean, CleanFrame, IsNewPeer
<1>3. SasClean(y)
  BY <1>1, Zenon DEF Clean, SasClean, IsNewPeer, Sa
<1> QED BY <1>1, <1>2, <1>3, Zenon DEF Clean

\* Fewer peers and a new election leave SAK and SAs as they were.
LEMMA ReelectedClean ==
    ASSUME NEW x, Clean(x), NEW y, Reelected(x, y), FewerPeers(x, y)
    PROVE  Clean(y) /\ y.mi = x.mi
<1>1. /\ y.mi = x.mi /\ y.lki = x.lki /\ y.lan = x.lan /\ y.dev = x.dev
      /\ DOMAIN y.peers \subseteq DOMAIN x.peers
      /\ \A m \in DOMAIN y.peers : y.peers[m] = x.peers[m]
  BY Zenon DEF Reelected, SameSak, FewerPeers
<1>2. PeersClean(y)
  BY <1>1, Zenon DEF Clean, PeersClean
<1>3. SasClean(y)
  BY <1>1, Zenon DEF Clean, SasClean, Sa
<1> QED BY <1>1, <1>2, <1>3, Zenon DEF Clean

\* The peers of y are those of x, but for the flags rx_ready and rx_installed.
SamePeers(x, y) ==
    /\ DOMAIN y.peers = DOMAIN x.peers
    /\ \A m \in DOMAIN x.peers : SamePeer(x.peers[m], y.peers[m])

\* A change of the flags of the peers is clean if whoever counts as received is
\* live and has an RX SA of the latest SAK.
LEMMA SamePeersClean ==
    ASSUME NEW x, Clean(x), NEW y, SamePeers(x, y), y.lki # NoKey,
           \A m \in DOMAIN x.peers : y.peers[m].rx_installed =>
               x.peers[m].live /\ Sa(y, y.peers[m]) \in y.dev.rx
    PROVE  Clean(y)
<1>1. PeersClean(y)
  BY Zenon DEF Clean, PeersClean, PeerClean, SamePeers, SamePeer
<1>2. SasClean(y)
  BY Zenon DEF SasClean, SamePeers
<1> QED BY <1>1, <1>2, Zenon DEF Clean

\* Handling SAK Use changes no RX SA and no flag rx_installed.
LEMMA UsedClean ==
    ASSUME NEW x, Clean(x), SessionOK(x), NEW p, NEW y,
           CountsReceivers(x, y, p) \/ Follows(x, y, p)
    PROVE  Clean(y) /\ y.mi = x.mi
<1>1. /\ x.lki # NoKey /\ y.mi = x.mi /\ y.lki = x.lki /\ y.lan = x.lan /\ SamePeers(x, y)
      /\ \A m \in DOMAIN x.peers : y.peers[m].rx_installed = x.peers[m].rx_installed
      /\ y.dev = x.dev \/ y.dev = SetTxSaActive(x.dev, x.lan)
  <2>1. CASE CountsReceivers(x, y, p)
    BY <2>1, Zenon DEF CountsReceivers, SakUseMatches, SameMember, SamePeers
  <2>2. CASE Follows(x, y, p)
    BY <2>2, Zenon DEF Follows, Transmits, SakUseMatches, SameMember, SamePeers, SamePeer
  <2> QED BY <2>1, <2>2, Zenon
<1>2. y.dev.rx = x.dev.rx
  BY <1>1, TxSaActivated DEF SessionOK, Shaped, TxSas, TxOK
<1>3. \A m \in DOMAIN x.peers : y.peers[m].sci = x.peers[m].sci
  BY <1>1, Zenon DEF SamePeers, SamePeer
<1>4. \A m \in DOMAIN x.peers : x.peers[m].rx_installed =>
          x.peers[m].live /\ Sa(x, x.peers[m]) \in x.dev.rx
  BY <1>1, Zenon DEF Clean, PeersClean, PeerClean, SasClean
<1>5. \A m \in DOMAIN x.peers : Sa(y, y.peers[m]) = Sa(x, x.peers[m])
  BY <1>1, <1>3, Zenon DEF Sa
<1> QED BY <1>1, <1>2, <1>4, <1>5, SamePeersClean, Zenon

\* SAs of the latest SAK for all SCIs of live peers.
LEMMA TookClean ==
    ASSUME NEW x, Clean(x), SessionOK(x), NEW p, NEW y, TakesSak(x, y, p)
    PROVE  Clean(y) /\ y.mi = x.mi
<1>1. PICK scis : scis = LivePeerScis(x) \union {x.peers[p.mi].sci}
  BY Zenon
<1>2. /\ y.mi = x.mi /\ SamePeers(x, y)
      /\ y.dev = InstallTxSa(InstallRxSas(x.dev, scis, y.lan, y.lki), y.lan, y.lki)
      /\ \A m \in DOMAIN x.peers :
            y.peers[m].rx_installed => x.peers[m].rx_installed \/ m \in LivePeers(x)
  BY <1>1, Zenon DEF TakesSak, SameMember, SamePeers
<1>3. y.lki # NoKey
  BY DEF TakesSak, NoKey
<1>4. PICK d : d = InstallRxSas(x.dev, scis, y.lan, y.lki)
  BY Zenon
<1>5. /\ IsDev(d) /\ d.tx = x.dev.tx
      /\ \A sci \in scis : [sci |-> sci, an |-> y.lan, ki |-> y.lki] \in d.rx
  BY <1>4, RxSasInstalled DEF SessionOK, Shaped
<1>6. y.dev.rx = d.rx
  BY <1>2, <1>4, <1>5, TxSaInstalled, SMTT(30) DEF SessionOK, Shaped, TxSas
<1>7. ASSUME NEW m \in DOMAIN x.peers, y.peers[m].rx_installed
      PROVE  x.peers[m].live /\ Sa(y, y.peers[m]) \in y.dev.rx
  <2>1. x.peers[m].live /\ x.peers[m].sci # NoSci
    BY <1>2, <1>7, Zenon DEF Clean, PeersClean, PeerClean, LivePeers
  <2>2. x.peers[m].sci \in scis /\ y.peers[m].sci = x.peers[m].sci
    BY <1>1, <1>2, <2>1, Zenon DEF LivePeerScis, LivePeers, SamePeers, SamePeer
  <2> QED BY <1>5, <1>6, <2>1, <2>2, Zenon DEF Sa
<1> QED BY <1>2, <1>3, <1>7, SamePeersClean, Zenon

\* ensure_sak installs RX SAs of the new SAK for the peers it marks.
LEMMA MadeClean ==
    ASSUME NEW x, Clean(x), SessionOK(x), NEW y, MakesSak(x, y)
    PROVE  Clean(y) /\ y.mi = x.mi
<1>1. PICK scis : scis = LivePeerScis(x)
  BY Zenon
<1>2. /\ y.mi = x.mi /\ SamePeers(x, y)
      /\ y.dev = InstallRxSas(InstallTxSa(x.dev, y.lan, y.lki), scis, y.lan, y.lki)
      /\ \A m \in DOMAIN x.peers :
            y.peers[m].rx_installed => m \in LivePeers(x) /\ x.peers[m].sci \in scis
  BY <1>1, Zenon DEF MakesSak, SamePeers
<1>3. y.lki # NoKey
  BY DEF MakesSak, NoKey
<1>4. PICK d : d = InstallTxSa(x.dev, y.lan, y.lki)
  BY Zenon
<1>5. IsDev(d)
  BY <1>4, TxSaInstalled, Zenon DEF SessionOK, Shaped, TxSas
<1>6. \A sci \in scis : [sci |-> sci, an |-> y.lan, ki |-> y.lki] \in y.dev.rx
  BY <1>2, <1>4, <1>5, RxSasInstalled
<1>7. \A m \in DOMAIN x.peers : y.peers[m].rx_installed =>
         x.peers[m].live /\ Sa(y, y.peers[m]) \in y.dev.rx
  BY <1>2, <1>6, Zenon DEF Sa, LivePeers, SamePeers, SamePeer
<1> QED BY <1>2, <1>3, <1>7, SamePeersClean, Zenon

\* Two peers with one SCI are the same member.
LEMMA OneMemberPerSci ==
    ASSUME NEW x, Clean(x), NEW l \in DOMAIN x.peers, NEW m \in DOMAIN x.peers,
           x.peers[l].sci = x.peers[m].sci, x.peers[m].sci # NoSci
    PROVE  l = m
<1>1. /\ l \in FirstMi /\ m \in FirstMi /\ l[1] = m[1]
  BY Zenon DEF Clean, PeersClean, PeerClean
<1> QED BY <1>1 DEF FirstMi

\* install_rx_sas_for_live_peers installs RX SAs for the peers it marks: one SCI
\* is one member, so that no peer that is not live is marked with a live one.
LEMMA ReceivedClean ==
    ASSUME NEW x, Clean(x), SessionOK(x), NEW y, Receives(x, y, PendingRxScis(x))
    PROVE  Clean(y) /\ y.mi = x.mi
<1>1. PICK scis : scis = PendingRxScis(x)
  BY Zenon
<1>2. /\ y.mi = x.mi /\ SamePeers(x, y) /\ x.lki # NoKey /\ y.lki = x.lki /\ y.lan = x.lan
      /\ y.dev = InstallRxSas(x.dev, scis, x.lan, x.lki)
      /\ \A m \in DOMAIN x.peers : y.peers[m].rx_installed =>
            x.peers[m].rx_installed \/ x.peers[m].sci \in scis
  BY <1>1, Zenon DEF Receives, SameMember, SamePeers
<1>3. /\ \A sci \in scis : [sci |-> sci, an |-> x.lan, ki |-> x.lki] \in y.dev.rx
      /\ \A sa \in x.dev.rx : ~(sa.sci \in scis) => sa \in y.dev.rx
  BY <1>2, RxSasInstalled, SMTT(30) DEF SessionOK, Shaped
<1>4. ASSUME NEW m \in DOMAIN x.peers, y.peers[m].rx_installed
      PROVE  x.peers[m].live /\ Sa(y, y.peers[m]) \in y.dev.rx
  <2>1. Sa(y, y.peers[m]) = Sa(x, x.peers[m]) /\ Sa(x, x.peers[m]).sci = x.peers[m].sci
    BY <1>2, Zenon DEF Sa, SamePeers, SamePeer
  <2>2. CASE x.peers[m].sci \in scis
    <3>1. PICK l \in DOMAIN x.peers : /\ x.peers[l].live /\ x.peers[l].sci = x.peers[m].sci
                                      /\ x.peers[m].sci # NoSci
      BY <1>1, <2>2, Zenon DEF PendingRxScis, LivePeers
    <3>2. l = m
      BY <3>1, OneMemberPerSci, Zenon
    <3> QED BY <1>3, <2>1, <2>2, <3>1, <3>2, Zenon DEF Sa
  <2>3. CASE x.peers[m].sci \notin scis
    <3>1. x.peers[m].rx_installed
      BY <1>2, <1>4, <2>3, Zenon
    <3>2. x.peers[m].live /\ Sa(x, x.peers[m]) \in x.dev.rx
      BY <1>2, <3>1, Zenon DEF Clean, PeersClean, PeerClean, SasClean
    <3> QED BY <1>3, <2>1, <2>3, <3>2, Zenon
  <2> QED BY <2>2, <2>3, Zenon
<1> QED BY <1>2, <1>4, SamePeersClean, Zenon

\* drop_unsecure_sak leaves no SA behind.
LEMMA DroppedClean ==
    ASSUME NEW x, Clean(x), NEW y, SakDropped(x, y)
    PROVE  Clean(y) /\ y.mi = x.mi /\ (y.lki = NoKey \/ HasLivePeer(y))
<1>1. CASE y = x /\ (x.lki = NoKey \/ HasLivePeer(x))
  BY <1>1, Zenon
<1>2. CASE DropsSak(x, y)
  <2>1. y.lki = NoKey /\ y.dev.tx = {} /\ y.dev.rx = {} /\ y.mi = x.mi /\ SamePeers(x, y)
    BY <1>2, Zenon DEF DropsSak, SameMember, SamePeers
  <2>2. \A m \in DOMAIN x.peers : y.peers[m].rx_installed = x.peers[m].rx_installed
    BY <1>2, Zenon DEF DropsSak
  <2>3. PeersClean(y)
    BY <2>1, <2>2, ZenonT(40) DEF Clean, PeersClean, PeerClean, SamePeers, SamePeer
  <2> QED BY <2>1, <2>3, Zenon DEF Clean, SasClean
<1> QED BY <1>1, <1>2, Zenon DEF SakDropped

\* run() removes the RX channels of expired peers only, and no live peer shares
\* its SCI with one.
LEMMA ChannelsRemovedClean ==
    ASSUME NEW x, Clean(x), NEW u, Reelected(x, u), FewerPeers(x, u),
           \A m \in DOMAIN u.peers : m \notin ExpiredPeers(x),
           NEW v, ChannelsRemoved(u, v, ExpiredScis(x))
    PROVE  Clean(v) /\ v.mi = x.mi
<1>1. Clean(u) /\ u.mi = x.mi
  BY ReelectedClean, Zenon
<1>2. PICK scis : scis = ExpiredScis(x)
  BY Zenon
<1>3. /\ v.mi = u.mi /\ v.peers = u.peers /\ v.lki = u.lki /\ v.lan = u.lan
      /\ v.dev.tx = u.dev.tx /\ v.dev.rx = {sa \in u.dev.rx : sa.sci \notin scis}
  BY <1>2, Zenon DEF ChannelsRemoved, SameMember
<1>4. PeersClean(v)
  BY <1>1, <1>3, Zenon DEF Clean, PeersClean
<1>5. ASSUME v.lki # NoKey, NEW m \in DOMAIN v.peers, v.peers[m].rx_installed
      PROVE  Sa(v, v.peers[m]) \in v.dev.rx
  <2>1. Sa(v, v.peers[m]) = Sa(u, u.peers[m]) /\ Sa(u, u.peers[m]).sci = u.peers[m].sci
    BY <1>3, Zenon DEF Sa
  <2>2. Sa(u, u.peers[m]) \in u.dev.rx /\ u.peers[m].sci # NoSci
    BY <1>1, <1>3, <1>5, Zenon DEF Clean, SasClean, PeersClean, PeerClean
  <2>3. ASSUME u.peers[m].sci \in scis PROVE FALSE
    <3>1. PICK l \in ExpiredPeers(x) : x.peers[l].sci = u.peers[m].sci
      BY <1>2, <2>3, Zenon DEF ExpiredScis
    <3>2. m \in DOMAIN x.peers /\ u.peers[m] = x.peers[m] /\ m \notin ExpiredPeers(x)
      BY <1>3, <1>5, Zenon DEF FewerPeers
    <3>3. l \in DOMAIN x.peers
      BY Zenon DEF ExpiredPeers
    <3>4. l = m
      BY <2>2, <3>1, <3>2, <3>3, OneMemberPerSci, Zenon
    <3> QED BY <3>1, <3>2, <3>4, Zenon
  <2> QED BY <1>3, <2>1, <2>2, <2>3, Zenon
<1>6. SasClean(v)
  BY <1>1, <1>3, <1>5, Zenon DEF Clean, SasClean
<1> QED BY <1>1, <1>3, <1>4, <1>6, Zenon DEF Clean

-----------------------------------------------------------------------------
(* The steps of a session, until the first reset *)

\* handle_frame, through all its stages.
LEMMA HandleFrameClean ==
    ASSUME NEW n, NEW x, SessionOK(x), Clean(x), NEW p, CleanFrame(p),
           NEW y \in HandleFrame(n, x, p)
    PROVE  Clean(y) /\ y.mi = x.mi
<1>1. y = x \/ \E e : Heard(x, p, e) /\ Settled(e, p, y)
  BY HandleFrameOK, Zenon
<1>2. ASSUME NEW e, Heard(x, p, e) PROVE Clean(e) /\ e.mi = x.mi /\ SessionOK(e)
  <2>1. PICK a, b, c, d :
          /\ SessionOK(d) /\ SessionOK(e)
          /\ PeerUpdated(x, a, p) /\ SenderPromoted(a, b, p) /\ PeersLearned(b, c, p)
          /\ Reelected(c, d) /\ d.peers = c.peers
          /\ e = d \/ CountsReceivers(d, e, p) \/ Follows(d, e, p)
    BY <1>2, Zenon DEF Heard
  <2>2. Clean(a) /\ a.mi = x.mi /\ a.peers[p.mi].sci # NoSci
    BY <2>1, UpdatedClean, Zenon
  <2>3. Clean(b) /\ b.mi = x.mi
    BY <2>1, <2>2, PromotedClean, Zenon
  <2>4. Clean(c) /\ c.mi = x.mi
    BY <2>1, <2>3, LearnedClean, Zenon
  <2>5. FewerPeers(c, d)
    BY <2>1, Zenon DEF FewerPeers
  <2>6. Clean(d) /\ d.mi = x.mi
    BY <2>1, <2>4, <2>5, ReelectedClean, Zenon
  <2> QED BY <2>1, <2>6, UsedClean, Zenon
<1>3. ASSUME NEW e, Clean(e), SessionOK(e), Settled(e, p, y) PROVE Clean(y) /\ y.mi = e.mi
  <2>1. CASE y = e
    BY <1>3, <2>1, Zenon
  <2>2. ASSUME NEW f, NEW g, SessionOK(f), SessionOK(g),
               f = e \/ TakesSak(e, f, p), SakEnsured(f, g),
               y = g \/ Receives(g, y, PendingRxScis(g))
        PROVE  Clean(y) /\ y.mi = e.mi
    <3>1. Clean(f) /\ f.mi = e.mi
      BY <1>3, <2>2, TookClean, Zenon
    <3>2. Clean(g) /\ g.mi = e.mi
      BY <2>2, <3>1, MadeClean, Zenon DEF SakEnsured
    <3> QED BY <2>2, <3>2, ReceivedClean, Zenon
  <2> QED BY <1>3, <2>1, <2>2, Zenon DEF Settled
<1> QED BY <1>1, <1>2, <1>3

\* run() up to the wait: a session that waits without live peers has no SAK.
LEMMA TopClean ==
    ASSUME NEW x, Clean(x), NEW z, TopStep(x, z)
    PROVE  Clean(z) /\ z.mi = x.mi /\ (z.lki = NoKey \/ HasLivePeer(z))
<1>1. PICK u, v : /\ Reelected(x, u) /\ FewerPeers(x, u)
                  /\ \A m \in DOMAIN u.peers : m \notin ExpiredPeers(x)
                  /\ ChannelsRemoved(u, v, ExpiredScis(x)) /\ SakDropped(v, z)
  BY Zenon DEF TopStep
<1>2. Clean(v) /\ v.mi = x.mi
  BY <1>1, ChannelsRemovedClean, Zenon
<1> QED BY <1>1, <1>2, DroppedClean, Zenon

\* run() after the wait.
LEMMA BottomClean ==
    ASSUME NEW x, Clean(x), NEW z, BottomStep(x, z)
    PROVE  Clean(z) /\ z.mi = x.mi
<1>1. PICK u, v : /\ SessionOK(u) /\ SessionOK(v)
                  /\ Reelected(x, u) /\ FewerPeers(x, u)
                  /\ SakDropped(u, v) /\ SakEnsured(v, z)
  BY Zenon DEF BottomStep
<1>2. Clean(u) /\ u.mi = x.mi
  BY <1>1, ReelectedClean, Zenon
<1>3. Clean(v) /\ v.mi = x.mi
  BY <1>1, <1>2, DroppedClean, Zenon
<1> QED BY <1>1, <1>3, MadeClean, Zenon DEF SakEnsured

-----------------------------------------------------------------------------
(* All sessions, as long as none was reset *)

\* The shape of the budget and of the program counters.
IsSpent ==
    /\ spent = [loss |-> spent.loss, silence |-> spent.silence, reset |-> spent.reset]
    /\ spent.reset \in Nat
PcShape == pc = [n \in Node |-> pc[n]]
\* The sessions, the frames, and that a session waiting without live peers has
\* no SAK.
SessionsClean == \A n \in Node : st[n].mi = <<n, 1>> /\ Clean(st[n])
FramesClean == \A n \in Node : \A i \in DOMAIN queue[n] : CleanFrame(queue[n][i])
NoKeyWithoutPeers ==
    \A n \in Node : pc[n] = "wait" /\ ~HasLivePeer(st[n]) => st[n].lki = NoKey
CleanState == SessionsClean /\ FramesClean /\ NoKeyWithoutPeers
\* The inductive invariant.
CInv == SInv /\ PcShape /\ IsSpent /\ (spent.reset = 0 => CleanState)

\* A session is reset.
Resets == \E n \in Node : RunCollision(n) \/ Restart(n)

\* While the count of resets is 0, no step has reset a session.
LEMMA SpentNext ==
    ASSUME IsSpent, PcShape, [Next]_vars
    PROVE  /\ IsSpent' /\ PcShape'
           /\ spent'.reset = 0 => spent.reset = 0 /\ ~Resets
<1>1. PICK o : o = spent
  BY Zenon
<1>2. IsSpent /\ o = [loss |-> o.loss, silence |-> o.silence, reset |-> o.reset]
      /\ o.reset \in Nat
  BY <1>1, Zenon DEF IsSpent
<1>3. CASE Resets
  <2>1. PICK r : r = o.reset + 1
    BY Zenon
  <2>2. spent' = [o EXCEPT !.reset = r]
    BY <1>1, <1>3, <2>1, Zenon DEF Resets, RunCollision, Restart
  <2>3. IsSpent' /\ spent'.reset # 0
    BY <1>2, <2>1, <2>2 DEF IsSpent
  <2>4. PcShape'
    BY <1>3, Zenon DEF Resets, RunCollision, Restart, RunBottom, PcShape
  <2> QED BY <2>3, <2>4, Zenon
<1>4. CASE ~Resets
  <2>1. PcShape' /\ (\/ spent' = o \/ spent' = [o EXCEPT !.loss = @ + 1]
                     \/ spent' = [o EXCEPT !.silence = @ + 1])
    <3>1. CASE vars' = vars
      BY <1>1, <3>1, Zenon DEF vars, PcShape
    <3>2. ASSUME NEW n \in Node,
                 RunTop(n) \/ RunReceive(n) \/ RunTimeout(n) \/ HelloTimer(n) \/ SakTimer(n)
          PROVE  PcShape' /\ spent' = o
      BY <1>1, <3>2, Zenon DEF RunTop, RunReceive, RunTimeout, RunBottom, HelloTimer, SakTimer,
                        PcShape
    <3>3. ASSUME NEW n \in Node, Lose(n)
          PROVE  PcShape' /\ spent' = [o EXCEPT !.loss = @ + 1]
      BY <1>1, <3>3, Zenon DEF Lose, PcShape
    <3>4. ASSUME NEW n \in Node, NEW m \in Mi, PeerTimer(n, m)
          PROVE  PcShape' /\ (spent' = o \/ spent' = [o EXCEPT !.silence = @ + 1])
      BY <1>1, <3>4, Zenon DEF PeerTimer, PcShape
    <3> QED BY <1>4, <3>1, <3>2, <3>3, <3>4, Zenon DEF Next, Resets
  <2>2. IsSpent' /\ spent'.reset = o.reset
    BY <1>2, <2>1, Zenon DEF IsSpent
  <2> QED BY <1>1, <1>4, <2>1, <2>2, Zenon
<1> QED BY <1>3, <1>4, Zenon

\* A frame of a clean session is clean, and so are the frames that were.
LEMMA FinishFrames ==
    ASSUME SInv, FramesClean, NEW n \in Node, NEW z, SessionOK(z), Clean(z), z.mi = <<n, 1>>,
           NEW q, Delivers(q), NEW send, Finish(n, z, q, send)
    PROVE  FramesClean'
<1>1. \A e : CleanFrame(Mkpdu(n, z, e))
  <2>1. LivePeers(z) \subseteq FirstMi /\ <<n, 1>> \in FirstMi
    BY Zenon DEF LivePeers, Clean, PeersClean, PeerClean, FirstMi
  <2> QED BY <2>1, SMTT(30) DEF CleanFrame, Mkpdu
<1>2. \A m \in Node : \A i \in DOMAIN queue'[m] :
         \/ \E j \in DOMAIN q[m] : SameFrame(q[m][j], queue'[m][i])
         \/ m # n /\ \E e : queue'[m][i] = Mkpdu(n, z, e)
  BY FinishQueues DEF SInv, SessionOK, Delivers
<1>3. ASSUME NEW m \in Node, NEW i \in DOMAIN queue'[m] PROVE CleanFrame(queue'[m][i])
  <2>1. ASSUME NEW j \in DOMAIN q[m], SameFrame(q[m][j], queue'[m][i])
        PROVE  CleanFrame(queue'[m][i])
    <3>1. CleanFrame(q[m][j])
      BY Zenon DEF Delivers, FramesClean
    <3> QED BY <2>1, <3>1, Zenon DEF SameFrame, CleanFrame
  <2> QED BY <1>1, <1>2, <2>1, Zenon
<1> QED BY <1>3, Zenon DEF FramesClean

\* The end of a step of run().
LEMMA FinishClean ==
    ASSUME SInv, PcShape, CleanState, NEW n \in Node, NEW z, SessionOK(z), Clean(z),
           z.mi = <<n, 1>>, NEW q, Delivers(q), NEW send, Finish(n, z, q, send),
           \/ pc' = [pc EXCEPT ![n] = "top"]
           \/ pc' = [pc EXCEPT ![n] = "wait"] /\ (z.lki = NoKey \/ HasLivePeer(z))
    PROVE  CleanState'
<1>1. /\ Quiet(z, st'[n]) /\ \A m \in Node \ {n} : Quiet(st[m], st'[m])
  BY FinishSessions, Zenon DEF SInv, SessionOK
<1>2. /\ Clean(st'[n]) /\ st'[n].mi = <<n, 1>> /\ st'[n].lki = z.lki
      /\ HasLivePeer(st'[n]) = HasLivePeer(z)
  BY <1>1, QuietClean, Zenon
<1>3. \A m \in Node \ {n} :
         /\ Clean(st'[m]) /\ st'[m].mi = <<m, 1>> /\ st'[m].lki = st[m].lki
         /\ HasLivePeer(st'[m]) = HasLivePeer(st[m])
  BY <1>1, QuietClean, Zenon DEF CleanState, SessionsClean
<1>4. SessionsClean'
  <2>1. \A m \in Node : st'[m].mi = <<m, 1>> /\ Clean(st'[m])
    BY <1>2, <1>3, Zenon
  <2> QED BY <2>1, Zenon DEF SessionsClean
<1>5. NoKeyWithoutPeers'
  <2>1. ASSUME NEW m \in Node, pc'[m] = "wait", ~HasLivePeer(st'[m])
        PROVE  st'[m].lki = NoKey
    <3>1. CASE m = n
      BY <1>2, <2>1, <3>1, Zenon DEF PcShape
    <3>2. CASE m # n
      <4>1. pc[m] = "wait"
        BY <2>1, <3>2, Zenon DEF PcShape
      <4> QED BY <1>3, <2>1, <3>2, <4>1, Zenon DEF CleanState, NoKeyWithoutPeers
    <3> QED BY <3>1, <3>2, Zenon
  <2> QED BY <2>1, Zenon DEF NoKeyWithoutPeers, HasLivePeer, LivePeers
<1>6. FramesClean'
  BY FinishFrames, Zenon DEF CleanState
<1> QED BY <1>4, <1>5, <1>6, Zenon DEF CleanState

\* Every step but a reset keeps the sessions clean.
LEMMA CleanNext ==
    ASSUME SInv, PcShape, CleanState, [Next]_vars, ~Resets
    PROVE  CleanState'
<1> USE DEF CleanState
<1>1. CASE vars' = vars
  BY <1>1, Zenon DEF vars, CleanState, SessionsClean, FramesClean, NoKeyWithoutPeers,
              HasLivePeer, LivePeers
<1>2. ASSUME NEW n \in Node, RunTop(n) PROVE CleanState'
  <2>1. PICK z, send : TopStep(st[n], z) /\ Finish(n, z, queue, send)
    BY <1>2, RunTopStep, Zenon DEF SInv
  <2>2. Clean(z) /\ z.mi = <<n, 1>> /\ (z.lki = NoKey \/ HasLivePeer(z)) /\ SessionOK(z)
    BY <2>1, TopClean, Zenon DEF SessionsClean, TopStep
  <2>3. pc' = [pc EXCEPT ![n] = "wait"]
    BY <1>2, Zenon DEF RunTop
  <2> QED BY <2>1, <2>2, <2>3, DeliversAll, FinishClean, Zenon
<1>3. ASSUME NEW n \in Node, RunReceive(n) PROVE CleanState'
  <2>1. PICK x, z, q, send :
           /\ x \in HandleFrame(n, st[n], Head(queue[n])) /\ BottomStep(x, z)
           /\ SessionOK(x) /\ Delivers(q) /\ Finish(n, z, q, send)
           /\ 1 \in DOMAIN queue[n] /\ Head(queue[n]) = queue[n][1]
    BY <1>3, RunReceiveStep, Zenon
  <2>2. CleanFrame(Head(queue[n])) /\ SessionOK(st[n]) /\ Clean(st[n]) /\ st[n].mi = <<n, 1>>
    BY <2>1, Zenon DEF FramesClean, SessionsClean, SInv
  <2>3. Clean(x) /\ x.mi = <<n, 1>>
    BY <2>1, <2>2, HandleFrameClean, SMTT(30)
  <2>4. Clean(z) /\ z.mi = <<n, 1>> /\ SessionOK(z)
    BY <2>1, <2>3, BottomClean, Zenon DEF BottomStep
  <2>5. pc' = [pc EXCEPT ![n] = "top"]
    BY <1>3, Zenon DEF RunReceive, RunBottom
  <2> QED BY <2>1, <2>4, <2>5, FinishClean, Zenon
<1>4. ASSUME NEW n \in Node, RunTimeout(n) PROVE CleanState'
  <2>1. PICK x, z, send : /\ Quiet(st[n], x) /\ SessionOK(x) /\ BottomStep(x, z)
                          /\ Finish(n, z, queue, send)
    BY <1>4, RunTimeoutStep, Zenon
  <2>2. Clean(x) /\ x.mi = <<n, 1>>
    BY <2>1, QuietClean, Zenon DEF SessionsClean
  <2>3. Clean(z) /\ z.mi = <<n, 1>> /\ SessionOK(z)
    BY <2>1, <2>2, BottomClean, Zenon DEF BottomStep
  <2>4. pc' = [pc EXCEPT ![n] = "top"]
    BY <1>4, Zenon DEF RunTimeout, RunBottom
  <2> QED BY <2>1, <2>3, <2>4, DeliversAll, FinishClean, Zenon
<1>5. ASSUME NEW n \in Node,
             \/ Lose(n) \/ HelloTimer(n) \/ SakTimer(n) \/ \E m \in Mi : PeerTimer(n, m)
      PROVE  CleanState'
  <2>1. /\ \A m \in Node : Quiet(st[m], st'[m])
        /\ \E q : Delivers(q) /\ queue' = q
        /\ pc' = pc
    BY <1>5, QuietStep, Zenon
  <2>2. \A m \in Node : /\ Clean(st'[m]) /\ st'[m].mi = <<m, 1>> /\ st'[m].lki = st[m].lki
                        /\ HasLivePeer(st'[m]) = HasLivePeer(st[m])
    BY <2>1, QuietClean, Zenon DEF SessionsClean
  <2>3. SessionsClean' /\ NoKeyWithoutPeers'
    BY <2>1, <2>2, Zenon DEF SessionsClean, NoKeyWithoutPeers
  <2>4. FramesClean'
    BY <2>1 DEF FramesClean, Delivers
  <2> QED BY <2>3, <2>4, Zenon
<1>6. CASE Next
  BY <1>2, <1>3, <1>4, <1>5, <1>6, Zenon DEF Next, Resets
<1> QED BY <1>1, <1>6, Zenon

\* As long as no session was reset, sessions and frames are clean.
THEOREM CInvInvariant == Spec => []CInv
<1>1. Init => CInv
  <2> SUFFICES ASSUME Init PROVE CInv
    BY Zenon
  <2>1. /\ SInv /\ \A n \in Node : Blank(st[n]) /\ st[n].mi = <<n, 1>>
                                   /\ st[n].dev.tx = {} /\ st[n].dev.rx = {}
    BY SInvInit, Zenon
  <2>2. SessionsClean
    BY <2>1, Zenon DEF SessionsClean, Clean, PeersClean, SasClean, Blank
  <2>3. FramesClean /\ PcShape /\ IsSpent
    BY DEF Init, FramesClean, PcShape, IsSpent
  <2>4. NoKeyWithoutPeers
    BY <2>1, Zenon DEF NoKeyWithoutPeers, Blank
  <2> QED BY <2>1, <2>2, <2>3, <2>4, Zenon DEF CInv, CleanState
<1>2. CInv /\ [Next]_vars => CInv'
  BY SInvNext, SpentNext, CleanNext, Zenon DEF CInv
<1> QED BY <1>1, <1>2, PTL DEF Spec

\* NoSasWithoutPeers: while no session was reset (reset_mi keeps the netdev), a
\* session that waits without live peers has no SA left, as drop_unsecure_sak
\* says.
THEOREM NoSasLeftWithoutPeers == Spec => [](spent.reset = 0 => NoSasWithoutPeers)
<1>1. CInv => (spent.reset = 0 => NoSasWithoutPeers)
  BY Zenon DEF CInv, CleanState, NoKeyWithoutPeers, SessionsClean, Clean, SasClean,
         NoSasWithoutPeers
<1> QED BY <1>1, CInvInvariant, PTL

\* RxInstalledMatchesKernel: while no session was reset (a rebuilt peer comes
\* back with the SCI of its predecessor, whose RX channel run() then removes), a
\* live peer whose rx_installed is set has an RX SA of the latest SAK in the
\* netdev.
THEOREM RxInstalledIsReal == Spec => [](spent.reset = 0 => RxInstalledMatchesKernel)
<1>1. CInv => (spent.reset = 0 => RxInstalledMatchesKernel)
  BY Zenon DEF CInv, CleanState, SessionsClean, Clean, SasClean, RxInstalledMatchesKernel,
         LivePeers, Sa
<1> QED BY <1>1, CInvInvariant, PTL
=============================================================================
