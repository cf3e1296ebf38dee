----------------------------- MODULE WifiProofs -----------------------------
(***************************************************************************)
(* TLAPS proofs about two parts of the WiFi client, for any access points, *)
(* networks and bounds.  The first is about the PMKSA cache (Pmksa): the   *)
(* insertions, removals and expiries keep it sound; the invariant adds     *)
(* that it is finite, which the bound on its entries needs (insert counts  *)
(* them).  The second is about the selection of an access point            *)
(* (WifiSelect), whatever the signals and the scan results; the Wifi run   *)
(* sees the same guarantees through NoDowngrade and RetryElsewhere on its  *)
(* small worlds.                                                           *)
(***************************************************************************)
EXTENDS WifiSelect, Pmksa, FiniteSetTheorems, FunctionTheorems, WellFoundedInduction, TLAPS

-----------------------------------------------------------------------------
(* The PMKSA cache *)

Finite == IsFiniteSet(cache)

IInv == CacheSound /\ Finite

\* What the invariant says of the entries alone.
Sound(c) ==
    /\ c \subseteq Entries
    /\ \A d, e \in c : d.key = e.key => d = e
    /\ IsFiniteSet(c)
    /\ Cardinality(c) <= MaxEntries

---------------------------------------------------------------------------
\* Dropping entries, as remove_expired, invalidate and remove_ssid do, keeps
\* the cache sound.
LEMMA SubsetSound ==
    ASSUME PmksaConstants, NEW c, Sound(c), NEW d \in SUBSET c
    PROVE  Sound(d)
  <1>1. /\ IsFiniteSet(d)
        /\ Cardinality(d) <= Cardinality(c)
        /\ Cardinality(c) \in Nat /\ Cardinality(d) \in Nat
    BY FS_Subset, FS_CardinalityType DEF Sound
  <1>2. Cardinality(d) <= MaxEntries
    BY <1>1 DEF Sound, PmksaConstants
  <1> QED
    BY <1>1, <1>2 DEF Sound

\* Time passes: as many entries or fewer, for the same networks.
LEMMA OlderSound ==
    ASSUME PmksaConstants, NEW c, Sound(c)
    PROVE  Sound(Older(c))
  <1> DEFINE age == [e \in c |-> [e EXCEPT !.left = IF @ = 0 THEN 0 ELSE @ - 1]]
  <1>1. Older(c) = {age[e] : e \in c}
    BY DEF Older
  <1>2. age \in Surjection(c, Older(c))
    BY <1>1, Fun_IsSurj
  <1>3. /\ IsFiniteSet(Older(c))
        /\ Cardinality(Older(c)) <= Cardinality(c)
        /\ Cardinality(c) \in Nat /\ Cardinality(Older(c)) \in Nat
    BY <1>2, FS_Surjection, FS_CardinalityType DEF Sound
  <1>4. \A e \in c : age[e] \in Entries /\ age[e].key = e.key
    BY DEF Sound, Entries, PmksaConstants
  <1>5. Cardinality(Older(c)) <= MaxEntries
    BY <1>3 DEF Sound, PmksaConstants
  <1>6. \A d, e \in Older(c) : d.key = e.key => d = e
    BY <1>1, <1>4 DEF Sound
  <1> QED
    BY <1>1, <1>3, <1>4, <1>5, <1>6 DEF Sound

\* A cache that is not empty has an entry that expires first, so that a full
\* one always has an entry to evict.
LEMMA SoonestExists ==
    ASSUME PmksaConstants, NEW c, c \subseteq Entries, c # {}
    PROVE  Soonest(c) \in c
  <1> DEFINE lefts == {e.left : e \in c}
             less == {ss \in Nat \X Nat : ss[1] < ss[2]}
  <1>1. lefts \subseteq Nat /\ lefts # {}
    BY DEF Entries, PmksaConstants
  <1>2. \E x \in lefts : \A y \in lefts : ~(<<y, x>> \in less)
    <2>1. IsWellFoundedOn(less, Nat)
      BY NatLessThanWellFounded, Zenon DEF OpToRel
    <2> HIDE DEF lefts, less
    <2> QED
      BY <1>1, <2>1, WFMin
  <1>3. \E x \in lefts : \A y \in lefts : x <= y
    <2>1. PICK x \in lefts : \A y \in lefts : ~(<<y, x>> \in less)
      BY <1>2
    <2>2. ASSUME NEW y \in lefts PROVE x <= y
      <3>1. x \in Nat /\ y \in Nat /\ ~(<<y, x>> \in less)
        BY <1>1, <2>1
      <3>2. ~(y < x)
        BY <3>1
      <3> QED
        BY <3>1, <3>2
    <2> QED
      BY <2>2
  <1>4. \E e \in c : \A o \in c : e.left <= o.left
    BY <1>3
  <1> QED
    BY <1>4 DEF Soonest

\* insert(): the entries of the same network, access point and AKM make way
\* for the new one, or, if there is none and the cache is full, the one that
\* expires soonest does.
LEMMA InsertSound ==
    ASSUME PmksaConstants, NEW c, Sound(c), NEW e \in Entries
    PROVE  Sound(Insert(c, e))
  <1> DEFINE live == RemoveExpired(c)
             same == Matching(live, e.key)
             full == same = {} /\ Cardinality(live) = MaxEntries
             gone == IF full THEN {Soonest(live)} ELSE same
             kept == live \ gone
  <1>1. Sound(live)
    BY SubsetSound DEF RemoveExpired
  <1>2. Sound(kept)
    BY <1>1, SubsetSound
  <1>3. \A d \in kept : d.key # e.key
    BY DEF Matching
  <1>4. IsFiniteSet(kept \cup {e}) /\ Cardinality(kept \cup {e}) <= Cardinality(kept) + 1
    BY <1>2, FS_AddElement, FS_CardinalityType, SMTT(30) DEF Sound
  <1>5. Cardinality(kept) + 1 <= MaxEntries
    <2>1. Cardinality(live) \in Nat /\ Cardinality(kept) \in Nat
      BY <1>1, <1>2, FS_CardinalityType DEF Sound
    <2>2. CASE \E x \in live : x \in gone
      <3>1. PICK x \in live : x \in gone
        BY <2>2
      <3>2. Cardinality(live \ {x}) = Cardinality(live) - 1 /\ IsFiniteSet(live \ {x})
        BY <1>1, <3>1, FS_RemoveElement DEF Sound
      <3>3. Cardinality(kept) <= Cardinality(live \ {x})
        BY <3>1, <3>2, FS_Subset
      <3> QED
        BY <2>1, <3>2, <3>3, <1>1 DEF Sound, PmksaConstants
    <2>3. CASE ~(\E x \in live : x \in gone)
      <3>1. same = {} /\ kept = live
        BY <2>3 DEF Matching
      <3>2. Cardinality(live) # MaxEntries
        <4>1. SUFFICES ASSUME Cardinality(live) = MaxEntries PROVE FALSE
          OBVIOUS
        <4>2. live # {}
          BY <4>1, FS_EmptySet DEF PmksaConstants
        <4>3. Soonest(live) \in live
          BY <1>1, <4>2, SoonestExists DEF Sound
        <4> QED
          BY <4>1, <4>3, <3>1, <2>3
      <3> QED
        BY <2>1, <3>1, <3>2, <1>1 DEF Sound, PmksaConstants
    <2> QED
      BY <2>2, <2>3
  <1>6. Cardinality(kept \cup {e}) \in Nat /\ Cardinality(kept) \in Nat
    BY <1>2, <1>4, FS_CardinalityType DEF Sound
  <1>7. Sound(kept \cup {e})
    BY <1>2, <1>3, <1>4, <1>5, <1>6, SMTT(30) DEF Sound, PmksaConstants
  <1> QED
    BY <1>7 DEF Insert

---------------------------------------------------------------------------
\* The invariant, split into the cache and the entry in use.
LEMMA IInvSplit ==
    IInv <=> /\ Sound(cache)
             /\ in_use \subseteq Entries
             /\ \A d, e \in in_use : d = e
  BY DEF IInv, CacheSound, Finite, Sound

LEMMA InitSound ==
    ASSUME PmksaConstants
    PROVE  PInit => IInv
  BY FS_EmptySet DEF PInit, IInv, CacheSound, Finite, PmksaConstants

LEMMA StepSound ==
    ASSUME PmksaConstants, IInv, [PNext]_pvars
    PROVE  IInv'
  <1> USE PmksaConstants
  <1>0. /\ Sound(cache) /\ in_use \subseteq Entries
        /\ \A d, e \in in_use : d = e
    BY IInvSplit
  <1>1. SUFFICES /\ Sound(cache') /\ in_use' \subseteq Entries
                 /\ \A d, e \in in_use' : d = e
    BY DEF IInv, CacheSound, Finite, Sound
  <1>2. ASSUME NEW k \in Keys, Offer(k) PROVE <1>1!1
    <2>1. Sound(RemoveExpired(cache))
      BY <1>0, SubsetSound DEF RemoveExpired
    <2> QED
      BY <1>0, <1>2, <2>1 DEF Offer, Lookup, Matching, Sound
  <1>3. CASE Drop
    BY <1>0, <1>3 DEF Drop
  <1>4. ASSUME NEW k \in Keys, NEW pmk \in Pmk, Store(k, pmk) PROVE <1>1!1
    <2>1. NewEntry(k, pmk) \in Entries
      BY DEF NewEntry, Entries, PmksaConstants
    <2> QED
      BY <1>0, <1>4, <2>1, InsertSound DEF Store
  <1>5. CASE Keep
    BY <1>0, <1>5, InsertSound DEF Keep
  <1>6. CASE Probe
    BY <1>0, <1>6, SubsetSound DEF Probe, RemoveExpired
  <1>7. CASE Fallback
    BY <1>0, <1>7, SubsetSound DEF Fallback, RemoveExpired, Invalidate
  <1>8. ASSUME NEW ssids, Forget(ssids) PROVE <1>1!1
    BY <1>0, <1>8, SubsetSound DEF Forget, RemoveSsid
  <1>9. CASE Tick
    <2>1. in_use' \subseteq Entries
      BY <1>0, <1>9 DEF Tick, Older, Entries, PmksaConstants
    <2>2. \A d, e \in in_use' : d = e
      BY <1>0, <1>9 DEF Tick, Older
    <2> QED
      BY <1>0, <1>9, <2>1, <2>2, OlderSound DEF Tick
  <1>10. CASE UNCHANGED pvars
    BY <1>0, <1>10 DEF pvars
  <1> QED
    BY <1>2, <1>3, <1>4, <1>5, <1>6, <1>7, <1>8, <1>9, <1>10 DEF PNext

\* The cache never holds two entries for the same network, access point and
\* AKM, nor more than MAX_ENTRIES, however entries are stored, refreshed,
\* evicted, dropped and expire.
THEOREM CacheStaysSound ==
    ASSUME PmksaConstants
    PROVE  PSpec => []CacheSound
  <1>1. PInit => IInv
    BY InitSound
  <1>2. IInv /\ [PNext]_pvars => IInv'
    BY StepSound
  <1>3. IInv => CacheSound
    BY DEF IInv
  <1> QED
    BY <1>1, <1>2, <1>3, PTL DEF PSpec

---------------------------------------------------------------------------
\* insert() adds the new entry and nothing else.
LEMMA InsertAdds ==
    ASSUME NEW c, NEW e
    PROVE  Insert(c, e) \subseteq c \cup {e}
  BY DEF Insert, RemoveExpired

\* Only a full authentication renews a cache entry: one that is put back after
\* a handshake that used it keeps its expiry time, even where it was evicted or
\* replaced in the cache meanwhile, and nothing else that happens while it is
\* in use adds an entry with a full lifetime.
THEOREM LifetimesOnlyShrink ==
    ASSUME PmksaConstants
    PROVE  PSpec => NeverProlonged
  <1> DEFINE Explained(e) ==
                 \/ \E d \in cache \cup in_use :
                       d.key = e.key /\ d.pmk = e.pmk /\ e.left <= d.left
                 \/ in_use = {} /\ e.left = Lifetime
  <1>1. ASSUME IInv, [PNext]_pvars PROVE [\A e \in cache' : Explained(e)]_pvars
    <2>0. cache \subseteq Entries /\ in_use \subseteq Entries
      BY <1>1 DEF IInv, CacheSound
    <2>1. \A e \in Entries : e.left <= e.left
      BY DEF Entries, PmksaConstants
    <2>2. \A e \in cache \cup in_use : Explained(e)
      BY <2>0, <2>1
    <2>3. in_use = {} => \A e : e.left = Lifetime => Explained(e)
      OBVIOUS
    <2>4. SUFFICES ASSUME PNext, NEW e \in cache' PROVE Explained(e)
      BY <1>1
    <2> HIDE DEF Explained
    <2>5. ASSUME NEW k \in Keys, NEW pmk \in Pmk, Store(k, pmk) PROVE Explained(e)
      BY <2>2, <2>3, <2>4, <2>5, InsertAdds DEF Store, NewEntry
    <2>6. CASE Keep
      BY <2>2, <2>4, <2>6, InsertAdds DEF Keep
    <2>7. CASE Tick
      <3>1. PICK d \in cache : e = [d EXCEPT !.left = IF @ = 0 THEN 0 ELSE @ - 1]
        BY <2>4, <2>7 DEF Tick, Older
      <3>2. d.key = e.key /\ d.pmk = e.pmk /\ e.left <= d.left
        BY <2>0, <3>1 DEF Entries, PmksaConstants
      <3> QED
        BY <3>2 DEF Explained
    <2>8. ASSUME cache' \subseteq cache PROVE Explained(e)
      BY <2>2, <2>4, <2>8
    <2> QED
      BY <2>4, <2>5, <2>6, <2>7, <2>8 DEF PNext, Offer, Drop, Probe, Fallback,
         Forget, RemoveExpired, Invalidate, RemoveSsid
  <1>2. PInit => IInv
    BY InitSound
  <1>3. IInv /\ [PNext]_pvars => IInv'
    BY StepSound
  <1> QED
    BY <1>1, <1>2, <1>3, PTL DEF PSpec, NeverProlonged

\* A key offered to an access point was in the cache and had not reached its
\* reauthentication threshold: an attempt never starts with a key that is
\* about to expire, or with one the cache has dropped.
THEOREM OffersYoungKeys ==
    ASSUME PmksaConstants
    PROVE  PSpec => OfferedIsYoung
  <1> DEFINE Young == \A e \in in_use' : in_use' \notin {in_use, Older(in_use)} =>
                          e \in cache /\ ~PastReauth(e)
  <1>1. ASSUME IInv, [PNext]_pvars PROVE [Young]_pvars
    <2>1. SUFFICES ASSUME PNext, in_use' \notin {in_use, Older(in_use)},
                          NEW e \in in_use'
                   PROVE  e \in cache /\ ~PastReauth(e)
      BY <1>1
    <2>2. ASSUME NEW k \in Keys, Offer(k) PROVE e \in cache /\ ~PastReauth(e)
      BY <2>1, <2>2 DEF Offer, Lookup, Matching, RemoveExpired
    <2>3. ASSUME NEW ssids, Forget(ssids) PROVE FALSE
      <3>1. \A a, b \in in_use : a = b
        BY <1>1 DEF IInv, CacheSound
      <3>2. in_use' \subseteq in_use
        BY <2>3 DEF Forget, RemoveSsid
      <3>3. in_use' = in_use
        BY <3>1, <3>2, <2>1
      <3> QED
        BY <2>1, <3>3
    <2> QED
      BY <2>1, <2>2, <2>3 DEF PNext, Drop, Store, Keep, Probe, Fallback, Tick
  <1>2. PInit => IInv
    BY InitSound
  <1>3. IInv /\ [PNext]_pvars => IInv'
    BY StepSound
  <1> QED
    BY <1>1, <1>2, <1>3, PTL DEF PSpec, OfferedIsYoung

-----------------------------------------------------------------------------
(* The selection of an access point *)

\* Strongest is one of the candidates, and Ord for BssInfo leaves no two.
LEMMA StrongestUnique ==
    ASSUME NEW cands,
           \A c \in cands : c.bss \in Nat /\ c.sig \in Nat /\ Ap[c.bss].chan \in Nat,
           \A c, d \in cands : c.bss = d.bss => c = d
    PROVE  /\ Strongest(cands) \subseteq cands
           /\ \A c, d \in Strongest(cands) : c = d
  BY DEF Strongest, Stronger

\* Whatever is chosen is one of the candidates and honours the BSSID its
\* network is pinned to, if it is.
LEMMA ChoiceIsCandidate ==
    ASSUME NEW cands, NEW nets, NEW target, NEW hint_scan, NEW retry_scan, NEW failed, NEW ignored,
           NEW c \in SelectBss(cands, nets, target, hint_scan, retry_scan, failed, ignored)
    PROVE  c \in cands /\ MatchesBssid(c.net, c.bss)
  <1>1. \A ds, include : \A d \in BestFiltered(ds, include) :
            d \in ds /\ MatchesBssid(d.net, d.bss) /\ d.bss \in include
    BY DEF BestFiltered, BestOf, Eligible, OrElse, Strongest
  <1>2. \A ds, include : \A d \in BestHinted(ds, include) :
            d \in ds /\ MatchesBssid(d.net, d.bss)
    BY <1>1 DEF BestHinted
  <1>3. \A ds, include : \A d \in BestPrefered(ds, include) :
            d \in ds /\ MatchesBssid(d.net, d.bss)
    BY <1>1, <1>2 DEF BestPrefered, OrElse
  <1> QED
    BY <1>1, <1>2, <1>3 DEF SelectBss, RoamTarget, HintedChoice, RestChoice, OrElse

\* The access point process_scan_results picks was heard, belongs to the first
\* configured network of its SSID, and offers the kind of security that this
\* network has credentials for: one with a password or EAP credentials never
\* leads to an open, OWE or unsupported access point, whether the choice is a
\* roam target, a hinted BSS, a retry or the best of the rest.
THEOREM SelectionNeverDowngrades ==
    ASSUME NEW fullmac, NEW nets, NEW heard, NEW sig, NEW target, NEW hint_scan,
           NEW retry_scan, NEW failed, NEW ignored,
           NEW c \in SelectBss(Candidates(fullmac, nets, heard, sig), nets, target,
                               hint_scan, retry_scan, failed, ignored)
    PROVE  /\ c.bss \in heard
           /\ c.net = NetworksOf(nets, c.bss)[1]
           /\ MlmeSupports(fullmac, Sec(c.bss))
           /\ c.net.password # 0 \/ c.net.eap => Sec(c.bss) \notin {"Open", "Owe"}
           /\ Sec(c.bss) # "Unsupported"
  <1>1. c \in Candidates(fullmac, nets, heard, sig)
    BY ChoiceIsCandidate
  <1>2. PICK b \in heard :
            /\ c = [bss |-> b, net |-> NetworksOf(nets, b)[1], sig |-> sig[b]]
            /\ AcceptsSecurity(NetworksOf(nets, b)[1], Sec(b))
            /\ MlmeSupports(fullmac, Sec(b))
    BY <1>1 DEF Candidates, FirstOf, Joins
  <1>3. c.bss = b /\ c.net = NetworksOf(nets, b)[1]
    BY <1>2
  <1>4. AcceptsSecurity(c.net, Sec(c.bss)) /\ MlmeSupports(fullmac, Sec(c.bss))
    BY <1>2, <1>3
  <1>5. /\ Sec(c.bss) # "Unsupported"
        /\ Sec(c.bss) \in {"Open", "Owe"} => c.net.password = 0 /\ ~c.net.eap
    <2>1. CASE Sec(c.bss) = "Unsupported"
      BY <1>4, <2>1 DEF AcceptsSecurity, PskFamily, SaeFamily
    <2>2. CASE Sec(c.bss) \in {"Open", "Owe"}
      BY <1>4, <2>2 DEF AcceptsSecurity, PskFamily, SaeFamily
    <2> QED
      BY <2>1, <2>2
  <1> QED
    BY <1>3, <1>4, <1>5

\* A scan leads to one access point at most: the preferences of
\* process_scan_results leave no tie.
THEOREM SelectsAtMostOne ==
    ASSUME SelectAssumption,
           NEW fullmac, NEW nets, NEW heard \in SUBSET Bss, NEW sig, NEW target,
           NEW hint_scan, NEW retry_scan, NEW failed, NEW ignored,
           \A b \in Bss : sig[b] \in Nat /\ Ap[b].chan \in Nat
    PROVE  \A c, d \in SelectBss(Candidates(fullmac, nets, heard, sig), nets, target,
                                 hint_scan, retry_scan, failed, ignored) : c = d
  <1> DEFINE cands == Candidates(fullmac, nets, heard, sig)
             One(S) == \A c, d \in S : c = d
  <1>1. /\ \A c \in cands : c.bss \in Nat /\ c.sig \in Nat /\ Ap[c.bss].chan \in Nat
        /\ \A c, d \in cands : c.bss = d.bss => c = d
    BY DEF Candidates, FirstOf, Joins, SelectAssumption
  <1> HIDE DEF cands
  <1>2. \A S \in SUBSET cands : One(Strongest(S))
    BY <1>1, StrongestUnique
  <1> HIDE DEF One
  <1>3. \A S \in SUBSET cands : \A include : One(BestFiltered(S, include))
    BY <1>2 DEF BestFiltered, BestOf, Eligible, OrElse
  <1>4. \A S \in SUBSET cands : \A include : One(BestHinted(S, include))
    BY <1>3 DEF BestHinted
  <1>5. \A include : One(BestPrefered(cands, include))
    BY <1>3, <1>4 DEF BestPrefered, OrElse
  <1>6. One(RoamTarget(cands, target)) /\ One({})
    BY <1>1 DEF One, RoamTarget
  <1>7. One(SelectBss(cands, nets, target, hint_scan, retry_scan, failed, ignored))
    BY <1>3, <1>4, <1>5, <1>6 DEF SelectBss, HintedChoice, RestChoice, OrElse
  <1> QED
    BY <1>7 DEF One, cands

\* The scan after a failure never leads back to a BSS on the ignore list, nor,
\* unless it was also a scan of hinted channels, to the one that just failed.
THEOREM RetryGoesElsewhere ==
    ASSUME NEW cands, NEW nets, NEW target, NEW hint_scan \in BOOLEAN, NEW failed, NEW ignored,
           \A c \in cands : c.bss # target,
           NEW c \in SelectBss(cands, nets, target, hint_scan, TRUE, failed, ignored)
    PROVE  c.bss \notin ignored /\ (hint_scan \/ c.bss # failed)
  <1>1. \A ds, include : \A d \in BestFiltered(ds, include) : d.bss \in include
    BY DEF BestFiltered, BestOf, Eligible, OrElse, Strongest
  <1>2. \A ds, include : \A d \in BestHinted(ds, include) : d.bss \in include
    BY <1>1 DEF BestHinted
  <1>3. \A ds, include : \A d \in BestPrefered(ds, include) : d.bss \in include
    BY <1>1, <1>2 DEF BestPrefered, OrElse
  <1> QED
    BY <1>1, <1>2, <1>3 DEF SelectBss, RoamTarget, HintedChoice, RestChoice, OrElse

\* Where process_roam_scan_results may go, whatever the thresholds of the
\* configuration: to a BSS of the same SSID and base security, allowed by its
\* network's pin, that is no weaker than the current one (stronger, in a
\* background scan) and that no other such BSS surpasses; or, only while the
\* current signal is critical, to the strongest one of another configured SSID
\* that is good and whose security its network accepts.  In the second case
\* the signal improves if the critical threshold is not above the good one;
\* the configuration does not require that.
THEOREM RoamTargets ==
    ASSUME SelectAssumption,
           NEW cands, NEW bss, NEW ssid, NEW current \in Nat, NEW strict \in BOOLEAN,
           \A d \in cands : d.sig \in Nat,
           NEW c \in SelectRoam(cands, bss, ssid, current, strict)
    PROVE  /\ c \in cands /\ c.bss # bss /\ MatchesBssid(c.net, c.bss)
           /\ \/ /\ c.net.ssid = ssid /\ Base(Sec(c.bss)) = Base(Sec(bss))
                 /\ c.sig >= current /\ (strict => c.sig > current)
                 /\ \A d \in cands :
                       /\ d.bss # bss /\ d.net.ssid = ssid /\ MatchesBssid(d.net, d.bss)
                       /\ Base(Sec(d.bss)) = Base(Sec(bss))
                       => d.sig <= c.sig
              \/ /\ c.net.ssid # ssid /\ AcceptsSecurity(c.net, Sec(c.bss))
                 /\ current < Critical /\ c.sig >= Good
                 /\ Critical <= Good => c.sig > current
                 /\ \A d \in cands :
                       /\ d.bss # bss /\ d.net.ssid # ssid /\ MatchesBssid(d.net, d.bss)
                       /\ AcceptsSecurity(d.net, Sec(d.bss))
                       => d.sig <= c.sig
  <1> DEFINE others == {d \in cands : d.bss # bss /\ MatchesBssid(d.net, d.bss)}
             same == {d \in others : /\ d.net.ssid = ssid
                                     /\ Base(Sec(d.bss)) = Base(Sec(bss))
                                     /\ IF strict THEN d.sig > current ELSE d.sig >= current}
             other == {d \in others : /\ d.net.ssid # ssid
                                      /\ d.sig >= Good
                                      /\ AcceptsSecurity(d.net, Sec(d.bss))}
  <1>1. \A ds : \A d, e \in ds : d \in Strongest(ds) /\ d.sig \in Nat /\ e.sig \in Nat
                                => e.sig <= d.sig
    BY DEF Strongest, Stronger
  <1>2. c \in Strongest(same) \/ (current < Critical /\ c \in Strongest(other))
    BY DEF SelectRoam, OrElse
  <1>3. CASE c \in Strongest(same)
    <2>1. c \in same
      BY <1>3 DEF Strongest
    <2>2. ASSUME NEW d \in cands, d.bss # bss, d.net.ssid = ssid, MatchesBssid(d.net, d.bss),
                 Base(Sec(d.bss)) = Base(Sec(bss))
          PROVE  d.sig <= c.sig
      <3>1. CASE d \in same
        BY <1>1, <1>3, <2>1, <3>1
      <3>2. CASE d \notin same
        BY <2>1, <2>2, <3>2
      <3> QED
        BY <3>1, <3>2
    <2> QED
      BY <2>1, <2>2
  <1>4. CASE current < Critical /\ c \in Strongest(other)
    <2>1. c \in other
      BY <1>4 DEF Strongest
    <2>2. ASSUME NEW d \in cands, d.bss # bss, d.net.ssid # ssid, MatchesBssid(d.net, d.bss),
                 AcceptsSecurity(d.net, Sec(d.bss))
          PROVE  d.sig <= c.sig
      <3>1. CASE d \in other
        BY <1>1, <1>4, <2>1, <3>1
      <3>2. CASE d \notin other
        BY <2>1, <2>2, <3>2 DEF SelectAssumption
      <3> QED
        BY <3>1, <3>2
    <2>3. Critical <= Good => c.sig > current
      BY <1>4, <2>1 DEF SelectAssumption
    <2> QED
      BY <1>4, <2>1, <2>2, <2>3
  <1> QED
    BY <1>2, <1>3, <1>4
=============================================================================
