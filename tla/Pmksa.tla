------------------------------- MODULE Pmksa -------------------------------
(***************************************************************************)
(* The PMKSA cache of one WiFi interface (wifi/pmksa.rs) and the discipline *)
(* with which the connection code may use it (auth.rs, associate.rs,        *)
(* roam.rs): which entry is offered to an access point, how long one may    *)
(* live, when it is dropped.  The operators are the cache's methods; the    *)
(* actions are what one step of the interface may do to it, and WifiIface   *)
(* is checked to do nothing else.                                           *)
(*                                                                         *)
(* Time is counted in steps: an entry expires `left` steps from now, and    *)
(* is no longer offered once it has Reauth steps or fewer to live.          *)
(***************************************************************************)
EXTENDS Naturals, FiniteSets

CONSTANTS
    Keys,        \* <<SSID, BSS, AKM>>: what an entry is for
    Pmk,         \* pairwise master keys
    Lifetime,    \* PMK_LIFETIME_SECS
    Reauth,      \* what is left of it at PMK_REAUTH_THRESHOLD_PERCENT
    MaxEntries   \* MAX_ENTRIES

\* What the constants of pmksa.rs satisfy.
PmksaConstants ==
    /\ Lifetime \in Nat /\ Reauth \in Nat /\ Reauth < Lifetime
    /\ MaxEntries \in Nat \ {0}

VARIABLES
    cache,   \* PmksaCache.entries
    in_use   \* link.pmksa_in_use: the entry offered for this association,
             \* as a set of at most one

pvars == <<cache, in_use>>

Entries == [key : Keys, pmk : Pmk, left : 0..Lifetime]

Ssid(e) == e.key[1]

\* PmksaEntry::new: the lifetime starts now.
NewEntry(k, pmk) == [key |-> k, pmk |-> pmk, left |-> Lifetime]

\* PmksaEntry::matches, over the entries of c.
Matching(c, k) == {e \in c : e.key = k}

RemoveExpired(c) == {e \in c : e.left > 0}

\* The entry insert() evicts from a full cache.
Soonest(c) == CHOOSE e \in c : \A o \in c : e.left <= o.left

Insert(c, e) ==
    LET live == RemoveExpired(c)
        full == Matching(live, e.key) = {} /\ Cardinality(live) = MaxEntries
    IN  (live \ (IF full THEN {Soonest(live)} ELSE Matching(live, e.key))) \cup {e}

\* past_reauth_threshold: not offered any more, though not expired.
PastReauth(e) == e.left <= Reauth

Lookup(c, k) == {e \in Matching(RemoveExpired(c), k) : ~PastReauth(e)}

Contains(c, k) == Matching(RemoveExpired(c), k) # {}

Invalidate(c, k) == c \ Matching(c, k)

RemoveSsid(c, ssids) == {e \in c : Ssid(e) \notin ssids}

\* Time passes for the entries of c.
Older(c) == {[e EXCEPT !.left = IF @ = 0 THEN 0 ELSE @ - 1] : e \in c}

---------------------------------------------------------------------------
PInit ==
    /\ cache = {}
    /\ in_use = {}

\* A connection attempt starts: the entry of its target is offered, if there
\* is one young enough.
Offer(k) ==
    /\ in_use' = Lookup(cache, k)
    /\ cache' = RemoveExpired(cache)

\* An attempt that looks nothing up: no entry is in use any more.
Drop ==
    /\ in_use' = {}
    /\ UNCHANGED cache

\* A handshake completed without an offered entry, or opportunistic key
\* caching copies the PMK of such an association to a roam target.
Store(k, pmk) ==
    /\ in_use = {}
    /\ cache' = Insert(cache, NewEntry(k, pmk))
    /\ UNCHANGED in_use

\* A handshake completed under the offered entry: it goes back as it is.
Keep ==
    /\ \E e \in in_use : cache' = Insert(cache, e)
    /\ in_use' = {}

\* contains: a roam looks whether its target has an entry.
Probe ==
    /\ cache' = RemoveExpired(cache)
    /\ UNCHANGED in_use

\* pmksa_fallback: the access point did not take the offered entry; full
\* authentication starts.
Fallback ==
    \E e \in in_use :
        /\ cache' = RemoveExpired(Invalidate(cache, e.key))
        /\ in_use' = {}

\* The configuration changed: every entry of these SSIDs is dropped, and the
\* link may be given up.
Forget(ssids) ==
    /\ cache' = RemoveSsid(cache, ssids)
    /\ in_use' \in {RemoveSsid(in_use, ssids), {}}

Tick ==
    /\ cache' = Older(cache)
    /\ in_use' = Older(in_use)

PNext ==
    \/ \E k \in Keys : Offer(k)
    \/ Drop
    \/ \E k \in Keys, pmk \in Pmk : Store(k, pmk)
    \/ Keep
    \/ Probe
    \/ Fallback
    \/ \E ssids \in SUBSET {k[1] : k \in Keys} : Forget(ssids)
    \/ Tick

PSpec == PInit /\ [][PNext]_pvars

---------------------------------------------------------------------------
\* The cache holds one entry for a network, access point and AKM, never more
\* than MAX_ENTRIES, and at most one entry is offered.
CacheSound ==
    /\ cache \subseteq Entries
    /\ in_use \subseteq Entries
    /\ \A d, e \in cache : d.key = e.key => d = e
    /\ \A d, e \in in_use : d = e
    /\ Cardinality(cache) <= MaxEntries

\* Only a full authentication renews an entry.  While an entry is in use for
\* the association, and when cache_pmksa puts it back, whatever is cached has
\* no longer to live than it had before the step, in the cache or in use; an
\* entry with a full lifetime appears when none is in use.
NeverProlonged ==
    [][\A e \in cache' :
          \/ \E d \in cache \cup in_use : d.key = e.key /\ d.pmk = e.pmk /\ e.left <= d.left
          \/ in_use = {} /\ e.left = Lifetime]_pvars

\* What is newly offered to an access point is in the cache and has not
\* reached its reauthentication threshold.
OfferedIsYoung ==
    [][\A e \in in_use' : in_use' \notin {in_use, Older(in_use)} =>
          e \in cache /\ ~PastReauth(e)]_pvars
=============================================================================
