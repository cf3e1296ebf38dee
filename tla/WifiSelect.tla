----------------------------- MODULE WifiSelect -----------------------------
(***************************************************************************)
(* The decisions of the WiFi client as functions of what it knows: how the *)
(* security of an access point is read from its beacon, which network of   *)
(* the configuration accepts it, which candidate of a scan is joined, to    *)
(* which one a connected client roams, and which SSIDs the next scan        *)
(* probes (wifi/scan.rs, wifi/config.rs, wifi/client/wiphy.rs, state.rs).   *)
(*                                                                         *)
(* A candidate is [bss, net, sig]: an access point in the scan results, the *)
(* configured network it belongs to and its signal.  Signals are small      *)
(* naturals; Usable stands for DEFAULT_SWITCH_SSID_LOWER_THAN_DBM, Good for *)
(* the roaming threshold of a network and Critical for its                  *)
(* switch_ssid_lower_than_dbm.                                              *)
(***************************************************************************)
EXTENDS Naturals, FiniteSets, Sequences

CONSTANTS
    Bss,       \* access points: positive naturals, ordered as their BSSIDs
    Ap,        \* what each of them is: [ssid, akms, group, wpa1, privacy,
               \* hidden, chan, mdid, managed, rrm, password, h2e, sec]
    NoBss,     \* the all-zero BSSID of a link that has none
    Usable, Good, Critical

SaeFamily == {"Sae", "SaeExtKey", "FtSae", "FtSaeExtKey"}
PskFamily == {"Wpa2Psk", "Wpa2PskSha256", "FtPsk"}
FtFamily == {"FtPsk", "FtSae", "FtSaeExtKey"}
Enterprise == {"Wpa2Ent", "Wpa2EntSha256"}

\* SecurityType::base: the AKM without its FT variant.
Base(sec) ==
    CASE sec = "FtPsk" -> "Wpa2Psk"
      [] sec = "FtSae" -> "Sae"
      [] sec = "FtSaeExtKey" -> "SaeExtKey"
      [] OTHER -> sec

\* akm_rank
AkmRank(sec) ==
    CASE sec \in {"FtSae", "FtSaeExtKey"} -> 5
      [] sec \in {"FtPsk", "Sae", "SaeExtKey"} -> 4
      [] sec = "Wpa2PskSha256" -> 3
      [] sec \in {"Owe", "Wpa2Psk"} -> 2
      [] sec \in Enterprise -> 1
      [] OTHER -> 0

\* security_from_rsne: the first AKM of the highest rank; an encrypted access
\* point without a usable one is never "Open".
SecurityFromRsne(akms, group) ==
    LET best[i \in 0 .. Len(akms)] ==
            CASE i = 0 -> "Open"
              [] i > 0 /\ AkmRank(akms[i]) > AkmRank(best[i - 1]) -> akms[i]
              [] OTHER -> best[i - 1]
        sec == best[Len(akms)]
    IN  IF group = "Tkip" \/ sec = "Open" THEN "Unsupported" ELSE sec

\* detect_security_with_privacy
DetectSecurity(ap) ==
    CASE ap.akms # <<>> -> SecurityFromRsne(ap.akms, ap.group)
      [] ap.akms = <<>> /\ (ap.wpa1 \/ ap.privacy) -> "Unsupported"
      [] OTHER -> "Open"

\* sec is what is read from the beacon.
ASSUME SelectAssumption ==
    /\ Bss \subseteq Nat \ {0} /\ NoBss = 0
    /\ {Usable, Good, Critical} \subseteq Nat
    /\ \A b \in Bss : Ap[b].sec = DetectSecurity(Ap[b])

\* BssInfo.security of a link; one without a BSS has that of the default.
Sec(b) == IF b = NoBss THEN "Open" ELSE Ap[b].sec

---------------------------------------------------------------------------
(* A configured network is [ssid, password, eap, pin, prefered, hidden,     *)
(* roaming, wowlan, known, free]: password 0 is none, known the BSSes of    *)
(* its hints, free the BSS its hints describe well enough to join unseen.   *)

\* BUG: a network with a password also accepts open access points.
BugAcceptsSecurity(net, sec) ==
    CASE sec = "Unsupported" -> FALSE
      [] sec \in {"Open", "Owe"} -> ~net.eap
      [] sec \in PskFamily \cup SaeFamily -> net.password # 0 /\ ~net.eap
      [] OTHER -> net.password = 0 /\ net.eap

AcceptsSecurity(net, sec) ==
    CASE sec = "Unsupported" -> FALSE
      [] sec \in {"Open", "Owe"} -> net.password = 0 /\ ~net.eap
      [] sec \in PskFamily \cup SaeFamily -> net.password # 0 /\ ~net.eap
      [] OTHER -> net.password = 0 /\ net.eap

MatchesBssid(net, b) == net.pin \in {NoBss, b}

\* mlme_security_unsupported: what a FullMAC driver cannot join.
MlmeSupports(fullmac, sec) ==
    ~fullmac \/ sec \notin SaeFamily \cup {"FtPsk", "Owe"}

\* The first of a sequence, as a set of at most one.
FirstOf(seq) == {seq[i] : i \in DOMAIN seq \cap {1}}

\* scan_free_target: the first network whose hints are complete, with the BSS
\* they describe.
ScanFreeTarget(fullmac, nets) ==
    LET Complete(net) ==
            /\ net.free # NoBss
            /\ MatchesBssid(net, net.free)
            /\ AcceptsSecurity(net, Sec(net.free))
            /\ MlmeSupports(fullmac, Sec(net.free))
    IN  {[bss |-> net.free, net |-> net] : net \in FirstOf(SelectSeq(nets, Complete))}

\* The networks of b's SSID: collect_scan_candidates takes the first.
NetworksOf(nets, b) ==
    LET Same(net) == net.ssid = Ap[b].ssid IN SelectSeq(nets, Same)

Joins(fullmac, net, b) == AcceptsSecurity(net, Sec(b)) /\ MlmeSupports(fullmac, Sec(b))

\* collect_scan_candidates: what can be joined of the access points heard.
Candidates(fullmac, nets, heard, sig) ==
    UNION {{[bss |-> b, net |-> net, sig |-> sig[b]] :
               net \in {n \in FirstOf(NetworksOf(nets, b)) : Joins(fullmac, n, b)}} : b \in heard}

\* unsupported_security: a configured SSID was heard that cannot be joined.
Unsupported(fullmac, nets, heard) ==
    \E b \in heard : \E net \in FirstOf(NetworksOf(nets, b)) : ~Joins(fullmac, net, b)

---------------------------------------------------------------------------
(* Choosing among candidates.  Every choice is a set of at most one.        *)

\* Ord for BssInfo: the strongest signal, ties by frequency and BSSID.
Stronger(c, d) ==
    \/ c.sig > d.sig
    \/ c.sig = d.sig /\ Ap[c.bss].chan > Ap[d.bss].chan
    \/ c.sig = d.sig /\ Ap[c.bss].chan = Ap[d.bss].chan /\ c.bss >= d.bss

Strongest(cands) == {c \in cands : \A d \in cands : Stronger(c, d)}

OrElse(a, b) == IF a # {} THEN a ELSE b

\* best_scan_candidate_filtered: of the eligible, a preferred one that is
\* strong enough comes first.
Eligible(cands, include) ==
    {c \in cands : /\ c.bss \in include
                   /\ MatchesBssid(c.net, c.bss)
                   /\ AcceptsSecurity(c.net, Sec(c.bss))}
BestOf(eligible) ==
    OrElse(Strongest({c \in eligible : c.net.prefered /\ c.sig >= Usable}), Strongest(eligible))
BestFiltered(cands, include) == BestOf(Eligible(cands, include))

\* best_hinted_candidate_filtered
BestHinted(cands, include) ==
    BestFiltered({c \in cands : c.bss \in c.net.known}, include)

\* best_prefered_candidate_filtered
BestPrefered(cands, include) ==
    LET prefered == {c \in cands : c.net.prefered}
    IN  OrElse(BestHinted(prefered, include), BestFiltered(prefered, include))

\* best_retry_candidate: another BSS of the ESS after one failed.
BestRetry(cands, failed, ssid, ignored) ==
    Strongest({c \in cands : /\ c.bss # failed
                             /\ c.net.ssid = ssid
                             /\ MatchesBssid(c.net, c.bss)
                             /\ Base(Sec(c.bss)) = Base(Sec(failed))
                             /\ c.bss \notin ignored})

\* BUG: a retry scan falls back to an ignored access point like any other.
BugSelectBss(cands, nets, target, hint_scan, retry_scan, failed, ignored) ==
    OrElse({c \in cands : c.bss = target /\ MatchesBssid(c.net, c.bss)},
           OrElse(BestFiltered(cands, Bss \ ignored), BestFiltered(cands, Bss)))

\* BUG: an ignored access point is not tried even where there is no other.
BugSelectBssIgnored(cands, nets, target, hint_scan, retry_scan, failed, ignored) ==
    OrElse({c \in cands : c.bss = target /\ MatchesBssid(c.net, c.bss)},
           BestFiltered(cands, Bss \ ignored))

\* The steps of the choice of process_scan_results: the target of a roam, the
\* hinted BSSes of the preferred (or of all) networks, and the best that is
\* not ignored or, outside a retry scan, an ignored one.
RoamTarget(cands, target) ==
    {c \in cands : c.bss = target /\ MatchesBssid(c.net, c.bss)}
HintedChoice(cands, hint_scan, prefered, wanted) ==
    IF ~hint_scan THEN {}
    ELSE IF prefered THEN BestPrefered(cands, wanted) ELSE BestHinted(cands, wanted)
RestChoice(cands, retry_scan, failed, wanted) ==
    OrElse(BestFiltered(cands, wanted \ (IF retry_scan THEN {failed} ELSE {})),
           IF retry_scan THEN {} ELSE BestFiltered(cands, Bss))

\* process_scan_results: a hinted scan that missed is not the place for any
\* other choice.
SelectBss(cands, nets, target, hint_scan, retry_scan, failed, ignored) ==
    LET prefered == \E i \in DOMAIN nets : nets[i].prefered
        missed == hint_scan /\ (prefered \/ \E i \in DOMAIN nets : nets[i].known # {})
    IN  OrElse(RoamTarget(cands, target),
               OrElse(HintedChoice(cands, hint_scan, prefered, Bss \ ignored),
                      IF missed THEN {} ELSE RestChoice(cands, retry_scan, failed, Bss \ ignored)))

\* The choice of process_roam_scan_results: a BSS of the connected SSID no
\* weaker than the current one (stronger, if strict), else, on a critical
\* link, a good one of another configured SSID.
SelectRoam(cands, bss, ssid, current, strict) ==
    LET others == {c \in cands : c.bss # bss /\ MatchesBssid(c.net, c.bss)}
        same == {c \in others : /\ c.net.ssid = ssid
                                /\ Base(Sec(c.bss)) = Base(Sec(bss))
                                /\ IF strict THEN c.sig > current ELSE c.sig >= current}
        other == {c \in others : /\ c.net.ssid # ssid
                                 /\ c.sig >= Good
                                 /\ AcceptsSecurity(c.net, Sec(c.bss))}
    IN  OrElse(Strongest(same), IF current < Critical THEN Strongest(other) ELSE {})

---------------------------------------------------------------------------
(* The SSIDs of a scan.                                                     *)

SsidsOf(nets) == [i \in DOMAIN nets |-> nets[i].ssid]
HiddenSsids(nets) ==
    LET Hidden(net) == net.hidden IN SsidsOf(SelectSeq(nets, Hidden))

\* next_scan_ssids: a wildcard entry, and as many of the hidden SSIDs as fit,
\* rotating; a driver of one SSID a scan alternates between the two.  The
\* cursor counts from 0.
NextScanSsids(hidden, cursor, wildcard_next, max) ==
    LET n == Len(hidden)
        used == IF n < max - 1 THEN n ELSE max - 1
        At(i) == hidden[(i % n) + 1]
    IN  CASE max = 1 /\ (n = 0 \/ wildcard_next) ->
                [probe |-> {}, wildcard |-> TRUE, cursor |-> cursor, wildcard_next |-> FALSE]
          [] max = 1 /\ n # 0 /\ ~wildcard_next ->
                [probe |-> {At(cursor)}, wildcard |-> FALSE,
                 cursor |-> (cursor + 1) % n, wildcard_next |-> TRUE]
          [] OTHER ->
                [probe |-> {At(cursor + i) : i \in 0..(used - 1)},
                 wildcard |-> TRUE,
                 cursor |-> IF n < max - 1 \/ n = 0 THEN 0 ELSE (cursor + used) % n,
                 wildcard_next |-> wildcard_next]

\* next_sched_scan_ssids: one chunk of the firmware scan.
NextSchedScanSsids(hidden, wildcard, cursor, cap) ==
    LET n == Len(hidden)
        specific == IF wildcard THEN cap - 1 ELSE cap
        end == IF cursor + specific < n THEN cursor + specific ELSE n
    IN  [probe |-> {hidden[i] : i \in (cursor + 1)..end},
         more |-> end < n,
         cursor |-> IF end < n THEN end ELSE 0]
=============================================================================
