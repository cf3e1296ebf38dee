------------------------------ MODULE WifiRoam ------------------------------
(***************************************************************************)
(* Scanning and roaming of one WiFi interface: the scan request and its     *)
(* results (wifi/scan.rs), the reasons to look for a better access point    *)
(* (CQM, polling, background and post-connect scans, BSS transition         *)
(* requests), the 802.11k neighbor report that precedes a quick scan, and   *)
(* the move itself, by FT or by reconnecting (wifi/roam.rs).                *)
(*                                                                         *)
(* request_neighbor_report_freqs reads events while it waits.  The wait is  *)
(* w.pc = "report": until it is over nothing but events is handled, and     *)
(* FinishReport is the rest of the interrupted trigger_roam_scan.           *)
(***************************************************************************)
EXTENDS WifiLink

---------------------------------------------------------------------------
(* Scans.                                                                  *)

HintChannels(nets) ==
    {Ap[b].chan : b \in UNION {nets[i].known : i \in DOMAIN nets}}

AllChannels == {Ap[b].chan : b \in Bss}

\* send_out_scan_request succeeds; the kernel runs one scan at a time.
ScanStarts(s, oc) == oc # "err" /\ ~s.k.scan.on

SendOutScanRequest(s, oc) ==
    LET w == s.w
        hints == HintChannels(w.nets)
        chans == CASE w.roam_scan /\ ~w.full /\ w.freqs # {} -> w.freqs
                   [] ~w.roam_scan /\ w.hint_scan /\ hints # {} -> hints
                   [] OTHER -> AllChannels
        Request(next) ==
            [s EXCEPT
                !.w.cursor = next.cursor,
                !.w.wildcard_next = next.wildcard_next,
                !.w.hint_scan = @ /\ (w.roam_scan \/ hints # {}),
                !.k.scan = IF ScanStarts(s, oc)
                           THEN [on |-> TRUE, chans |-> chans, probe |-> next.probe] ELSE @]
    IN  Request(NextScanSsids(HiddenSsids(w.nets), w.cursor, w.wildcard_next, MaxScanSsids))

\* collect_scan_candidates
Collect(s) ==
    LET Heard(cands) ==
            [s EXCEPT !.w.cands = cands,
                      !.w.freqs = {Ap[c.bss].chan : c \in cands}
                                  \cup (IF s.w.bss = NoBss THEN {} ELSE {Ap[s.w.bss].chan})]
    IN  Heard(Candidates(s.w.fullmac, s.w.nets, s.k.found, s.k.sig))

\* process_scan_results: the candidate that is chosen, if any, becomes the
\* link; the target of a roam is spent either way.
Chosen(s) ==
    SelectBss(s.w.cands, s.w.nets, s.w.target, s.w.hint_scan, s.w.retry_scan,
              s.w.bss, s.w.ignored)
Take(s, c) ==
    [s EXCEPT !.w.target = NoBss, !.w.bss = c.bss, !.w.net = c.net,
              !.w.cqm = FALSE, !.w.post = FALSE]
Only(choice) == CHOOSE c \in choice : TRUE

\* Why nothing was chosen: ErrorKind::NoSupport or SsidNotFound.
NoSupport(s) == Unsupported(s.w.fullmac, s.w.nets, s.k.found)

---------------------------------------------------------------------------
(* The roam scan.                                                          *)

Managed(w) == w.bss # NoBss /\ Ap[w.bss].managed    \* ap_supports_signal_roam

\* trigger_roam_scan from the scan request on.
StartRoamScan(s, full, oc) ==
    LET Requested(t) ==
            IF ScanStarts(s, oc) THEN Then(t, oc, "Scanning", "Scanning")
            ELSE [t EXCEPT !.w.state = t.w.pre, !.w.pre = "none", !.w.roam_scan = FALSE,
                           !.w.post = FALSE]
    IN  Requested(SendOutScanRequest([s EXCEPT !.w.roam_scan = TRUE, !.w.full = full,
                                               !.w.pre = IF @ = "none" THEN s.w.state ELSE @], oc))

\* A quick scan that cannot start is tried again as a full one.
QuickRoamScan(s, oc) ==
    IF ScanStarts(s, oc) THEN StartRoamScan(s, FALSE, oc)
    ELSE StartRoamScan(StartRoamScan(s, FALSE, oc), TRUE, "ok")

\* trigger_roam_scan: a quick scan first asks the access point for its
\* neighbors, unless such a request is already outstanding.
TriggerRoamScan(s, full, oc) ==
    LET t == [s EXCEPT !.w.post_at = FALSE]
        asks == ~full /\ Ap[s.w.bss].rrm /\ ~s.w.nr
    IN  CASE full -> StartRoamScan(t, TRUE, oc)
          [] asks /\ oc = "ok" -> [t EXCEPT !.w.nr = TRUE, !.w.pc = "report", !.k.nr = TRUE]
          [] asks /\ oc = "cut" -> t
          [] OTHER -> QuickRoamScan(t, IF asks THEN "ok" ELSE oc)

\* The wait for the neighbor report is over, answered or not.
FinishReport(s, oc) == QuickRoamScan([s EXCEPT !.w.nr = FALSE, !.w.pc = "run"], oc)

\* handle_rrm_frame: the channels the access point reports join the next
\* quick scan.
HandleRrm(s, ev) ==
    IF ~s.w.nr THEN s
    ELSE [s EXCEPT !.w.nr = FALSE, !.w.freqs = @ \cup ev.chans]

---------------------------------------------------------------------------
(* Moving to another access point.                                         *)

\* setup_ft_context: the FT keys of an initial association are derived from
\* the PMK of its own authentication, never from a cached one.
HasXxkey(w) == IF Sec(w.bss) = "FtPsk" THEN w.psk # 0 ELSE w.method = "done"

\* start_ft_roam: the old association is gone even if the request fails.
StartFtRoam(s, b, oc) ==
    CASE oc = "err" -> Fail(Disconnect(s))
      [] oc = "cut" -> Authenticate(s, b, "ft")
      [] oc = "ok" -> [Authenticate(s, b, "ft") EXCEPT
                          !.w.state = "Authenticating", !.w.ft_roam = b, !.w.ft_ptk = FALSE]

\* synthesize_okc_entry: the PMK derived from the passphrase is cached for
\* the target, unless an entry is there.
SynthesizeOkc(w, net, b) ==
    LET k == <<w.net.ssid, b, Sec(b)>>
    IN  CASE net.ssid # w.net.ssid -> w
          [] /\ net.ssid = w.net.ssid
             /\ w.psk # 0
             /\ Sec(b) \in {"Wpa2Psk", "Wpa2PskSha256"}
             /\ ~Pmk!Contains(w.cache, k) ->
                [w EXCEPT !.cache = Pmk!Insert(@, Pmk!NewEntry(k, w.psk))]
          [] OTHER -> [w EXCEPT !.cache = Pmk!RemoveExpired(@)]

\* start_roam: FT within the mobility domain, else DISCONNECT and leave the
\* reconnection to the retry loop, steered to the target; another SSID whose
\* security its network does not accept is refused.
Steered(w, b, net) ==
    [SynthesizeOkc(w, net, b) EXCEPT
        !.net = IF net.ssid = w.net.ssid THEN @ ELSE net,
        !.target = b, !.cooldown = TRUE, !.full = FALSE]
StartRoam(s, b, net, oc) ==
    LET t == [s EXCEPT !.w.post_at = FALSE, !.w.post_done = TRUE, !.w.cqm = FALSE]
        byFt == /\ net.ssid = s.w.net.ssid
                /\ s.w.ft # 0
                /\ Sec(b) \in FtFamily
                /\ Ap[b].mdid = s.w.ft
        refused == net.ssid # s.w.net.ssid /\ ~AcceptsSecurity(net, Sec(b))
    IN  IF refused THEN t
        ELSE IF byFt THEN StartFtRoam(t, b, oc)
        ELSE Then(Disconnect([t EXCEPT !.w = Steered(t.w, b, net)]), oc, "Failed", "Failed")

\* handle_ft_auth_response: any fault of the answer ends the roam, and the
\* old access point is already gone.
HandleFtAuthResponse(s, ok, oc) ==
    IF ok /\ oc # "err" /\ s.w.ft # 0 /\ CanAssociate(s, s.w.ft_roam)
    THEN Associate([s EXCEPT !.w.ft_ptk = TRUE], s.w.ft_roam, "ft")
    ELSE Fail([s EXCEPT !.w.ft_roam = NoBss])

\* handle_ft_assoc_response and install_ft_ptk: on success the link is the
\* target's, with its keys.
HandleFtAssocResponse(s, ies, oc) ==
    IF ies /\ oc # "err" /\ s.w.ft # 0 /\ s.w.ft_ptk
    THEN [s EXCEPT !.w = [ArmWowlan(s.w) EXCEPT
                             !.bss = s.w.ft_roam, !.ft_roam = NoBss, !.fourway = TRUE,
                             !.cooldown = TRUE, !.full = FALSE, !.method = "none",
                             !.state = "Connected"]]
    ELSE Fail([s EXCEPT !.w.ft_roam = NoBss])

---------------------------------------------------------------------------
(* Reasons to roam.                                                        *)

\* The gates of check_roam_conditions, check_background_roam and CQM LOW.
MayRoamScan(w) ==
    w.net.roaming /\ Managed(w) /\ w.ft_roam = NoBss /\ ~w.roam_scan /\ ~w.cooldown

CheckRoamConditions(s, oc) ==
    IF MayRoamScan(s.w) /\ s.k.assoc = s.w.bss /\ s.k.sig[s.w.bss] < Good
    THEN TriggerRoamScan([s EXCEPT !.w.background = FALSE], FALSE, oc) ELSE s

CheckBackgroundRoam(s, oc) ==
    IF MayRoamScan(s.w) THEN TriggerRoamScan([s EXCEPT !.w.background = TRUE], TRUE, oc) ELSE s

\* arm_post_connect_scan
ArmPostConnect(w) ==
    [w EXCEPT !.post_at = @ \/ (~w.fullmac /\ ~w.post_done /\ w.net.roaming /\ Managed(w))]

PostConnectScan(s, oc) ==
    LET t == [s EXCEPT !.w.post_at = FALSE, !.w.post_done = TRUE]
    IN  IF s.w.ft_roam # NoBss \/ s.w.roam_scan THEN t
        ELSE TriggerRoamScan([t EXCEPT !.w.post = TRUE, !.w.background = TRUE], TRUE, oc)

\* handle_cqm_rssi
HandleCqm(s, low, oc) ==
    LET w == s.w IN
    CASE low /\ w.state = "Connected" /\ MayRoamScan(w) ->
            TriggerRoamScan([s EXCEPT !.w.background = FALSE], FALSE, oc)
      [] ~low /\ w.roam_scan ->
            [s EXCEPT !.w.full = FALSE, !.w.roam_scan = FALSE, !.w.background = FALSE,
                      !.w.post = FALSE, !.w.pre = "none",
                      !.w.state = IF w.pre # "none" THEN w.pre ELSE @]
      [] ~low /\ ~w.roam_scan /\ w.state = "Connected" -> [s EXCEPT !.w.full = FALSE]
      [] OTHER -> s

\* pick_btm_target and handle_wnm_frame; the candidates of ev in the order of
\* preference of the access point.
HandleBtm(s, ev, oc) ==
    LET w == s.w
        Fits(b) == /\ b # w.bss
                   /\ \E c \in w.cands : c.bss = b /\ MatchesBssid(c.net, b)
                   /\ Base(Sec(b)) = Base(Sec(w.bss))
        t == [s EXCEPT !.w.freqs = @ \cup {Ap[ev.list[i]].chan : i \in DOMAIN ev.list}]
        Move(fit) == IF fit = {} THEN t ELSE StartRoam(t, Only(fit), w.net, oc)
    IN  IF w.fullmac \/ w.state # "Connected" THEN s ELSE Move(FirstOf(SelectSeq(ev.list, Fits)))

\* What _run does when process_roam_scan_results is back: unless the client
\* moved on or scans once more, it is in the state from before the scan.
BackFromRoamScan(s) ==
    IF s.w.roam_scan THEN s
    ELSE [s EXCEPT !.w.pre = "none",
                   !.w.state = IF @ = "Scanning" /\ s.w.pre # "none" THEN s.w.pre ELSE @]

\* process_roam_scan_results, run with roam_scan cleared.  live is the signal
\* of GET_STATION, present while the kernel is associated.
MoveOrStay(s, best, oc) ==
    LET live == s.k.assoc = s.w.bss
        current == s.k.sig[s.w.bss]
        stay == live /\ ~s.w.post /\ s.w.net.roaming /\ current >= Good
        again == ~s.w.full /\ s.w.net.roaming /\ current < Good
        t == [s EXCEPT !.w.post = FALSE]
        Moved(u) == IF oc = "cut" THEN u ELSE BackFromRoamScan(u)
    IN  CASE ~stay /\ best # {} -> Moved(StartRoam(t, Only(best).bss, Only(best).net, oc))
          [] best = {} /\ again -> BackFromRoamScan(TriggerRoamScan(t, TRUE, oc))
          [] OTHER -> BackFromRoamScan(t)
LookForBetter(s, oc) ==
    MoveOrStay(s, SelectRoam(s.w.cands, s.w.bss, s.w.net.ssid, s.k.sig[s.w.bss], s.w.background), oc)
ProcessRoamScanResults(s, oc) ==
    IF oc = "nodump" THEN BackFromRoamScan([s EXCEPT !.w.post = FALSE])
    ELSE LookForBetter(Collect(s), oc)
=============================================================================
