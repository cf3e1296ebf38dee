------------------------------ MODULE WifiIface ------------------------------
(***************************************************************************)
(* run() and _run() of a WiFi interface, and the change of its             *)
(* configuration at run time (wifi/client/wifi_iface.rs): what each state   *)
(* does when an event or a timer ends its wait, and what run() does with    *)
(* the state that is left.  Wifi has the actions.                           *)
(***************************************************************************)
EXTENDS WifiEvents

CONSTANT CqmSupported   \* the driver reports CQM events

Failures == {"Failed", "FailedAuthentication"}

---------------------------------------------------------------------------
(* The scheduled scan of the firmware.                                     *)

\* start_sched_scan asks the driver: it is not known to be without the
\* operation, and has room for a hidden SSID if there is one.
Wildcard(nets) == \E i \in DOMAIN nets : ~nets[i].hidden
SchedAsks(w) ==
    /\ w.sched_supported /\ SchedCap > 0
    /\ (\E i \in DOMAIN w.nets : w.nets[i].hidden) => SchedCap > (IF Wildcard(w.nets) THEN 1 ELSE 0)

\* start_sched_scan returns true.
SchedStarts(s, oc) == SchedAsks(s.w) /\ oc # "err" /\ ~s.k.sched.on /\ s.k.pno

\* start_sched_scan.  A driver that answers EOPNOTSUPP is not asked again.
StartSchedScan(s, oc) ==
    LET Request(next) ==
            [s EXCEPT !.w.sched_cursor = next.cursor, !.w.more = next.more,
                      !.w.sched_supported = oc = "err" \/ s.k.pno,
                      !.w.active = @ \/ (SchedStarts(s, oc) /\ oc # "cut"),
                      !.k.sched = IF SchedStarts(s, oc)
                                  THEN [on |-> TRUE, chans |-> AllChannels, probe |-> next.probe] ELSE @]
    IN  IF ~SchedAsks(s.w) THEN s
        ELSE Request(NextSchedScanSsids(HiddenSsids(s.w.nets), Wildcard(s.w.nets),
                                        s.w.sched_cursor, SchedCap))

\* A restart of the scheduled scan that fails ends the wait.
RestartSchedScan(s, oc) ==
    IF SchedStarts(s, oc) THEN StartSchedScan(s, oc) ELSE Fail(StartSchedScan(s, oc))

\* stop_sched_scan; the kernel announces the end of a scan that ran.
StopSchedScan(s) ==
    IF ~s.w.active THEN s
    ELSE [s EXCEPT !.w.active = FALSE, !.w.stop_pending = TRUE, !.k.sched = NoScan,
                   !.q = IF s.k.sched.on THEN Append(@, [type |-> "SchedStopped"]) ELSE @]

---------------------------------------------------------------------------
(* The states of _run.                                                     *)

\* What _run does before it waits: CQM is armed on a link that can roam, and
\* no scheduled scan is left running by a failure.
ApRoams(w) == ~w.fullmac /\ w.net.roaming /\ Managed(w)
Enter(s) ==
    CASE s.w.pc # "run" -> s
      [] s.w.pc = "run" /\ s.w.state = "Connected" ->
            [s EXCEPT !.w.cqm = @ \/ (CqmSupported /\ ApRoams(s.w))]
      [] s.w.pc = "run" /\ s.w.state \in Failures -> StopSchedScan(s)
      [] OTHER -> s

ScanFrom(s, oc) ==
    LET Requested(t) == IF ScanStarts(s, oc) THEN Then(t, oc, "Scanning", "Scanning") ELSE Fail(t)
    IN  Requested(SendOutScanRequest(s, oc))

\* Init: the fast reconnect a lost link armed, a BSS known well enough to be
\* joined unseen, or a scan.
RunInit(s, oc) ==
    LET t == [s EXCEPT !.w.fast = "none"]
        again == s.w.fast = "same" /\ s.w.bss # NoBss /\ s.w.bss \notin s.w.ignored
        hinted == s.w.hint_scan /\ s.w.fast # "scan"
        free == IF again \/ ~hinted THEN {} ELSE ScanFreeTarget(s.w.fullmac, s.w.nets)
        joined == IF again THEN {[s EXCEPT !.w.fast = "scan"]}
                  ELSE {[t EXCEPT !.w.hint_scan = FALSE, !.w.net = c.net, !.w.bss = c.bss] : c \in free}
    IN  Only(IF joined # {} THEN {StartAttempt(u, oc) : u \in joined}
             ELSE {ScanFrom([t EXCEPT !.w.hint_scan = hinted], oc)})

\* The firmware takes over the search.
StartFirmwareScan(s, oc) ==
    LET t == [s EXCEPT !.w.sched_cursor = 0, !.w.more = FALSE, !.w.rotate = FALSE]
    IN  IF SchedStarts(t, oc)
        THEN Then(StartSchedScan(t, oc), oc, "SchedScanWait", "SchedScanWait")
        ELSE Fail(StartSchedScan(t, oc))

\* The results of a scan to join: a candidate is tried; a hinted scan that
\* found nothing is repeated on every channel; then the firmware takes over.
NothingFound(s, unsupported, oc) ==
    LET t == [s EXCEPT !.w.target = NoBss, !.w.retry_scan = FALSE]
    IN  CASE s.w.retry_scan /\ ~unsupported -> Fail(t)
          [] s.w.hint_scan /\ (~s.w.retry_scan \/ unsupported) ->
                ScanFrom([t EXCEPT !.w.hint_scan = FALSE], oc)
          [] ~s.w.hint_scan /\ unsupported -> Fail(t)
          [] OTHER -> StartFirmwareScan(t, oc)
TryOrSearchOn(s, chosen, oc) ==
    IF chosen # {} THEN StartAttempt([Take(s, Only(chosen)) EXCEPT !.w.retry_scan = FALSE], oc)
    ELSE NothingFound(s, NoSupport(s), oc)
LookForAny(s, oc) == TryOrSearchOn(s, Chosen(s), oc)
RunResults(s, oc) ==
    IF oc = "nodump" THEN Fail([s EXCEPT !.w.retry_scan = FALSE]) ELSE LookForAny(Collect(s), oc)

FinishScan(s, oc) ==
    IF s.w.roam_scan THEN ProcessRoamScanResults([s EXCEPT !.w.roam_scan = FALSE], oc)
    ELSE RunResults(s, oc)

\* BUG: the firmware goes on scanning when a candidate is tried.
BugTryOrWaitOn(s, chosen, oc) ==
    IF chosen # {} THEN StartAttempt([Take(s, Only(chosen)) EXCEPT !.w.rotate = FALSE], oc) ELSE s

\* handle_sched_scan_results
TryOrWaitOn(s, chosen, oc) ==
    CASE chosen # {} ->
            StartAttempt(StopSchedScan([Take(s, Only(chosen)) EXCEPT !.w.rotate = FALSE]), oc)
      [] chosen = {} /\ NoSupport(s) -> Fail([s EXCEPT !.w.target = NoBss])
      [] OTHER -> [s EXCEPT !.w.target = NoBss]
LookForWoken(s, oc) == TryOrWaitOn(s, Chosen(s), oc)
HandleSchedResults(s, oc) == IF oc = "nodump" THEN Fail(s) ELSE LookForWoken(Collect(s), oc)

\* SCHED_SCAN_STOPPED while waiting for its results: the echo of a request,
\* after which a rotation goes on, or the firmware gave up.
HandleStoppedInWait(s, oc) ==
    IF s.w.stop_pending /\ ~s.w.rotate THEN [s EXCEPT !.w.stop_pending = FALSE]
    ELSE RestartSchedScan(IF s.w.stop_pending THEN [s EXCEPT !.w.stop_pending = FALSE, !.w.rotate = FALSE]
                          ELSE [s EXCEPT !.w.active = FALSE], oc)

\* The wait for the scheduled scan timed out.
RunSchedTimeout(s, oc) ==
    CASE s.w.stop_pending -> HandleStoppedInWait(s, oc)
      [] ~s.w.stop_pending /\ s.w.more -> StopSchedScan([s EXCEPT !.w.rotate = TRUE])
      [] OTHER -> Fail(s)

\* BUG: the SAE frame is sent again once too often.
BugRunAuthTimeout(s, oc) ==
    IF s.w.sent # "none" /\ s.w.sync <= MaxSync
    THEN SendSae([s EXCEPT !.w.sync = @ + 1], s.w.sent, oc) ELSE Fail(s)

\* No event came in Authenticating: an SAE frame is sent again MaxSync times,
\* H2E gives way to hunting and pecking, a PSK handshake counts as a wrong
\* password, a cached PMKSA as stale.
RunAuthTimeout(s, oc) ==
    LET w == s.w IN
    CASE w.sent # "none" /\ w.sync < MaxSync -> SendSae([s EXCEPT !.w.sync = @ + 1], w.sent, oc)
      [] w.sync = MaxSync /\ w.sent = "commit" /\ w.method = "h2e" /\ HnpFallbackAllowed(w) /\ ~w.hnp ->
            RestartSaeWithHnp(s, oc)
      [] OTHER -> IF Psk4WayInProgress(w) THEN FailAuth(s)
                  ELSE IF w.in_use # {} THEN PmksaFallback(s, oc) ELSE Fail(s)

\* The tick of the roam engine in Connected.
RunTick(s, oc) ==
    CASE s.w.post_at -> PostConnectScan(s, oc)
      [] ~s.w.post_at /\ s.w.cqm -> CheckBackgroundRoam(s, oc)
      [] OTHER -> CheckRoamConditions(s, oc)

\* handle_resume: a link the kernel lost is given up, a wait is cut short.
HandleResume(s, oc) ==
    CASE s.w.state = "Connected" ->
            IF oc = "err" THEN s
            ELSE IF s.k.assoc # NoBss THEN [s EXCEPT !.w = ArmWowlan(s.w)]
            ELSE MarkLinkLost(s, "scan", oc)
      [] s.w.state = "SchedScanWait" ->
            [StopSchedScan(s) EXCEPT !.w.hint_scan = FALSE, !.w.fast = "scan", !.w.state = "Init"]
      [] s.w.state = "Failed" -> [s EXCEPT !.w.fast = "scan"]
      [] OTHER -> s

---------------------------------------------------------------------------
(* run().                                                                  *)

\* retry_with_next_bss: after a failed attempt, without the cached PMKSA if
\* there was one; with the next BSS of the ESS, once the events of the failed
\* attempt are drained; or with a scan for any other network.
RetryScan(s, oc) ==
    LET t == [s EXCEPT !.w.retry_scan = TRUE, !.w.hint_scan = FALSE, !.w.wildcard_next = TRUE]
        Requested(u) == IF ScanStarts(s, oc) THEN Then(u, oc, "Scanning", "Scanning")
                        ELSE [u EXCEPT !.w.retry_scan = FALSE]
    IN  Requested(SendOutScanRequest(t, oc))
RetryWith(s, next, oc) ==
    IF next = {} THEN RetryScan(s, oc)
    ELSE Disconnect([s EXCEPT !.w.bss = Only(next).bss, !.w.net = Only(next).net,
                              !.w.pc = IF oc = "cut" THEN @ ELSE "drain"])
RetryWithNextBss(s, oc) ==
    LET t == [s EXCEPT !.w.ignored = @ \cup {s.w.bss}]
    IN  CASE s.w.bss = NoBss -> s
          [] s.w.bss # NoBss /\ s.w.in_use # {} -> PmksaFallback(s, oc)
          [] OTHER -> RetryWith(t, BestRetry(s.w.cands, s.w.bss, s.w.net.ssid, t.w.ignored), oc)

\* The end of the drain: the next BSS is tried.
FinishDrain(s, oc) == StartAttempt([s EXCEPT !.w.pc = "run"], oc)

\* run() after an iteration that began in p: a link that came up forgets
\* the failures and looks for a better BSS soon, a failed attempt goes on
\* with the next one.  The return from a roam scan is no new link.
AfterRun(p, s, oc) ==
    CASE /\ p.pc = "run" /\ s.w.state = "Connected" /\ p.state # "Connected"
         /\ ~(p.state = "Scanning" /\ p.pre # "none") ->
            [s EXCEPT !.w = ArmPostConnect([s.w EXCEPT !.ignored = {}])]
      [] p.pc = "run" /\ p.state = "Authenticating" /\ s.w.state = "Failed" ->
            RetryWithNextBss(s, oc)
      [] OTHER -> s

---------------------------------------------------------------------------
(* update_networks.                                                        *)

\* pmksa_stale_ssids: networks that are gone or have other credentials.
StaleSsids(old, new) ==
    {old[i].ssid : i \in {i \in DOMAIN old : ~\E j \in DOMAIN new :
        /\ new[j].ssid = old[i].ssid
        /\ new[j].password = old[i].password /\ new[j].eap = old[i].eap}}

\* same_network_contents: the lists differ at most in their order.
SameNetworks(old, new) ==
    /\ Len(old) = Len(new)
    /\ \A i \in DOMAIN old :
          Cardinality({j \in DOMAIN old : old[j] = old[i]})
              = Cardinality({j \in DOMAIN new : new[j] = old[i]})

\* ScanEngine::reset_rotation
ResetRotation(w) ==
    [w EXCEPT !.cursor = 0, !.sched_cursor = 0, !.wildcard_next = TRUE, !.more = FALSE,
              !.rotate = FALSE, !.hint_scan = TRUE, !.retry_scan = FALSE]

\* Link::reset_for_update, AuthSession::reset and RoamEngine::reset.
ResetLink(w) ==
    [ClearAttempt(w) EXCEPT
        !.net = w.nets[1], !.bss = NoBss, !.ft_ptk = FALSE, !.owe = FALSE,
        !.roam_scan = FALSE, !.pre = "none", !.target = NoBss, !.cands = {}, !.freqs = {},
        !.full = FALSE, !.nr = FALSE, !.cooldown = FALSE, !.cqm = FALSE, !.post = FALSE,
        !.ignored = {}, !.fast = "none", !.state = "Init"]

\* connection_is_live
Live(w) == "Connected" \in {w.state, w.pre}

\* invalidate_pmksa_for_ssid, for the networks that changed.
DropStale(w, new) ==
    [w EXCEPT !.cache = Pmk!RemoveSsid(@, StaleSsids(w.nets, new)),
              !.in_use = Pmk!RemoveSsid(@, StaleSsids(w.nets, new))]

\* network_update_action other than Restart: nothing changed but the order, or
\* the target of the attempt in flight is still configured as it was.
KeepsAttempt(w, new) ==
    \/ SameNetworks(w.nets, new)
    \/ /\ w.state \in {"Scanning", "Authenticating"}
       /\ \E i \in DOMAIN new : new[i] = w.net

\* update_networks.  Run outside run(), which it interrupts.
UpdateNetworks(s, new) ==
    LET w == [DropStale(s.w, new) EXCEPT !.pc = "run"]
        adopted == [w EXCEPT !.nets = new]
        kept == /\ Live(w)
                /\ \E i \in DOMAIN new : new[i].ssid = w.net.ssid /\ MatchesBssid(new[i], w.bss)
        t == StopSchedScan([s EXCEPT !.w = ResetRotation(adopted)])
        u == IF Live(w) THEN Disconnect([t EXCEPT !.w.wowlan = FALSE]) ELSE t
    IN  CASE SameNetworks(w.nets, new) -> [s EXCEPT !.w = adopted]
          [] ~SameNetworks(w.nets, new) /\ (KeepsAttempt(w, new) \/ kept) -> [s EXCEPT !.w = ResetRotation(adopted)]
          [] OTHER -> [u EXCEPT !.w = ResetLink(u.w)]
=============================================================================
