----------------------------- MODULE WifiEvents -----------------------------
(***************************************************************************)
(* handle_client_event and handle_event of a WiFi interface (wifi/client/  *)
(* events.rs): what each nl80211 notification and each EAPOL frame does to  *)
(* the interface, in whatever state it finds it.  The 4-way handshake is    *)
(* two events here, Message 1 and Message 3; Supplicant has its frames.     *)
(***************************************************************************)
EXTENDS WifiRoam

\* is_recoverable and is_fatal_disconnect_reason
Recoverable == {"inactive"}
Fatal == {"credentials"}

\* classify_fast_reconnect: the same BSS again after a recoverable reason of
\* the access point's own, else a scan.
ClassifyFastReconnect(w, ev) ==
    IF ev.ap /\ ev.reason \in Recoverable /\ w.bss # NoBss /\ w.bss \notin w.ignored
    THEN "same" ELSE "scan"

\* is_psk_4way_in_progress
Psk4WayInProgress(w) ==
    w.state = "Authenticating" /\ w.in_use = {} /\ w.fourway /\ Sec(w.bss) \in PskFamily

\* could_be_psk_mismatch
CouldBePskMismatch(w, ev) == ev.ap /\ Psk4WayInProgress(w)

\* pmksa_rejected_by_deauth
PmksaRejectedByDeauth(w, ev) ==
    /\ w.state = "Authenticating" /\ Sec(w.bss) \in SaeFamily
    /\ w.in_use # {} /\ ~w.fourway /\ ev.ap /\ ev.reason = "unassociated"

\* BUG: a result is applied in any state.
BugAssociationResultApplies(w) == TRUE

\* association_result_applies, the guard of every association result.
AssociationResultApplies(w) == w.state = "Authenticating"

---------------------------------------------------------------------------

\* handle_ap_disconnect: in Connected the link is lost; during a roam scan
\* too; during a 4-way handshake the passphrase is taken to be wrong; in any
\* other state the notification is about an older link.
HandleApDisconnect(s, ev, oc) ==
    LET w == s.w IN
    IF w.ft_roam # NoBss THEN s
    ELSE
    CASE w.state = "Connected" ->
            IF ev.reason \in Fatal THEN FailAuth(Disconnect(s))
            ELSE MarkLinkLost(s, ClassifyFastReconnect(w, ev), oc)
      [] w.state = "Scanning" /\ w.pre # "none" ->
            MarkLinkLost([s EXCEPT !.w.roam_scan = FALSE, !.w.pre = "none", !.w.target = NoBss],
                         "scan", oc)
      [] CouldBePskMismatch(w, ev) -> FailAuth(Disconnect(s))
      [] PmksaRejectedByDeauth(w, ev) -> PmksaFallback(s, oc)
      [] OTHER -> s

\* BUG: an end of the link during a roam scan is taken for an older one.
BugHandleDisconnect(s, ev, oc) ==
    IF s.w.state = "Connected" \/ Psk4WayInProgress(s.w) THEN HandleApDisconnect(s, ev, oc) ELSE s

\* Nl80211Event::Disconnect passes on only what can concern the link.
HandleDisconnect(s, ev, oc) ==
    IF \/ s.w.state = "Connected"
       \/ Psk4WayInProgress(s.w)
       \/ s.w.state = "Scanning" /\ s.w.pre # "none"
    THEN HandleApDisconnect(s, ev, oc) ELSE s

\* Nl80211Event::Authenticated.  The answer is read as the step the client is
\* at, whichever attempt it belongs to; SAE frames are only looked at for two
\* of the SAE AKMs.
HandleAuthenticated(s, ev, oc) ==
    LET w == s.w IN
    IF w.fullmac THEN s
    ELSE
    CASE w.ft_roam # NoBss -> HandleFtAuthResponse(s, ev.ok /\ ev.frame = "ft", oc)
      [] w.ft_roam = NoBss /\ w.in_use # {} ->
            IF ev.ok THEN DoAssociate(s, oc) ELSE PmksaFallback(s, oc)
      [] w.ft_roam = NoBss /\ w.in_use = {} /\ Sec(w.bss) \notin {"Sae", "FtSae"} ->
            IF ev.ok THEN DoAssociate(s, oc) ELSE Fail(s)
      [] OTHER -> IF ev.frame # "none" THEN HandleAuthFrame(s, ev, oc)
                  ELSE IF ev.ok THEN s ELSE FailAuth(s)

\* handle_control_port_frame, Message 1: the answer carries a key derived
\* from the PMK of this attempt.  With an FT AKM the frame waits for the
\* association response; one that finds a handshake counts as a rekey.  A
\* handshake that is begun has an SNonce of its own, under which a Message 3
\* still under way from an earlier one does not verify.
Outdated(q) ==
    [i \in DOMAIN q |-> IF q[i].type = "Message3" THEN [q[i] EXCEPT !.ok = FALSE] ELSE q[i]]
HandleMessage1(s, oc) ==
    LET w == s.w
        t == [s EXCEPT !.w.rekey = w.fourway]
        u == [t EXCEPT !.w.fourway = TRUE, !.q = IF w.fourway THEN @ ELSE Outdated(@)]
        early == Sec(w.bss) \in FtFamily /\ w.ft = 0
        keyless == Sec(w.bss) \notin FtFamily /\ ~w.fourway /\ ~HasPmk(w)
        refused == oc = "err" \/ s.k.assoc # w.bss
    IN  CASE early -> [s EXCEPT !.w.pending = TRUE]
          [] keyless -> Fail(t)
          [] ~early /\ ~keyless /\ refused -> Fail(u)
          [] OTHER -> [u EXCEPT !.k.hs = IF @ = "m1" THEN "m2" ELSE @, !.k.pmk = PmkInUse(w)]

\* Message 3: keys are installed, the PMKSA is cached unless this is a rekey,
\* and the link is up.  oc = "err" is a key the kernel does not take.
HandleMessage3(s, ev, oc) ==
    LET w == s.w
        installed == [s EXCEPT !.k.hs = IF @ = "m3" THEN "done" ELSE @]
        good == w.fourway /\ ev.ok
        refused == oc = "err" \/ s.k.assoc # w.bss
    IN  CASE ~w.fourway \/ (good /\ refused) -> Fail(s)
          [] w.fourway /\ ~ev.ok /\ w.in_use # {} -> PmksaFallback(s, oc)
          [] w.fourway /\ ~ev.ok /\ w.in_use = {} ->
                IF Sec(w.bss) \in PskFamily THEN FailAuth(s) ELSE Fail(s)
          [] good /\ ~refused /\ oc = "cut" -> installed
          [] OTHER -> Up([installed EXCEPT !.w = IF w.rekey THEN w ELSE CachePmksa(w)])

\* handle_eap_frame, for the end of the exchange: Success leaves the PMK for
\* the 4-way handshake, Failure is a rejection.
HandleEap(s, ev) ==
    IF Sec(s.w.bss) \notin Enterprise THEN s
    ELSE IF ev.ok THEN [s EXCEPT !.w.eap = TRUE] ELSE FailAuth(s)

\* BUG: the link is up before its keys are.
BugHandleAssociationSuccess(s, ies, oc) ==
    IF Sec(s.w.bss) \in {"Open", "Owe"} THEN Up(s) ELSE s

\* handle_association_success: an open link is up, the others wait for the
\* 4-way handshake; FT first derives its keys, and then reads the Message 1
\* that came too early.  ies says that the response has the elements OWE and
\* FT need: OWE without its DH element and FT without its key holders fail.
HandleAssociationSuccess(s, ies, oc) ==
    LET w == s.w
        ft == [s EXCEPT !.w.ft = Ap[w.bss].mdid, !.w.pending = FALSE]
    IN  CASE Sec(w.bss) = "Open" -> Up(s)
          [] Sec(w.bss) = "Owe" -> IF ies THEN [s EXCEPT !.w.owe = TRUE] ELSE Fail(s)
          [] Sec(w.bss) \in FtFamily ->
                IF ~ies \/ ~HasXxkey(w) THEN Fail(s)
                ELSE IF w.pending THEN HandleMessage1(ft, oc) ELSE ft
          [] OTHER -> s

\* Nl80211Event::Associated
HandleAssociated(s, ev, oc) ==
    LET w == s.w IN
    IF w.fullmac \/ ~AssociationResultApplies(w) THEN s
    ELSE
    CASE w.ft_roam # NoBss ->
            IF ev.ok THEN HandleFtAssocResponse(s, ev.ies, oc) ELSE Fail([s EXCEPT !.w.ft_roam = NoBss])
      [] w.ft_roam = NoBss /\ ev.ok -> HandleAssociationSuccess(s, ev.ies, oc)
      [] w.ft_roam = NoBss /\ ~ev.ok /\ w.in_use # {} ->
            [PmksaFallback(s, oc) EXCEPT !.w.stale_connect = TRUE]
      [] OTHER -> Fail(s)

\* Nl80211Event::ConnectResult: the result of CONNECT, or the echo of an
\* ASSOCIATE that failed, which is ignored once if the fallback already ran.
HandleConnectResult(s, ev, oc) ==
    LET w == s.w
        t == [s EXCEPT !.w.stale_connect = FALSE]
    IN  IF ev.ok
        THEN IF w.fullmac /\ AssociationResultApplies(w) THEN HandleAssociationSuccess(t, ev.ies, oc) ELSE t
        ELSE CASE w.stale_connect -> t
               [] ~w.stale_connect /\ w.fullmac /\ w.in_use # {} -> PmksaFallback(t, oc)
               [] OTHER -> Fail(t)

\* handle_wowlan_wakeup: the triggers are cleared, and the link is rebuilt
\* when the wake says that it cannot be trusted any more.
HandleWowlanWakeup(s, ev, oc) ==
    LET t == [s EXCEPT !.w.wowlan = FALSE] IN
    CASE s.w.state # "Connected" -> t
      [] OTHER -> IF ev.lost THEN MarkLinkLost(t, "scan", oc) ELSE [t EXCEPT !.w = ArmWowlan(t.w)]

\* Nl80211Event::Unknown: the echo of a stop request, wherever it arrives;
\* a roam of a FullMAC firmware is a lost link.
HandleSchedStopped(s) == [s EXCEPT !.w.stop_pending = FALSE]
HandleFirmwareRoam(s, oc) ==
    IF s.w.fullmac THEN MarkLinkLost(s, "scan", oc) ELSE s

\* handle_event
HandleEvent(s, ev, oc) ==
    CASE ev.type = "Authenticated" -> HandleAuthenticated(s, ev, oc)
      [] ev.type = "Associated" -> HandleAssociated(s, ev, oc)
      [] ev.type = "ConnectResult" -> HandleConnectResult(s, ev, oc)
      [] ev.type = "Message1" -> HandleMessage1(s, oc)
      [] ev.type = "Message3" -> HandleMessage3(s, ev, oc)
      [] ev.type = "Eap" -> HandleEap(s, ev)
      [] ev.type = "Disconnect" -> HandleDisconnect(s, ev, oc)
      [] ev.type = "Deauth" -> HandleApDisconnect(s, ev, oc)
      [] ev.type = "Cqm" -> HandleCqm(s, ev.low, oc)
      [] ev.type = "Btm" -> HandleBtm(s, ev, oc)
      [] ev.type = "NeighborReport" -> HandleRrm(s, ev)
      [] ev.type = "Wakeup" -> HandleWowlanWakeup(s, ev, oc)
      [] ev.type = "SchedStopped" -> HandleSchedStopped(s)
      [] ev.type = "Roam" -> HandleFirmwareRoam(s, oc)
      [] OTHER -> s
=============================================================================
