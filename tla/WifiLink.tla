------------------------------ MODULE WifiLink ------------------------------
(***************************************************************************)
(* The state of one WiFi interface (WifiIface and its ScanEngine, Link,    *)
(* AuthSession and RoamEngine, wifi/client/state.rs), the nl80211 requests *)
(* it makes, and the ways in which a connection attempt starts: the        *)
(* AUTHENTICATE, CONNECT and ASSOCIATE requests of auth.rs, connect.rs and *)
(* associate.rs, the SAE frames, and the use of the PMKSA cache.           *)
(*                                                                         *)
(* A handler of the code is an operator from a state s = [w, k, q] to the  *)
(* state it leaves: w is the interface, k the kernel with the access points *)
(* behind it, q the events the interface has not read yet.  Where the code  *)
(* awaits the answer to a request, oc says how it goes: "ok", "err" (the    *)
(* kernel refuses) or "cut" (the kernel does it, but the future of run()    *)
(* is dropped at that await and the rest of the handler never executes).    *)
(*                                                                         *)
(* The kernel k: req is the request the access point has not answered,      *)
(* authed and assoc are the BSSes mac80211 is authenticated to and          *)
(* associated with, hs the progress of the 4-way handshake of assoc and pmk *)
(* the PMK the client answered Message 1 with; scan and sched are the scans *)
(* running, found what the last scan heard, sig the signal of each BSS (0   *)
(* is out of range), nr a neighbor report that was asked for.               *)
(***************************************************************************)
EXTENDS WifiSelect

CONSTANTS
    Password,     \* passwords, positive naturals
    Lifetime, Reauth, MaxEntries,   \* of the PMKSA cache
    MaxSync,      \* SAE_SYNC_MAX
    MaxScanSsids, \* caps.max_scan_ssids
    SchedCap      \* caps.max_sched_scan_ssids, 0 if there is no firmware scan

VARIABLES wifi, kern, queue

\* The PMKSA cache, with its entries in wifi.cache and wifi.in_use.
Pmk == INSTANCE Pmksa WITH
    Keys <- {<<Ap[b].ssid, b, Sec(b)>> : b \in Bss}, Pmk <- Password,
    cache <- wifi.cache, in_use <- wifi.in_use

NoReq == [op |-> "none", bss |-> NoBss, kind |-> "none"]
NoScan == [on |-> FALSE, chans |-> {}, probe |-> {}]

LinkKey(w) == <<w.net.ssid, w.bss, Sec(w.bss)>>

\* What is left of a handler after an awaited request.
Then(s, oc, ok, err) ==
    CASE oc = "ok" -> [s EXCEPT !.w.state = ok]
      [] oc = "err" -> [s EXCEPT !.w.state = err]
      [] oc = "cut" -> s

\* fail_auth
FailAuth(s) == [s EXCEPT !.w.fast = "none", !.w.state = "FailedAuthentication"]

Fail(s) == [s EXCEPT !.w.state = "Failed"]

---------------------------------------------------------------------------
(* Requests.                                                               *)

\* The notification of a link that ended, as cfg80211 sends it.
Ended(fromAp) == [type |-> "Disconnect", ap |-> fromAp, reason |-> "other"]

\* DISCONNECT: the kernel gives up the link and every attempt, and announces
\* the end of an association.
Disconnect(s) ==
    [s EXCEPT !.k.req = NoReq, !.k.authed = NoBss, !.k.assoc = NoBss, !.k.hs = "none",
              !.q = IF s.k.assoc = NoBss THEN @ ELSE Append(@, Ended(FALSE))]

\* AUTHENTICATE: refused with -EALREADY while associated, which the client
\* answers with DISCONNECT and a second try; an FT authentication drops the
\* old association itself.
Authenticate(s, b, kind) ==
    [Disconnect(s) EXCEPT !.k.req = [op |-> "auth", bss |-> b, kind |-> kind]]

\* CONNECT of a FullMAC driver, with the same recovery.
ConnectRequest(s, b, kind) ==
    [Disconnect(s) EXCEPT !.k.req = [op |-> "connect", bss |-> b, kind |-> kind]]

\* ASSOCIATE: mac80211 wants an authenticated BSS and no other association.
CanAssociate(s, b) == b # NoBss /\ s.k.authed = b /\ s.k.assoc = NoBss /\ s.k.req = NoReq
Associate(s, b, kind) ==
    [s EXCEPT !.k.req = [op |-> "assoc", bss |-> b, kind |-> kind]]

---------------------------------------------------------------------------
(* Starting an attempt.                                                    *)

\* What every attempt begins with.
ClearAttempt(w) ==
    [w EXCEPT !.method = "none", !.sent = "none", !.sync = 0, !.hnp = FALSE,
              !.fourway = FALSE, !.ft = 0, !.ft_roam = NoBss, !.psk = 0,
              !.in_use = {}, !.stale_connect = FALSE, !.rekey = FALSE,
              !.pending = FALSE, !.eap = FALSE]

\* The PMKSA of the target, for the AKMs that have one.
OfferPmksa(w) ==
    [w EXCEPT !.in_use = IF Sec(w.bss) \in PskFamily \cup SaeFamily
                         THEN Pmk!Lookup(w.cache, LinkKey(w)) ELSE {},
              !.cache = Pmk!RemoveExpired(@)]

\* ext_key, sae_pwe and the access point's RSNXE decide how SAE starts.
SaeStart(b) == IF Ap[b].h2e \/ Sec(b) \in {"SaeExtKey", "FtSaeExtKey"} THEN "h2e" ELSE "hnp"
HnpFallbackAllowed(w) == Sec(w.bss) \notin {"SaeExtKey", "FtSaeExtKey"}

\* send_out_connect_request
SendOutConnectRequest(s) ==
    ConnectRequest(s, s.w.bss, IF s.w.in_use # {} THEN "pmkid" ELSE "full")

\* send_out_auth_request; its Err is the caller's.
SendOutAuthRequest(s, oc) ==
    LET Full(w, family) == w.in_use = {} /\ Sec(w.bss) \in family
        Prepared(w) ==
            [w EXCEPT !.psk = IF Full(w, PskFamily) THEN w.net.password ELSE 0,
                      !.method = IF ~w.fullmac /\ Full(w, SaeFamily) THEN SaeStart(w.bss) ELSE "none"]
        Send(t) ==
            CASE oc = "err" -> t
              [] oc # "err" /\ t.w.fullmac -> SendOutConnectRequest(t)
              [] oc # "err" /\ ~t.w.fullmac /\ t.w.method = "none" -> Authenticate(t, t.w.bss, "open")
              [] OTHER -> [Authenticate(t, t.w.bss, t.w.method) EXCEPT
                              !.w.sent = IF oc = "ok" THEN "commit" ELSE @]
    IN  Send([s EXCEPT !.w = Prepared(OfferPmksa(ClearAttempt(s.w)))])

\* The end of a state that starts an attempt: Err out of _run leaves it in
\* Failed, whatever the attempt was.
StartAttempt(s, oc) == Then(SendOutAuthRequest(s, oc), oc, "Authenticating", "Failed")

\* pmksa_fallback: drop the entry that was offered and authenticate in full.
PmksaFallback(s, oc) ==
    StartAttempt([s EXCEPT !.w.cache = {e \in @ : \A d \in s.w.in_use : e.key # d.key},
                           !.w.in_use = {}], oc)

---------------------------------------------------------------------------
(* SAE.                                                                    *)

\* send_sae_commit and send_sae_confirm
SendSae(s, what, oc) ==
    IF oc = "err" THEN Fail(s)
    ELSE [Authenticate(s, s.w.bss, IF what = "commit" THEN s.w.method ELSE what) EXCEPT
             !.w.sent = IF oc = "cut" THEN @ ELSE what]

\* restart_sae_with_hnp
RestartSaeWithHnp(s, oc) ==
    SendSae([s EXCEPT !.w.method = "hnp", !.w.hnp = TRUE, !.w.sync = 0], "commit", oc)

\* associate and associate_with_pmksa: an ASSOCIATE that the kernel refuses
\* fails the attempt, or the cached entry.
DoAssociate(s, oc) ==
    LET refused == \/ oc = "err"
                   \/ ~CanAssociate(s, s.w.bss)
                   \/ Sec(s.w.bss) \in FtFamily /\ Ap[s.w.bss].mdid = 0
        kind == IF s.w.in_use # {} THEN "pmkid" ELSE "full"
    IN  CASE refused /\ s.w.in_use # {} -> PmksaFallback(s, "ok")
          [] refused /\ s.w.in_use = {} -> Fail(s)
          [] OTHER -> Associate([s EXCEPT !.w.owe = FALSE], s.w.bss, kind)

\* process_sae_frame and handle_auth_frame: the client reads frame ev of the
\* access point.  "busy" is a temporary refusal, "refused" a status that
\* rejects the commit, "mismatch" a confirm that does not verify.
HandleAuthFrame(s, ev, oc) ==
    LET w == s.w IN
    IF w.method \in {"none", "done"} \/ ev.bss # w.bss THEN s
    ELSE
    CASE ev.frame \in {"token", "commit"} ->
            SendSae([s EXCEPT !.w.sync = 0], IF ev.frame = "token" THEN "commit" ELSE "confirm", oc)
      [] ev.frame = "busy" -> IF w.sync < MaxSync THEN s ELSE Fail(s)
      [] ev.frame = "refused" ->
            IF w.method = "h2e" /\ HnpFallbackAllowed(w) THEN RestartSaeWithHnp(s, oc)
            ELSE FailAuth(s)
      [] ev.frame = "mismatch" -> FailAuth(s)
      [] ev.frame = "confirm" -> DoAssociate([s EXCEPT !.w.method = "done", !.w.sent = "none"], oc)
      [] OTHER -> s

---------------------------------------------------------------------------
(* A link that is up.                                                      *)

\* The PMK of the handshake: the cached one, the one from the passphrase, or
\* what SAE agreed on; OWE and EAP make one of their own, which has no name.
HasPmk(w) ==
    CASE w.in_use # {} -> TRUE
      [] w.in_use = {} /\ Sec(w.bss) \in PskFamily -> w.psk # 0
      [] w.in_use = {} /\ Sec(w.bss) = "Owe" -> w.owe
      [] w.in_use = {} /\ Sec(w.bss) \in Enterprise -> w.eap
      [] OTHER -> w.method = "done"
PmkInUse(w) ==
    IF w.in_use # {} THEN (CHOOSE e \in w.in_use : TRUE).pmk
    ELSE IF Sec(w.bss) \in PskFamily THEN w.psk ELSE w.net.password

\* BUG: a PMKSA that was reused is given a new lifetime.
BugCachePmksa(w) ==
    IF HasPmk(w) /\ PmkInUse(w) # 0
    THEN [w EXCEPT !.cache = Pmk!Insert(@, Pmk!NewEntry(LinkKey(w), PmkInUse(w))), !.in_use = {}]
    ELSE w

\* cache_pmksa: an entry that was reused keeps its lifetime, a new one is
\* made for the AKMs whose PMK the next association can use.
CachePmksa(w) ==
    CASE w.in_use # {} ->
            [w EXCEPT !.cache = Pmk!Insert(@, CHOOSE e \in w.in_use : TRUE), !.in_use = {}]
      [] /\ w.in_use = {}
         /\ Sec(w.bss) \in {"Sae", "SaeExtKey", "Wpa2Psk", "Wpa2PskSha256"}
         /\ HasPmk(w) ->
            [w EXCEPT !.cache = Pmk!Insert(@, Pmk!NewEntry(LinkKey(w), PmkInUse(w)))]
      [] OTHER -> w

\* arm_wowlan_if_enabled
ArmWowlan(w) == [w EXCEPT !.wowlan = @ \/ w.net.wowlan]

Up(s) == [s EXCEPT !.w = [ArmWowlan(s.w) EXCEPT !.fast = "none", !.state = "Connected"]]

\* mark_link_lost: DISCONNECT, then the retry loop takes over.
MarkLinkLost(s, fast, oc) ==
    LET t == Disconnect([s EXCEPT !.w.post_at = FALSE, !.w.post = FALSE])
    IN  IF oc = "cut" THEN t ELSE Fail([t EXCEPT !.w.fast = fast])
=============================================================================
