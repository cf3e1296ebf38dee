----------------------------- MODULE Supplicant -----------------------------
(***************************************************************************)
(* handle_control_port_frame and the connection attempt around it (wifi/   *)
(* client/events.rs, auth.rs, associate.rs), talking over a lossy FIFO     *)
(* link to an honest authenticator that has the same PMK.  FourWay gives   *)
(* the FourWayState operations; this module decides when they run, what is *)
(* installed in the kernel, handed to the driver for GTK rekey offload and *)
(* put in the PMKSA cache, and which WifiState results.                    *)
(*                                                                         *)
(* The authenticator (external: hostapd) increments its replay counter for *)
(* every frame it sends, retransmits Message 1 and Message 3 when no reply *)
(* came, and may rekey the PTK or the GTK of an established link.          *)
(***************************************************************************)
EXTENDS FourWay, Sequences

CONSTANT
    Setups      \* the networks, links and bounds to look at

Bounds == {"assoc", "rekey", "retry", "group", "loss", "fail"}

ASSUME SupplicantAssumption ==
    \A s \in Setups :
        /\ s.security \in {"psk", "sae", "ft"}
        /\ {s.raw_port, s.offload, s.any_outstanding, s.group_during_ptk, s.prompt} \subseteq BOOLEAN
        /\ s.max \in [Bounds -> Nat] /\ s.max.assoc > 0
        /\ LET handshakes == s.max.assoc + s.max.rekey
           IN  /\ 1..handshakes \subseteq ANonce          \* a fresh one for each
               /\ 0..(2 * handshakes + s.max.retry + s.max.group) \subseteq Counter

VARIABLES
    state,      \* WifiState
    ptk_rekey,  \* link.ptk_rekey
    ft,         \* link.ft.is_some()
    ft_msg1,    \* link.pending_ft_msg1, a sequence of at most one frame
    in_use,     \* link.pmksa_in_use.is_some()
    cached,     \* the PMKSA cache holds an entry for the BSS
    kernel,     \* [ptk, gtk]: keys installed with NEW_KEY, gtk 0 when none
    offload,    \* the PTK whose KCK and KEK the driver has for GTK rekeys
    toSta, toAp,
    ap,         \* the authenticator
    spent,      \* what is used up of each bound
    setup       \* the one of Setups that this behaviour is about

linkVars == <<ptk_rekey, ft, ft_msg1, in_use, cached>>
keyVars == <<kernel, offload>>
svars == <<vars, state, linkVars, keyVars, toSta, toAp, ap, spent, setup>>

Security == setup.security                  \* how the PMK and its hierarchy come
RawPort == setup.raw_port                   \* EAPOL over a packet socket, not nl80211
Offload == setup.offload                    \* the driver accepts SET_REKEY_OFFLOAD
AnyOutstanding == setup.any_outstanding     \* the AP takes the reply to any Message 1
                                            \* still outstanding, not only to the last
GroupDuringPtk == setup.group_during_ptk    \* the AP may rekey the GTK while a PTK
                                            \* rekey is at Message 1
Prompt == setup.prompt                      \* the client waits longer than frames take

IdleAp == [phase |-> "idle", rc |-> 0, an |-> NoNonce, ptk |-> NoPtk,
           gtk |-> 1, acked |-> 0, sent |-> {}, gsent |-> {}]

\* The first connection attempt: send_out_auth_request has just returned.
SInit ==
    /\ setup \in Setups
    /\ Init
    /\ state = "Authenticating"
    /\ ptk_rekey = FALSE
    /\ ft = FALSE
    /\ ft_msg1 = <<>>
    /\ in_use = FALSE
    /\ cached = FALSE
    /\ kernel = [ptk |-> NoPtk, gtk |-> 0]
    /\ offload = NoPtk
    /\ toSta = <<>>
    /\ toAp = <<>>
    /\ ap = IdleAp
    /\ spent = [assoc |-> 1, starts |-> 0, rekey |-> 0, retry |-> 0, group |-> 0,
                loss |-> 0, fail |-> 0]

CanSpend(what) == spent[what] < setup.max[what]
Spend(what) == spent' = [spent EXCEPT ![what] = @ + 1]

---------------------------------------------------------------------------
(* The connection attempt. *)

\* BUG: only the replay counter of the old 4-way state is reset.
BugResetFourWay ==
    /\ replay_counter' = 0
    /\ replay_counter_set' = FALSE
    /\ UNCHANGED <<present, anonce, snonce, ptk, tptk, pending_replay_counter,
                   drawn, proved, accepted, replayed>>

ResetFourWay == Forget

\* send_out_auth_request, and what follows at the other end: the AP starts
\* over for the new association and mac80211 drops the old keys.  Frames the
\* client has not read yet may survive in its socket.
SendOutAuthRequest(cost) ==
    \E refused \in {0, 1} :
        /\ CanSpend("assoc")
        /\ spent.fail + cost + refused <= setup.max.fail
        /\ spent' = [spent EXCEPT !.assoc = @ + 1, !.fail = @ + cost + refused]
        /\ ResetFourWay
        /\ ptk_rekey' = FALSE
        /\ ft' = FALSE
        /\ ft_msg1' = <<>>
        /\ in_use' = cached'
        /\ kernel' = [ptk |-> NoPtk, gtk |-> 0]
        /\ offload' = NoPtk
        /\ toSta' \in IF Prompt THEN {<<>>} ELSE {<<>>, toSta}
        /\ toAp' = <<>>
        /\ ap' = [IdleAp EXCEPT !.gtk = ap.gtk]
        /\ state' = IF refused = 1 THEN "Failed" ELSE "Authenticating"

\* The retry wait of Failed and FailedAuthentication is over; the scan that
\* follows selects the same BSS again.
Reconnect ==
    /\ state \in {"Failed", "FailedAuthentication"}
    /\ UNCHANGED cached
    /\ SendOutAuthRequest(0)

\* pmksa_fallback: the cached entry is dropped and full authentication starts
\* at once.
PmksaFallback(cost) ==
    /\ in_use
    /\ cached' = FALSE
    /\ SendOutAuthRequest(cost)

Fail(s) ==
    /\ state' = s
    /\ UNCHANGED <<kernel, offload, cached, in_use>>

\* Nothing is on its way to the client or the AP.
Quiet ==
    /\ toSta = <<>> /\ toAp = <<>>
    /\ Security = "ft" /\ state = "Authenticating" => ft

\* The 15 s authentication timeout of the Authenticating state.
AuthTimeout ==
    /\ state = "Authenticating"
    /\ Prompt => Quiet /\ ap.phase # "idle"
    /\ \/ PmksaFallback(0)
       \/ /\ ~in_use
          /\ Fail(IF present /\ Security # "sae" THEN "FailedAuthentication"
                                                 ELSE "Failed")
          /\ UNCHANGED <<vars, ptk_rekey, ft, ft_msg1, toSta, toAp, ap, spent>>

---------------------------------------------------------------------------
(* handle_control_port_frame on the frame m. *)

Reply(type, m, key) ==
    toAp' = Append(toAp, [type |-> type, rc |-> m.rc, mic |-> key])

\* A netlink request fails, or the AP's key data is not acceptable.
Mishap == CanSpend("fail") /\ Spend("fail")

\* A Message 1 that meets a 4-way state counts as a PTK rekey.
PtkRekey == present

\* There may be no PMK yet for a Message 1 that is older than the attempt: the
\* SAE exchange has not ended before the AP starts.
Keyless == Security = "sae" /\ ~in_use /\ ap.phase = "idle"

\* Message 1 once the key hierarchy is known.
AnswerMessage1(m) ==
    /\ ptk_rekey' = PtkRekey
    /\ ft_msg1' = <<>>
    /\ UNCHANGED <<in_use, cached, keyVars>>
    /\ \/ /\ FirstMessage1(m.an, m.rc) \/ NextMessage1(m.an, m.rc)
          /\ \/ Reply("m2", m, tptk') /\ UNCHANGED <<state, spent>>
             \/ Mishap /\ state' = "Failed" /\ UNCHANGED toAp
       \/ /\ IF present THEN ~Message1Accepted(m.an, m.rc) ELSE Keyless
          /\ state' = "Failed"
          /\ UNCHANGED <<vars, toAp, spent>>

\* Message 1 without an FT context is kept until the association response.
BufferMessage1(m) ==
    /\ ft_msg1' = <<m>>
    /\ UNCHANGED <<vars, state, ptk_rekey, in_use, cached, keyVars, toAp, spent>>

HandleMessage1(m) ==
    /\ m.type = "m1"
    /\ UNCHANGED <<ft, ap>>
    /\ IF Security = "ft" /\ ~ft THEN BufferMessage1(m) ELSE AnswerMessage1(m)

\* cache_pmksa: a reused entry is put back, FT hierarchies are not cached here.
CachePmksa ==
    /\ cached' = (cached \/ Security # "ft")
    /\ in_use' = FALSE

\* A PTK rekey of the live link must not extend the lifetime of the PMKSA.
MaybeCachePmksa == IF ptk_rekey THEN UNCHANGED <<cached, in_use>> ELSE CachePmksa

\* try_offload_rekey hands kck() and kek() over, which prefer a staged PTK.
TryOffloadRekey(staged, live) ==
    offload' = IF ~Offload THEN offload
               ELSE IF staged # NoPtk THEN staged ELSE live

\* BUG: the PTK is installed by the first handshake only.
BugInstallKeys(m) ==
    /\ Reply("m4", m, ptk')
    /\ kernel' = [ptk |-> IF ptk_rekey THEN kernel.ptk ELSE ptk', gtk |-> m.gtk]
    /\ MaybeCachePmksa
    /\ TryOffloadRekey(tptk', ptk')
    /\ state' = "Connected"
    /\ UNCHANGED spent

\* An accepted Message 3: Message 4, PTK, GTK, PMKSA, offload, Connected.
\* The first request that fails ends it in Failed, and Message 4 is refused
\* once the AP has ended the association.
InstallKeys(m) ==
    \/ /\ Fail("Failed")
       /\ Mishap \/ (ap.phase = "gone" /\ UNCHANGED spent)
       /\ UNCHANGED toAp
    \/ /\ ap.phase # "gone"
       /\ Reply("m4", m, ptk')
       /\ Mishap
       /\ state' = "Failed"
       /\ kernel' \in {kernel, [kernel EXCEPT !.ptk = ptk']}
       /\ UNCHANGED <<offload, cached, in_use>>
    \/ /\ ap.phase # "gone"
       /\ Reply("m4", m, ptk')
       /\ kernel' = [ptk |-> ptk', gtk |-> m.gtk]
       /\ MaybeCachePmksa
       /\ TryOffloadRekey(tptk', ptk')
       /\ state' = "Connected"
       /\ UNCHANGED spent

MicMismatch(m) ==
    /\ present /\ Message3Fresh(m.rc) /\ anonce = m.an
    /\ m.mic # HandshakePtk

\* process_message_3 failed: a stale PMKSA, a wrong passphrase, or neither.
RejectMessage3(m) ==
    /\ ~in_use
    /\ Fail(IF Security # "sae" /\ MicMismatch(m) THEN "FailedAuthentication"
                                                  ELSE "Failed")
    /\ UNCHANGED toAp

HandleMessage3(m) ==
    /\ m.type = "m3"
    /\ UNCHANGED <<ptk_rekey, ft, ft_msg1, ap>>
    /\ \/ /\ ~present
          /\ Fail("Failed")
          /\ UNCHANGED <<vars, toAp, spent>>
       \/ Message3(m.an, m.rc, m.mic) /\ InstallKeys(m)
       \/ /\ Message3BadKeyData(m.an, m.rc, m.mic)
          /\ Mishap
          /\ ~in_use /\ Fail("Failed")
          /\ UNCHANGED toAp
       \/ /\ present /\ ~Message3Verified(m.an, m.rc, m.mic)
          /\ RejectMessage3(m)
          /\ UNCHANGED <<vars, spent>>

\* Message 3 fails in a handshake over a cached PMK; one with a valid MIC does
\* for its key data.
FallbackMessage3(m) ==
    /\ m.type = "m3"
    /\ present
    /\ PmksaFallback(IF Message3Verified(m.an, m.rc, m.mic) THEN 1 ELSE 0)

\* BUG: the new GTK is acknowledged and only stored.
BugInstallGtk(m) ==
    /\ Reply("g2", m, ptk)
    /\ TryOffloadRekey(tptk, ptk)
    /\ UNCHANGED <<kernel, spent>>

\* The group handshake logs every error and keeps the state.
InstallGtk(m) ==
    \/ Mishap /\ UNCHANGED <<kernel, offload, toAp>>
    \/ /\ Reply("g2", m, ptk)
       /\ TryOffloadRekey(tptk, ptk)
       /\ \/ Mishap /\ UNCHANGED kernel
          \/ kernel' = [kernel EXCEPT !.gtk = m.gtk] /\ UNCHANGED spent

HandleGroup(m) ==
    /\ m.type = "g1"
    /\ UNCHANGED <<state, linkVars, ap>>
    /\ \/ GroupRekey(m.rc, m.mic) /\ InstallGtk(m)
       \/ /\ present => ~GroupVerified(m.rc, m.mic)
          /\ UNCHANGED <<vars, keyVars, toAp, spent>>

\* handle_raw_eapol ignores frames outside an attempt or a connection; the
\* nl80211 control port does not.
Deaf == RawPort /\ state \notin {"Authenticating", "Connected"}

Receive ==
    /\ toSta # <<>>
    /\ LET m == Head(toSta) IN
       \/ /\ ~Deaf
          /\ toSta' = Tail(toSta)
          /\ HandleMessage1(m) \/ HandleMessage3(m) \/ HandleGroup(m)
       \/ ~Deaf /\ FallbackMessage3(m)
       \/ /\ Deaf
          /\ toSta' = Tail(toSta)
          /\ UNCHANGED <<vars, state, linkVars, keyVars, toAp, ap, spent>>

\* BUG: the buffered Message 1 is left for a retransmission to replace.
BugAssociated ==
    /\ Security = "ft" /\ ~ft
    /\ state = "Authenticating"
    /\ ft' = TRUE
    /\ UNCHANGED <<vars, state, ptk_rekey, ft_msg1, in_use, cached, keyVars, toSta,
                   toAp, ap, spent>>

\* handle_association_success of an FT association: the key hierarchy is set
\* up and a buffered Message 1 is answered in the same handler.
Associated ==
    /\ Security = "ft" /\ ~ft
    /\ state = "Authenticating"
    /\ UNCHANGED <<toSta, ap>>
    /\ \/ /\ Mishap /\ Fail("Failed")
          /\ UNCHANGED <<vars, ptk_rekey, ft, ft_msg1, toAp>>
       \/ /\ ft' = TRUE
          /\ IF ft_msg1 = <<>>
               THEN UNCHANGED <<vars, state, ptk_rekey, ft_msg1, in_use, cached,
                                keyVars, toAp, spent>>
               ELSE AnswerMessage1(Head(ft_msg1))

---------------------------------------------------------------------------
(* The authenticator and the link. *)

\* Each frame has a new counter; sent and gsent are the counters the replies
\* to 4-way and group frames may carry.
ApSend(type, key, next) ==
    /\ ap' = [next EXCEPT !.rc = @ + 1,
                          ![IF type = "g1" THEN "gsent" ELSE "sent"] = @ \cup {next.rc + 1}]
    /\ toSta' = Append(toSta, [type |-> type, an |-> next.an, rc |-> ap'.rc,
                               mic |-> key, gtk |-> next.gtk])

staVars == <<vars, state, linkVars, keyVars>>

\* A 4-way handshake with a fresh ANonce.
ApHandshake ==
    ApSend("m1", NoPtk, [ap EXCEPT !.phase = "m1", !.an = spent.starts + 1,
                                   !.sent = {}])

ApStart ==
    /\ ap.phase = "idle" /\ state = "Authenticating"
    /\ Spend("starts")
    /\ ApHandshake
    /\ UNCHANGED <<staVars, toAp>>

ApRekey ==
    /\ ap.phase = "done"
    /\ CanSpend("rekey")
    /\ spent' = [spent EXCEPT !.starts = @ + 1, !.rekey = @ + 1]
    /\ ApHandshake
    /\ UNCHANGED <<staVars, toAp>>

ApRetry ==
    /\ CanSpend("retry") /\ Spend("retry")
    /\ \/ ap.phase = "m1" /\ ApSend("m1", NoPtk, ap)
       \/ ap.phase = "m3" /\ ApSend("m3", ap.ptk, ap)
    /\ UNCHANGED <<staVars, toAp>>

ApGroup ==
    /\ CanSpend("group") /\ Spend("group")
    /\ \/ ap.phase = "done"
       \/ GroupDuringPtk /\ ap.phase = "m1" /\ ap.ptk # NoPtk
    /\ ApSend("g1", ap.ptk, [ap EXCEPT !.gtk = @ + 1, !.gsent = {}])
    /\ UNCHANGED <<staVars, toAp>>

\* The frames the AP takes; it drops all others.  Message 2 carries the
\* SNonce its MIC was computed with.
ApTakes(m) ==
    CASE m.type = "m2" -> /\ ap.phase = "m1"
                          /\ m.rc \in ap.sent
                          /\ AnyOutstanding \/ \A c \in ap.sent : c <= m.rc
                          /\ m.mic[1] = ap.an
      [] m.type = "m4" -> ap.phase = "m3" /\ m.rc \in ap.sent /\ m.mic = ap.ptk
      [] m.type = "g2" -> m.rc \in ap.gsent /\ m.mic = ap.ptk

ApReceive ==
    /\ toAp # <<>>
    /\ toAp' = Tail(toAp)
    /\ LET m == Head(toAp) IN
       IF ApTakes(m)
         THEN \/ /\ m.type = "m2"
                 /\ ApSend("m3", m.mic, [ap EXCEPT !.phase = "m3", !.ptk = m.mic,
                                                   !.sent = {}])
              \/ /\ m.type = "m4"
                 /\ ap' = [ap EXCEPT !.phase = "done", !.sent = {}, !.acked = ap.gtk]
                 /\ UNCHANGED toSta
              \/ /\ m.type = "g2"
                 /\ ap' = [ap EXCEPT !.gsent = {}, !.acked = ap.gtk]
                 /\ UNCHANGED toSta
         ELSE UNCHANGED <<ap, toSta>>
    /\ UNCHANGED <<staVars, spent>>

\* handle_ap_disconnect: a link that is up is lost, a first PSK handshake
\* counts as a wrong passphrase; in any other state the notification is
\* taken for one about an older link.
HandleApDisconnect ==
    Fail(CASE state = "Connected" -> "Failed"
           [] state = "Authenticating" /\ present /\ ~in_use /\ Security # "sae" ->
                 "FailedAuthentication"
           [] OTHER -> state)

\* Without an answer, however often it retried, the AP deauthenticates the
\* station: the association is gone until the client makes a new one.
ApGiveUp ==
    /\ ap.phase \in {"m1", "m3"}
    /\ Prompt => Quiet
    /\ ap' = [IdleAp EXCEPT !.phase = "gone", !.gtk = ap.gtk]
    /\ HandleApDisconnect
    /\ UNCHANGED <<vars, ptk_rekey, ft, ft_msg1, toSta, toAp, spent>>

Lose ==
    /\ CanSpend("loss") /\ Spend("loss")
    /\ \/ toSta # <<>> /\ toSta' = Tail(toSta) /\ UNCHANGED toAp
       \/ toAp # <<>> /\ toAp' = Tail(toAp) /\ UNCHANGED toSta
    /\ UNCHANGED <<staVars, ap>>

\* The driver did a GTK rekey by itself and reports the counter it used
\* (handle_rekey_offload_event): the AP's current one.
DriverRekey ==
    /\ offload = ap.ptk /\ offload # NoPtk
    /\ CanSpend("group") /\ Spend("group")
    /\ ap.phase = "done" /\ toSta = <<>> /\ toAp = <<>>
    /\ ap' = [ap EXCEPT !.rc = @ + 1, !.gtk = @ + 1, !.acked = ap.gtk + 1]
    /\ kernel' = [kernel EXCEPT !.gtk = ap.gtk + 1]
    /\ UpdateReplayCounter(ap'.rc)
    /\ UNCHANGED <<state, linkVars, offload, toSta, toAp>>

---------------------------------------------------------------------------
SNext ==
    /\ UNCHANGED setup
    /\ \/ Reconnect
       \/ AuthTimeout
       \/ Receive
       \/ Associated
       \/ ApStart
       \/ ApRekey
       \/ ApRetry
       \/ ApGroup
       \/ ApReceive
       \/ ApGiveUp
       \/ Lose
       \/ DriverRekey

SSpec == SInit /\ [][SNext]_svars

\* The client reads its sockets and retries, and the AP starts the handshake
\* of a new association, answers, and gives up in the end.
SFairness ==
    /\ WF_svars(Receive /\ UNCHANGED setup)
    /\ WF_svars(Reconnect /\ UNCHANGED setup)
    /\ WF_svars(AuthTimeout /\ UNCHANGED setup)
    /\ WF_svars(Associated /\ UNCHANGED setup)
    /\ WF_svars(ApReceive /\ UNCHANGED setup)
    /\ WF_svars(ApGiveUp /\ UNCHANGED setup)
    /\ WF_svars(ApStart /\ UNCHANGED setup)

SFairSpec == SSpec /\ SFairness

---------------------------------------------------------------------------
\* The handler drives FourWayState only through its operations, each run to
\* completion: every behaviour of the supplicant is one of FourWay.
ImplementsFourWay == Spec

\* A connected station encrypts with the live PTK of its FourWayState, and
\* when the handshake is over for the AP too it uses the same PTK: through
\* retransmissions, losses, failing requests, PTK rekeys and reconnects.
PtkAgreed ==
    state = "Connected" =>
        /\ ptk # NoPtk /\ kernel.ptk = ptk
        /\ ap.phase = "done" => kernel.ptk = ap.ptk

\* A GTK the AP saw acknowledged is in the kernel of a connected station, as
\* long as no netlink request fails (a GTK that cannot be installed has been
\* acknowledged all the same).
GtkAgreed == state = "Connected" /\ spent.fail = 0 => kernel.gtk >= ap.acked

\* Once losses and retransmissions stop, the link comes up and stays up, if
\* frames do not take longer than the timers of the client.
EventuallyUp ==
    Prompt => <>[](state = "Connected" /\ ap.phase = "done" /\ kernel.ptk = ap.ptk)

\* "an already accepted Message 3 is discarded" (handshake4.rs): the
\* retransmission of a Message 3 whose Message 4 was lost does no harm.
AcceptedMessage3Discarded ==
    [][state = "Connected" /\ toSta # <<>> /\ toSta' = Tail(toSta)
          /\ Head(toSta).type = "m3" /\ Head(toSta).mic = kernel.ptk
       => state' = "Connected"]_svars
=============================================================================
