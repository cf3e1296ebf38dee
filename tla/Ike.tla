-------------------------------- MODULE Ike --------------------------------
(* The IKEv2 engine (ipsec/ikev2/engine.rs): the Runner of one connection at *)
(* each of two hosts, talking over UDP.  Both ends run the same code; one    *)
(* that has a remote address initiates.  Authentication is by shared key or  *)
(* certificate, which here succeeds: the two configurations match.           *)
(*                                                                           *)
(* Random values (nonces, SPIs) are tokens <<host, number>>: a fresh token   *)
(* is one that occurs nowhere.  An IKE SA is named by the two SPIs that its  *)
(* keys are derived from.  Message identifiers are left out: the engine      *)
(* writes them in its headers and never compares one it receives.            *)
EXTENDS Naturals, Sequences, FiniteSets

CONSTANTS
    Host,             \* the two hosts
    Initiators,       \* those with a configured remote address
    Rekeyers,         \* those whose rekey deadline falls in the modelled time
    None,             \* no value (Option::None)
    MaxRetransmits,   \* MAX_RETRANSMITS
    DpdRetries,       \* dpd.retries
    Troubles,         \* what may go wrong: a datagram is lost, delivered twice
                      \* or overtaken, a send refused, a timer early, a
                      \* connection restarted
    MaxTrouble,       \* bound on how often something goes wrong
    MaxRekey          \* bound on the rekeys that are initiated

\* Random values, and an IKE SA (IkeRuntime) with its child (ChildRuntime).
Token == Host \X Nat
ChildRuntime ==
    [local_spi : Token, remote_spi : Token, outbound : {"initiator", "responder"},
     seed : [sa : Token \X Token, nonce_i : Token \cup {None}, nonce_r : Token \cup {None}]]
IkeRuntime ==
    [role : {"initiator", "responder"}, sa : Token \X Token,
     local_child_spi : Token \cup {None}, child : ChildRuntime \cup {None}]

ASSUME IkeAssumption ==
    /\ \E a, b \in Host : a # b /\ Host = {a, b}
    /\ None \notin Token \cup ChildRuntime \cup IkeRuntime
    /\ Initiators \subseteq Host /\ Rekeyers \subseteq Host
    /\ {MaxRetransmits, DpdRetries} \subseteq Nat \ {0}
    /\ Troubles \subseteq {"loss", "dup", "delay", "fail", "early", "restart"}
    /\ MaxTrouble \in Nat
    /\ MaxRekey \in Nat

VARIABLES
    rn,       \* the Runner of each host
    net,      \* datagrams on their way to each host, in order
    crossed,  \* the last rekeys of the two hosts overlapped
    rekeys,   \* how many rekeys were initiated
    spent     \* how often each disturbance happened

vars == <<rn, net, crossed, rekeys, spent>>

Peer(n) == CHOOSE p \in Host : p # n

-----------------------------------------------------------------------------
(* Runner, messages and random values *)

\* The Runner that engine::spawn creates for the g-th time; state is what
\* IpsecClient::start_connection publishes.
NewRunner(g) ==
    [up |-> TRUE, gen |-> g, started |-> FALSE, state |-> "Connecting",
     phase |-> "Init", ike |-> None, pending_sa_init |-> FALSE,
     retransmit |-> None, dpd_deadline |-> FALSE, dpd_failures |-> 0,
     rekey_deadline |-> FALSE, pending_rekey |-> None]

\* A datagram: its exchange, whether it is a response, the IKE SA it belongs
\* to, and the token its SA, nonce or Delete payload carries.
Msg(exchange, response, sa, token) ==
    [exchange |-> exchange, response |-> response, sa |-> sa, token |-> token]

Retransmit(m, max) == [message |-> m, attempts |-> 0, max |-> max]

Child(n) == IF rn[n].ike = None THEN None ELSE rn[n].ike.child

MessagesOf(n) ==
    {net[n][i] : i \in DOMAIN net[n]}
        \cup (IF rn[n].retransmit = None THEN {} ELSE {rn[n].retransmit.message})

TokensOf(n) ==
    LET c == Child(n)
    IN  {m.token : m \in MessagesOf(n)}
          \cup {rn[n].pending_rekey}
          \cup (IF rn[n].ike = None THEN {} ELSE {rn[n].ike.local_child_spi})
          \cup (IF c = None THEN {} ELSE {c.local_spi, c.remote_spi}
                                          \cup {c.seed.nonce_i, c.seed.nonce_r})

\* A random value: one that differs from every value still in use.
Fresh(n) ==
    LET used == UNION {TokensOf(p) : p \in Host}
    IN  <<n, CHOOSE k \in 1 .. Cardinality(used) + 1 : <<n, k>> \notin used>>

\* What a handler does: the Runner it leaves and the datagrams it sends.
Effect(r, out) == [r |-> r, out |-> out]
Ignore(r) == Effect(r, <<>>)

\* A handler that returns at a failed send: everything before it is kept.
Send(ok, m, after, failed) == IF ok THEN Effect(after, <<m>>) ELSE Ignore(failed)

-----------------------------------------------------------------------------
(* Child SAs *)

\* Mutant: both ends send with the initiator's half.
BugDeriveChildKeys(r, nonce_i, nonce_r, local_spi, remote_spi) ==
    [local_spi |-> local_spi, remote_spi |-> remote_spi, outbound |-> "initiator",
     seed |-> [sa |-> r.ike.sa, nonce_i |-> nonce_i, nonce_r |-> nonce_r]]

\* derive_child_keys: what the keys are derived from (the nonces are those of
\* the IKE SA itself for the first child), and the half of the material that
\* protects outgoing traffic, which follows the role in the IKE SA.
DeriveChildKeys(r, nonce_i, nonce_r, local_spi, remote_spi) ==
    [local_spi |-> local_spi, remote_spi |-> remote_spi, outbound |-> r.ike.role,
     seed |-> [sa |-> r.ike.sa, nonce_i |-> nonce_i, nonce_r |-> nonce_r]]

\* Mutant: dead peer detection is not started.
BugInstallChild(r, handle) ==
    [r EXCEPT !.ike.child = handle, !.phase = "Established",
              !.retransmit = None, !.state = "Established",
              !.rekey_deadline = TRUE]

InstallChild(r, handle) ==
    [r EXCEPT !.ike.child = handle, !.phase = "Established",
              !.retransmit = None, !.state = "Established",
              !.dpd_deadline = TRUE, !.rekey_deadline = TRUE]

RemoveChild(r) == IF r.ike = None THEN r ELSE [r EXCEPT !.ike.child = None]

\* The peer is given up.
PeerDead(r) == [RemoveChild(r) EXCEPT !.phase = "Closed", !.state = "Failed"]

\* open_encrypted: the message is protected with the keys of our IKE SA.
Opens(r, m) == r.ike # None /\ m.exchange # "SA_INIT" /\ m.sa = r.ike.sa

-----------------------------------------------------------------------------
(* IKE_SA_INIT and IKE_AUTH *)

SendSaInit(n, ok) ==
    LET r == [rn[n] EXCEPT !.started = TRUE]
        m == Msg("SA_INIT", FALSE, <<<<n, r.gen>>, None>>, None)
    IN  Send(ok, m, [r EXCEPT !.pending_sa_init = TRUE, !.phase = "SaInitSent",
                              !.retransmit = Retransmit(m, MaxRetransmits)], r)

NewIke(role, sa, spi) ==
    [role |-> role, sa |-> sa, local_child_spi |-> spi, child |-> None]

HandleSaInitRequest(n, m, ok) ==
    LET r == rn[n]
        sa == <<m.sa[1], <<n, r.gen>>>>
        reply == Msg("SA_INIT", TRUE, sa, None)
    IN  IF r.ike # None
        THEN Ignore(r)
        ELSE Send(ok, reply,
                  [r EXCEPT !.retransmit = Retransmit(reply, MaxRetransmits),
                            !.ike = NewIke("responder", sa, None),
                            !.phase = "AuthSent", !.state = "Connecting"], r)

SendAuth(r, ok) ==
    LET m == Msg("AUTH", FALSE, r.ike.sa, r.ike.local_child_spi)
    IN  Send(ok, m, [r EXCEPT !.retransmit = Retransmit(m, MaxRetransmits),
                              !.phase = "AuthSent"], r)

\* The pending request is taken whatever the response holds.  A response with
\* an SA payload gives the keys of our request and its answer, and IKE_AUTH
\* goes out at once.
HandleSaInitResponse(n, m, ok) ==
    LET r == [rn[n] EXCEPT !.pending_sa_init = FALSE]
        ike == NewIke("initiator", <<<<n, r.gen>>, m.sa[2]>>, Fresh(n))
    IN  IF ~rn[n].pending_sa_init \/ m.exchange # "SA_INIT"
        THEN Ignore(r)
        ELSE SendAuth([r EXCEPT !.retransmit = None, !.ike = ike], ok)

\* The retransmission is stopped before the message is opened.
HandleAuthRequest(n, m, ok) ==
    LET r == [rn[n] EXCEPT !.retransmit = None]
        spi == Fresh(n)
        reply == Msg("AUTH", TRUE, m.sa, spi)
    IN  IF ~Opens(r, m)
        THEN Ignore(r)
        ELSE Send(ok, reply,
                  InstallChild(r, DeriveChildKeys(r, None, None, spi, m.token)), r)

HandleAuthResponse(n, m) ==
    LET r == [rn[n] EXCEPT !.retransmit = None]
    IN  IF ~Opens(r, m) \/ m.exchange # "AUTH"
        THEN Ignore(r)
        ELSE Ignore(InstallChild(r,
                 DeriveChildKeys(r, None, None, r.ike.local_child_spi, m.token)))

-----------------------------------------------------------------------------
(* CREATE_CHILD_SA and INFORMATIONAL, in whatever phase the Runner is *)

\* A request carries one token: our new SPI, and the nonce drawn with it.
HandleCreateChildRequest(n, m, ok) ==
    LET r == rn[n]
        spi == Fresh(n)
        reply == Msg("CREATE_CHILD", TRUE, m.sa, spi)
    IN  IF ~Opens(r, m)
        THEN Ignore(r)
        ELSE Send(ok, reply,
                  InstallChild(r, DeriveChildKeys(r, m.token, spi, spi, m.token)), r)

\* Mutant: the SPI of the child before is kept.
BugHandleCreateChildResponse(n, m) ==
    LET r == [rn[n] EXCEPT !.retransmit = None]
        spi == r.pending_rekey
    IN  IF ~Opens(r, m) \/ spi = None
        THEN Ignore(r)
        ELSE Ignore(InstallChild([r EXCEPT !.pending_rekey = None],
                 DeriveChildKeys(r, spi, m.token, Child(n).local_spi, m.token)))

HandleCreateChildResponse(n, m) ==
    LET r == [rn[n] EXCEPT !.retransmit = None]
        spi == r.pending_rekey
    IN  IF ~Opens(r, m) \/ spi = None
        THEN Ignore(r)
        ELSE Ignore(InstallChild([r EXCEPT !.pending_rekey = None],
                 DeriveChildKeys(r, spi, m.token, spi, m.token)))

\* A Delete for our child removes it; the answer names our SPI.
HandleInformationalRequest(n, m, ok) ==
    LET r == rn[n]
        c == Child(n)
        deleted == m.token # None /\ c # None /\ c.remote_spi = m.token
        after == IF deleted THEN RemoveChild(r) ELSE r
        reply == Msg("INFORMATIONAL", TRUE, m.sa, IF deleted THEN c.local_spi ELSE None)
    IN  IF ~Opens(r, m) THEN Ignore(r) ELSE Send(ok, reply, after, after)

\* An answer in the Established phase shows that the peer lives; nothing
\* else of it is read.
HandleInformationalResponse(n) ==
    Ignore([rn[n] EXCEPT !.retransmit = None, !.dpd_failures = 0, !.dpd_deadline = TRUE])

HandleDatagram(n, m, ok) ==
    IF m.response
    THEN CASE rn[n].phase = "SaInitSent" -> HandleSaInitResponse(n, m, ok)
           [] rn[n].phase = "AuthSent" -> HandleAuthResponse(n, m)
           [] rn[n].phase = "Established" /\ m.exchange = "CREATE_CHILD" ->
                HandleCreateChildResponse(n, m)
           [] rn[n].phase = "Established" /\ m.exchange = "INFORMATIONAL" ->
                HandleInformationalResponse(n)
           [] OTHER -> Ignore(rn[n])
    ELSE CASE m.exchange = "SA_INIT" -> HandleSaInitRequest(n, m, ok)
           [] m.exchange = "AUTH" -> HandleAuthRequest(n, m, ok)
           [] m.exchange = "INFORMATIONAL" -> HandleInformationalRequest(n, m, ok)
           [] m.exchange = "CREATE_CHILD" -> HandleCreateChildRequest(n, m, ok)

-----------------------------------------------------------------------------
(* Timers *)

\* Retransmit::retry: the attempt is counted, and the last one gives up.  A
\* refused send leaves what a lost datagram leaves.
OnRetransmit(n) ==
    LET r == rn[n]
        t == [r.retransmit EXCEPT !.attempts = @ + 1]
        done == [r EXCEPT !.retransmit = None, !.state = "Failed"]
    IN  IF t.attempts < t.max
        THEN Effect([r EXCEPT !.retransmit = t], <<t.message>>)
        ELSE Ignore(IF r.phase = "Established" THEN PeerDead(done) ELSE done)

OnDpd(n, ok) ==
    LET r == [rn[n] EXCEPT !.dpd_deadline = FALSE]
        m == Msg("INFORMATIONAL", FALSE, r.ike.sa, None)
    IN  IF r.phase # "Established"
        THEN Ignore(r)
        ELSE IF r.dpd_failures >= DpdRetries
             THEN Ignore(PeerDead(r))
             ELSE Send(ok, m, [r EXCEPT !.retransmit = Retransmit(m, DpdRetries),
                                        !.dpd_failures = @ + 1,
                                        !.dpd_deadline = TRUE], r)

\* With a rekey pending the deadline is only moved.
InitiateRekey(n, ok) ==
    LET r == [rn[n] EXCEPT !.rekey_deadline = FALSE]
        spi == Fresh(n)
        m == Msg("CREATE_CHILD", FALSE, r.ike.sa, spi)
    IN  CASE r.phase # "Established" -> Ignore(r)
          [] r.phase = "Established" /\ r.pending_rekey # None -> Ignore(rn[n])
          [] OTHER -> Send(ok, m, [r EXCEPT !.retransmit = Retransmit(m, MaxRetransmits),
                                            !.pending_rekey = spi,
                                            !.state = "Rekeying"], r)

-----------------------------------------------------------------------------
(* Steps of the Runner's loop *)

\* Carry out an effect of n; q is what is left of the datagrams to n.
Apply(n, q, e) ==
    /\ rn' = [rn EXCEPT ![n] = e.r]
    /\ net' = [net EXCEPT ![n] = q,
                          ![Peer(n)] = IF rn[Peer(n)].up THEN @ \o e.out ELSE @]

Trouble(kind) ==
    /\ kind \in Troubles
    /\ spent.loss + spent.dup + spent.delay + spent.fail + spent.early + spent.restart < MaxTrouble
    /\ spent' = [spent EXCEPT ![kind] = @ + 1]

\* The step that E(ok) describes, where a send may be refused.
Step(n, q, E(_)) ==
    \/ Apply(n, q, E(TRUE)) /\ UNCHANGED spent
    \/ E(TRUE).out # <<>> /\ Apply(n, q, E(FALSE)) /\ Trouble("fail")

\* The loop runs: for an initiator once IKE_SA_INIT was sent.
Running(n) == rn[n].up /\ (n \in Initiators => rn[n].started)

Start(n) ==
    /\ rn[n].up /\ n \in Initiators /\ ~rn[n].started
    /\ LET E(ok) == SendSaInit(n, ok) IN Step(n, net[n], E)
    /\ UNCHANGED <<crossed, rekeys>>

Receive(n) ==
    /\ Running(n) /\ net[n] # <<>>
    /\ LET E(ok) == HandleDatagram(n, Head(net[n]), ok) IN Step(n, Tail(net[n]), E)
    /\ UNCHANGED <<crossed, rekeys>>

\* Timeouts are long against the way of a datagram: they run out with nothing
\* under way that could still stop them, and otherwise count as early.
Quiet == \A n \in Host : net[n] = <<>>
NoProbe == \A n \in Host : \A i \in DOMAIN net[n] : net[n][i].exchange # "INFORMATIONAL"

RetransmitTimer(n) ==
    /\ Running(n) /\ rn[n].retransmit # None
    /\ Apply(n, net[n], OnRetransmit(n))
    /\ IF Quiet THEN UNCHANGED spent ELSE Trouble("early")
    /\ UNCHANGED <<crossed, rekeys>>

DpdTimer(n) ==
    /\ Running(n) /\ rn[n].dpd_deadline
    /\ IF NoProbe
       THEN LET E(ok) == OnDpd(n, ok) IN Step(n, net[n], E)
       ELSE Apply(n, net[n], OnDpd(n, TRUE)) /\ Trouble("early")
    /\ UNCHANGED <<crossed, rekeys>>

RekeyTimer(n) ==
    /\ Running(n) /\ n \in Rekeyers /\ rn[n].rekey_deadline /\ rekeys < MaxRekey
    /\ LET E(ok) == InitiateRekey(n, ok) IN Step(n, net[n], E)
    /\ IF rn'[n].pending_rekey = rn[n].pending_rekey
       THEN UNCHANGED <<crossed, rekeys>>
       ELSE /\ crossed' = (rn[Peer(n)].pending_rekey # None)
            /\ rekeys' = rekeys + 1

\* IpsecClient::shutdown: the loop ends, and shutdown_connection announces
\* the removal of the child.
Shutdown(n) ==
    /\ Running(n)
    /\ LET c == Child(n)
           m == Msg("INFORMATIONAL", FALSE, rn[n].ike.sa, c.local_spi)
       IN  Apply(n, <<>>, Effect([rn[n] EXCEPT !.up = FALSE, !.state = "Closed"],
               IF rn[n].phase = "Established" /\ c # None THEN <<m>> ELSE <<>>))
    /\ UNCHANGED <<crossed, rekeys, spent>>

\* IpsecClient::update: the task is aborted and a new Runner takes its port.
\* Datagrams that were queued at the old socket go with it.
Update(n) ==
    /\ rn[n].up /\ Trouble("restart")
    /\ rn' = [rn EXCEPT ![n] = NewRunner(rn[n].gen + 1)]
    /\ \E q \in {<<>>, net[n]} : net' = [net EXCEPT ![n] = q]
    /\ UNCHANGED <<crossed, rekeys>>

\* What UDP may do to a datagram: lose it, deliver it twice, or deliver it
\* after those that were sent later.
Without(q, i) == SubSeq(q, 1, i - 1) \o SubSeq(q, i + 1, Len(q))

Lose(n) ==
    /\ Trouble("loss")
    /\ \E i \in DOMAIN net[n] : net' = [net EXCEPT ![n] = Without(@, i)]
    /\ UNCHANGED <<rn, crossed, rekeys>>

Duplicate(n) ==
    /\ Trouble("dup")
    /\ \E i \in DOMAIN net[n] : net' = [net EXCEPT ![n] = Append(@, @[i])]
    /\ UNCHANGED <<rn, crossed, rekeys>>

Delay(n) ==
    /\ Trouble("delay")
    /\ \E i \in DOMAIN net[n] \ {Len(net[n])} : net' = [net EXCEPT ![n] = Append(Without(@, i), @[i])]
    /\ UNCHANGED <<rn, crossed, rekeys>>

Init ==
    /\ rn = [n \in Host |-> NewRunner(1)]
    /\ net = [n \in Host |-> <<>>]
    /\ crossed = FALSE
    /\ rekeys = 0
    /\ spent = [loss |-> 0, dup |-> 0, delay |-> 0, fail |-> 0, early |-> 0, restart |-> 0]

Next ==
    \E n \in Host :
        \/ Start(n) \/ Receive(n)
        \/ RetransmitTimer(n) \/ DpdTimer(n) \/ RekeyTimer(n)
        \/ Shutdown(n) \/ Update(n) \/ Lose(n) \/ Duplicate(n) \/ Delay(n)

Spec == Init /\ [][Next]_vars

\* The task runs, datagrams arrive, and a deadline that is set passes.
Fairness ==
    \A n \in Host :
        /\ WF_vars(Start(n)) /\ WF_vars(Receive(n))
        /\ SF_vars(RetransmitTimer(n)) /\ SF_vars(DpdTimer(n))

FairSpec == Spec /\ Fairness

-----------------------------------------------------------------------------
(* Properties *)

\* No request has reached a host twice: the network delivered no datagram a
\* second time, and no timer sent one again while it or its answer was still
\* under way.  The engine executes such a request once more (it compares no
\* message identifiers), and the two ends then keep different answers.
ExecutedOnce == spent.dup = 0 /\ spent.early = 0

\* Where every request is executed once, an SPI stands for the same keys at
\* both ends: what one host sends to the other's current child is protected
\* with the keys that the other expects there, also when datagrams were lost,
\* sent again or overtaken and rekeys overlapped (derive_child_keys in
\* handle_create_child_response and its peers).
SameKeyPerSpi ==
    ExecutedOnce => \A n \in Host :
        LET c == Child(n)
            d == Child(Peer(n))
        IN  c # None /\ d # None /\ c.remote_spi = d.local_spi
              => c.seed = d.seed /\ c.outbound # d.outbound

\* Two children that are the two ends of one Child SA pair.
Mirrored(c, d) == c.local_spi = d.remote_spi /\ c.remote_spi = d.local_spi

\* No exchange is open between the hosts of one IKE SA that hold a child each.
Settled ==
    /\ Quiet
    /\ \A n \in Host : /\ rn[n].up /\ rn[n].pending_rekey = None
                        /\ rn[n].retransmit = None /\ Child(n) # None
    /\ \A n \in Host : rn[n].ike.sa = rn[Peer(n)].ike.sa

\* Where requests are executed once and datagrams arrive in order, a rekey
\* leaves both hosts on the same pair of SAs, whichever datagrams were lost and
\* sent again, unless the last rekeys of the two hosts overlapped
\* (install_child replaces the child on each side by itself, and nothing in
\* the engine chooses between two rekeys).
AgreedUnlessCrossed ==
    ExecutedOnce /\ spent.delay = 0 /\ ~crossed /\ Settled
        => \A n \in Host : Mirrored(Child(n), Child(Peer(n)))

\* Once a host has stopped, the other one finds out, by its Delete or by
\* on_dpd, and drops the child, unless its socket refused a probe.
DeadPeerNoticed ==
    \A n \in Host : ~rn[n].up ~> (Child(Peer(n)) = None \/ ~rn[Peer(n)].up \/ spent.fail > 0)

\* An attempt to connect comes to an end that is reported: a host that has sent
\* IKE_SA_INIT does not stay in Connecting for ever while the other one runs.
EventuallySettled ==
    \A n \in Initiators :
        (rn[n].state = "Connecting" /\ rn[n].phase # "Init")
            ~> (rn[n].state # "Connecting" \/ rn[n].phase = "Init" \/ ~rn[Peer(n)].up)

=============================================================================
