-------------------------------- MODULE Eap --------------------------------
(* The wired 802.1X port: EapTlsMethod (core/eap_tls.rs), EapPeer            *)
(* (core/eap.rs), EapClient (wired/eap.rs) and the loop of                   *)
(* run_wired_interface (daemon/main.rs) that replaces a failed client, with  *)
(* the authenticator of the switch (external) at the other end of a link     *)
(* that loses, duplicates and delays frames.                                 *)
(*                                                                           *)
(* A TLS byte is a unit <<flight, client, session, index>>: it says which    *)
(* flight of which handshake it belongs to and where.  rustls (external)     *)
(* accepts the flight it waits for and refuses everything else.              *)
EXTENDS Naturals, Sequences, FiniteSets

CONSTANTS
    Ids,                      \* EAP identifiers in use: 0 .. Ids - 1
    ChLen, ShLen, CfLen,      \* length of the ClientHello, server and
                              \* client Finished flights
    TxFrag, AuthFrag,         \* bytes per fragment: ours, the switch's
    MaxAttempt,               \* bound on the clients created
    MaxRetry,                 \* bound on retransmissions by the switch
    MaxTrouble                \* bound on everything else that goes wrong

ASSUME EapAssumption ==
    /\ {Ids, ChLen, ShLen, CfLen, TxFrag, AuthFrag, MaxAttempt} \subseteq Nat \ {0}
    /\ {MaxRetry, MaxTrouble} \subseteq Nat

VARIABLES
    client,     \* the EapClient, or NoClient
    attempt,    \* how many clients have been created
    daemon,     \* where run_wired_interface is: idle, run, hold, stopped
    connected,  \* its flag: the IP configuration is applied
    auth,       \* the authenticator
    toPeer, toAuth,   \* frames on the wire, in order
    late,       \* copies of frames to the peer that are still under way
    spent       \* how often each disturbance happened

vars == <<client, attempt, daemon, connected, auth, toPeer, toAuth, late, spent>>

-----------------------------------------------------------------------------
(* TLS flights and EAP-TLS message bodies *)

Flight(kind, c, s, n) == [i \in 1 .. n |-> <<kind, c, s, i>>]
ClientHello(c) == Flight("ch", c, 0, ChLen)
ServerHello(c, s) == Flight("sh", c, s, ShLen)
ClientFinished(c, s) == Flight("cf", c, s, CfLen)
Commitment(c, s) == Flight("ok", c, s, 1)   \* protected success indication

NoLen == 0      \* the L bit is not set
Body(start, len, more, data) ==
    [start |-> start, len |-> len, more |-> more, data |-> data]
Ack == Body(FALSE, NoLen, FALSE, <<>>)
Start == Body(TRUE, NoLen, FALSE, <<>>)

\* The fragment of at most n bytes of `queue` that starts at `offset`: the
\* first one carries the total length, all but the last the M bit.
Fragment(queue, offset, n) ==
    LET rest == SubSeq(queue, offset + 1, Len(queue))
        more == Len(rest) > n
    IN Body(FALSE, IF offset = 0 THEN Len(queue) ELSE NoLen, more,
            IF more THEN SubSeq(rest, 1, n) ELSE rest)

Packet(code, id, type, body) ==
    [code |-> code, id |-> id, type |-> type, body |-> body]
NoPacket == Packet("none", 0, "none", Ack)
EapolStart == Packet("start", 0, "none", Ack)

-----------------------------------------------------------------------------
(* rustls's ClientConnection *)

NoConn == [c |-> 0, s |-> 0, out |-> <<>>]
NewConn(c) == [c |-> c, s |-> 0, out |-> ClientHello(c)]

\* Reading a whole message: the flight that is due moves the connection on,
\* anything else is an error (no result).
ReadTls(conn, data) ==
    LET s == data[1][3]
    IN IF conn.s = 0 /\ data = ServerHello(conn.c, s)
       THEN {[conn EXCEPT !.s = s, !.out = ClientFinished(conn.c, s)]}
       ELSE {x \in {conn} : conn.s # 0 /\ data = Commitment(conn.c, conn.s)}

-----------------------------------------------------------------------------
(* EapTlsMethod *)

NoMsk == <<0, 0>>
NewMethod ==
    [conn |-> NoConn, rx_fragments |-> <<>>, rx_expected_len |-> NoLen,
     tx_queue |-> <<>>, tx_offset |-> 0, msk |-> NoMsk,
     protected_success |-> FALSE]

\* The end of the queue is never cleared.
BugNextTxFragment(m) ==
    IF m.tx_offset >= Len(m.tx_queue) THEN [m |-> m, body |-> Ack]
    ELSE LET body == Fragment(m.tx_queue, m.tx_offset, TxFrag)
         IN [m |-> [m EXCEPT !.tx_offset = @ + Len(body.data)], body |-> body]

\* next_tx_fragment: the next fragment of what is queued, an empty message
\* when nothing is.
NextTxFragment(m) ==
    IF m.tx_queue = <<>> \/ m.tx_offset >= Len(m.tx_queue)
    THEN [m |-> m, body |-> Ack]
    ELSE LET body == Fragment(m.tx_queue, m.tx_offset, TxFrag)
         IN [m |-> IF body.more
                   THEN [m EXCEPT !.tx_offset = @ + Len(body.data)]
                   ELSE [m EXCEPT !.tx_queue = <<>>, !.tx_offset = 0],
             body |-> body]

\* queue_tls_output
QueueTlsOutput(m, output) ==
    IF output = <<>> THEN m ELSE [m EXCEPT !.tx_queue = output, !.tx_offset = 0]

\* The total length in force once `body` has been looked at.
ExpectedLen(m, body) == IF body.len # NoLen THEN body.len ELSE m.rx_expected_len

\* The checks of the reassembly: two different totals, more bytes than
\* announced, or a last fragment that falls short of the total.  (The flights
\* of the model stay below the reassembly limit of 65535 bytes.)
BadFragment(m, body) ==
    LET total == ExpectedLen(m, body)
        n == Len(m.rx_fragments) + Len(body.data)
    IN \/ body.len # NoLen /\ m.rx_expected_len \notin {NoLen, body.len}
       \/ total # NoLen /\ n > total
       \/ total # NoLen /\ ~body.more /\ n # total

\* A complete message: rustls reads it, its output is queued and the first
\* fragment of it answered; the MSK is exported once the handshake is over.
CompleteMessage(m, conn, data) ==
    LET done == conn.s # 0 /\ m.msk = NoMsk
        read == [m EXCEPT
            !.conn = [conn EXCEPT !.out = <<>>],
            !.rx_fragments = <<>>, !.rx_expected_len = NoLen,
            !.msk = IF done THEN <<conn.c, conn.s>> ELSE @,
            !.protected_success = @ \/ (data # <<>> /\ data[1][1] = "ok")]
    IN NextTxFragment(QueueTlsOutput(read, conn.out))

\* handle_request: the possible results, none when it returns an error.
\* `c` names the connection a Start creates.
HandleRequest(method, c, body) ==
    LET m == IF body.start /\ method.conn = NoConn
             THEN [method EXCEPT !.conn = NewConn(c)] ELSE method
        data == m.rx_fragments \o body.data
    IN CASE m.conn = NoConn -> {}
         [] m.conn # NoConn /\ body = Ack -> {NextTxFragment(m)}
         [] OTHER ->
            IF BadFragment(m, body) THEN {}
            ELSE IF body.more
            THEN {[m |-> [m EXCEPT !.rx_fragments = data,
                                   !.rx_expected_len = ExpectedLen(m, body)],
                   body |-> Ack]}
            ELSE {CompleteMessage(m, conn, data) :
                    conn \in IF data = <<>> THEN {m.conn}
                             ELSE ReadTls(m.conn, data)}

BugSuccessIndicationReceived(m) == TRUE

\* success_indication_received: the version is known with the ServerHello.
SuccessIndicationReceived(m) == m.conn.s # 0 => m.protected_success

-----------------------------------------------------------------------------
(* EapPeer *)

NewPeer == [last_request |-> NoPacket, last_response |-> NoPacket,
            method |-> NewMethod]

Wait(p) == [action |-> "Wait", peer |-> p, response |-> NoPacket]
Result(p, action) == [Wait(p) EXCEPT !.action = action]

BugIsRetransmission(p, packet) == FALSE

\* The same Request again: the response to it is replayed.
IsRetransmission(p, packet) == p.last_request = packet

\* A Response is remembered together with its Request.
Respond(p, packet, type, method, body) ==
    LET response == Packet("response", packet.id, type, body)
    IN [action |-> "Respond", response |-> response,
        peer |-> [last_request |-> packet, last_response |-> response,
                  method |-> method]]

\* handle_packet on Success and Failure.
HandleResult(p, packet) ==
    IF \/ p.last_request # NoPacket /\ p.last_request.id # packet.id
       \/ packet.code = "success" /\ ~SuccessIndicationReceived(p.method)
    THEN Wait(p)
    ELSE Result(p, IF packet.code = "success" THEN "Success" ELSE "Failure")

\* handle_packet on a Request.
HandleEapRequest(p, packet, c) ==
    CASE IsRetransmission(p, packet) ->
            {[action |-> "Respond", peer |-> p, response |-> p.last_response]}
      [] ~IsRetransmission(p, packet)
         /\ packet.type \in {"identity", "notification"} ->
            {Respond(p, packet, packet.type, p.method, Ack)}
      [] ~IsRetransmission(p, packet) /\ packet.type = "tls" ->
            {Respond(p, packet, "tls", r.m, r.body) :
                r \in HandleRequest(p.method, c, packet.body)}
      [] ~IsRetransmission(p, packet) /\ packet.type = "other" ->
            {Respond(p, packet, "nak", p.method, Ack)}
      [] ~IsRetransmission(p, packet) /\ packet.type = "nak" -> {Wait(p)}

\* handle_packet: the possible results, none when it returns an error.
HandlePacket(p, packet, c) ==
    IF packet.code \in {"success", "failure"} THEN {HandleResult(p, packet)}
    ELSE HandleEapRequest(p, packet, c)

-----------------------------------------------------------------------------
(* EapClient and run_wired_interface *)

NoClient == [state |-> "None", peer |-> NewPeer]

\* One of the MaxTrouble disturbances happens.
Trouble ==
    /\ spent.trouble < MaxTrouble
    /\ spent' = [spent EXCEPT !.trouble = @ + 1]

\* The same for those after which frames no longer arrive in their order.
Reordering ==
    /\ spent.trouble < MaxTrouble
    /\ spent' = [spent EXCEPT !.trouble = @ + 1, !.reordered = TRUE]

\* init_with_auth succeeds, a fresh socket, peer and method, and the first
\* run() sends the EAPOL-Start: nothing is awaited in between.  Frames meant
\* for the client before have arrived by then, unless they are late.
InitClient ==
    /\ daemon = "idle" /\ attempt < MaxAttempt
    /\ IF toPeer = <<>> THEN UNCHANGED spent ELSE Trouble
    /\ attempt' = attempt + 1
    /\ client' = [state |-> "Authenticating", peer |-> NewPeer]
    /\ daemon' = "run"
    /\ toAuth' = Append(toAuth, EapolStart)
    /\ UNCHANGED <<connected, auth, toPeer, late>>

\* The failed client is kept for the next attempt.
BugTearDown ==
    /\ daemon' = "run"
    /\ client' = [client EXCEPT !.state = "Authenticating"]

\* run() returned Failed or an error: the client is dropped, the loop waits
\* and creates the next one.
TearDown ==
    /\ daemon' = "idle"
    /\ client' = NoClient

\* handle_eapol accepts an EAP-Success only when there is an MSK.
Authorized(p) == p.method.msk # NoMsk

\* handle_eapol, and what run_wired_interface makes of its outcome: the
\* result `r` of handle_packet is answered, or ends the attempt.
HandleEapol(r) ==
    \/ /\ r.action = "Respond"
       /\ client' = [client EXCEPT !.peer = r.peer]
       /\ toAuth' = Append(toAuth, r.response)
       /\ UNCHANGED daemon
    \/ /\ r.action = "Success" /\ Authorized(r.peer)
       /\ client' = [client EXCEPT !.state = "Connected"]
       /\ UNCHANGED <<daemon, toAuth>>
    \/ /\ \/ r.action = "Success" /\ ~Authorized(r.peer)
          \/ r.action = "Failure"
       /\ TearDown
       /\ UNCHANGED toAuth
    \/ /\ r.action = "Wait"
       /\ UNCHANGED <<client, daemon, toAuth>>

\* run() in state Authenticating, a frame is readable.
Receive(packet) ==
    /\ daemon = "run" /\ client.state = "Authenticating"
    /\ LET results == HandlePacket(client.peer, packet, attempt)
       IN \/ \E r \in results : HandleEapol(r)
          \/ results = {} /\ TearDown /\ UNCHANGED toAuth
    /\ UNCHANGED <<attempt, connected, auth>>

ReceiveNext ==
    /\ toPeer # <<>>
    /\ toPeer' = Tail(toPeer)
    /\ Receive(Head(toPeer))
    /\ UNCHANGED <<late, spent>>

ReceiveLate ==
    \E packet \in late :
        /\ late' = late \ {packet}
        /\ Receive(packet)
        /\ UNCHANGED <<toPeer, spent>>

\* Nothing is under way and the switch has nothing left to repeat.
Quiet ==
    /\ toPeer = <<>> /\ toAuth = <<>>
    /\ auth.phase = "wait" => spent.retry = MaxRetry

\* AUTH_EVENT_TIMEOUT_SECS without a frame: because nothing more comes, or
\* because it comes too late.
Timeout ==
    /\ daemon = "run" /\ client.state = "Authenticating"
    /\ \/ Quiet /\ UNCHANGED spent
       \/ ~Quiet /\ Trouble
    /\ TearDown
    /\ UNCHANGED <<attempt, connected, auth, toPeer, toAuth, late>>

\* A socket or send error, or an EapClient that cannot be created.
IoError ==
    /\ Trouble
    /\ \/ daemon = "run" /\ client.state # "Connected"
       \/ daemon = "idle"
    /\ TearDown
    /\ UNCHANGED <<attempt, connected, auth, toPeer, toAuth, late>>

\* run() returned Connected, or the retry timer of the hold loop fired: the
\* IP configuration is applied, and tried again later when that fails.
ApplyNetworkConfig ==
    /\ daemon \in {"run", "hold"} /\ client.state = "Connected" /\ ~connected
    /\ daemon' = "hold"
    /\ \/ connected' = TRUE /\ UNCHANGED spent
       \/ connected' = FALSE /\ Trouble
    /\ UNCHANGED <<client, attempt, auth, toPeer, toAuth, late>>

\* shutdown_rx changed: every select of the loop returns.
Shutdown ==
    /\ daemon # "stopped"
    /\ daemon' = "stopped" /\ client' = NoClient
    /\ UNCHANGED <<attempt, connected, auth, toPeer, toAuth, late, spent>>

-----------------------------------------------------------------------------
(* The authenticator of the switch (external): lock-step EAP with           *)
(* retransmission, and the server side of EAP-TLS.                           *)

\* One Request is outstanding in phase "wait".  `stage` is the last thing
\* sent: the identity request, another method or a notification, the Start,
\* the server's flight or the success indication.
NewAuth ==
    [phase |-> "idle", stage |-> "none", id |-> 0, req |-> NoPacket,
     c |-> 0, s |-> 0, rx |-> <<>>, tx |-> <<>>, off |-> 0, accepted |-> {}]

Ask(a, type, body) ==
    LET packet == Packet("request", (a.id + 1) % Ids, type, body)
    IN /\ auth' = [a EXCEPT !.phase = "wait", !.id = packet.id, !.req = packet]
       /\ toPeer' = Append(toPeer, packet)

Conclude(a, code) ==
    /\ auth' = [a EXCEPT !.phase = IF code = "success" THEN "done" ELSE "idle"]
    /\ toPeer' = Append(toPeer, Packet(code, a.id, "none", Ack))

AskIdentity == Ask([auth EXCEPT !.stage = "identity"], "identity", Ack)

\* A new TLS session.
AskStart ==
    Ask([auth EXCEPT !.stage = "start", !.s = @ + 1, !.c = 0, !.rx = <<>>,
                     !.tx = <<>>, !.off = 0], "tls", Start)

SendFragment(a) ==
    LET body == Fragment(a.tx, a.off, AuthFrag)
    IN Ask([a EXCEPT !.off = @ + Len(body.data)], "tls", body)

\* A whole client flight: the handshake moves on, or is refused.
TakeFlight(data) ==
    LET c == data[1][2]
    IN \/ /\ auth.stage = "start" /\ data = ClientHello(c)
          /\ SendFragment([auth EXCEPT
                 !.stage = "hello", !.c = c, !.rx = <<>>, !.off = 0,
                 !.tx = ServerHello(c, auth.s)])
          /\ UNCHANGED spent
       \/ /\ auth.stage = "hello" /\ data = ClientFinished(auth.c, auth.s)
          /\ \/ SendFragment([auth EXCEPT
                    !.stage = "commit", !.rx = <<>>, !.off = 0,
                    !.tx = Commitment(auth.c, auth.s),
                    !.accepted = @ \cup {<<auth.c, auth.s>>}])
                /\ UNCHANGED spent
             \/ Trouble
                /\ Conclude(auth, "failure")
       \/ /\ ~(auth.stage = "start" /\ data = ClientHello(c))
          /\ ~(auth.stage = "hello" /\ data = ClientFinished(auth.c, auth.s))
          /\ Conclude(auth, "failure") /\ UNCHANGED spent

TakeTls(body) ==
    \/ /\ auth.off < Len(auth.tx) /\ body = Ack
       /\ SendFragment(auth) /\ UNCHANGED spent
    \/ /\ auth.off = Len(auth.tx) /\ body = Ack /\ auth.stage = "commit"
       /\ Conclude(auth, "success") /\ UNCHANGED spent
    \/ /\ auth.off = Len(auth.tx) /\ body # Ack
       /\ IF body.more
          THEN /\ Ask([auth EXCEPT !.rx = @ \o body.data], "tls", Ack)
               /\ UNCHANGED spent
          ELSE TakeFlight(auth.rx \o body.data)
    \/ /\ \/ auth.off < Len(auth.tx) /\ body # Ack
          \/ auth.off = Len(auth.tx) /\ body = Ack /\ auth.stage # "commit"
       /\ Conclude(auth, "failure") /\ UNCHANGED spent

AuthReceive ==
    /\ toAuth # <<>> /\ toAuth' = Tail(toAuth)
    /\ LET packet == Head(toAuth)
           expected == /\ packet.code = "response" /\ auth.phase = "wait"
                       /\ packet.id = auth.id
       IN \/ packet = EapolStart /\ AskIdentity /\ UNCHANGED spent
          \/ /\ expected /\ auth.req.type # "tls"
             /\ \/ AskStart
                \/ /\ auth.stage = "identity"
                   /\ \E type \in {"notification", "other"} :
                          Ask([auth EXCEPT !.stage = "offer"], type, Ack)
             /\ UNCHANGED spent
          \/ expected /\ auth.req.type = "tls" /\ TakeTls(packet.body)
          \/ ~expected /\ packet # EapolStart /\ UNCHANGED <<auth, toPeer, spent>>
    /\ UNCHANGED <<client, attempt, daemon, connected, late>>

\* No answer in time: the Request is sent again.
AuthRetransmit ==
    /\ auth.phase = "wait" /\ spent.retry < MaxRetry
    /\ spent' = [spent EXCEPT !.retry = @ + 1]
    /\ toPeer' = Append(toPeer, auth.req)
    /\ UNCHANGED <<client, attempt, daemon, connected, auth, toAuth, late>>

\* No answer at all.
AuthGiveUp ==
    /\ auth.phase = "wait" /\ Quiet
    /\ Conclude(auth, "failure")
    /\ UNCHANGED <<client, attempt, daemon, connected, toAuth, late, spent>>

\* The switch starts over by itself.
AuthRestart ==
    /\ Reordering
    /\ AskIdentity
    /\ UNCHANGED <<client, attempt, daemon, connected, toAuth, late>>

-----------------------------------------------------------------------------
(* The link *)

Lose ==
    /\ Trouble
    /\ \/ toPeer # <<>> /\ toPeer' = Tail(toPeer) /\ UNCHANGED toAuth
       \/ toAuth # <<>> /\ toAuth' = Tail(toAuth) /\ UNCHANGED toPeer
    /\ UNCHANGED <<client, attempt, daemon, connected, auth, late>>

\* No socket is open: the frame reaches nobody.
Unheard ==
    /\ daemon # "run" /\ toPeer # <<>> /\ toPeer' = Tail(toPeer)
    /\ UNCHANGED <<client, attempt, daemon, connected, auth, toAuth, late, spent>>

\* A copy of a frame takes a longer way.
Duplicate ==
    /\ Reordering /\ toPeer # <<>>
    /\ late' = late \cup {Head(toPeer)}
    /\ UNCHANGED <<client, attempt, daemon, connected, auth, toPeer, toAuth>>

-----------------------------------------------------------------------------

Init ==
    /\ client = NoClient /\ attempt = 0 /\ daemon = "idle" /\ connected = FALSE
    /\ auth = NewAuth /\ toPeer = <<>> /\ toAuth = <<>> /\ late = {}
    /\ spent = [retry |-> 0, trouble |-> 0, reordered |-> FALSE]

Next ==
    \/ InitClient \/ ReceiveNext \/ ReceiveLate \/ Timeout
    \/ IoError \/ ApplyNetworkConfig \/ Shutdown
    \/ AuthReceive \/ AuthRetransmit \/ AuthGiveUp \/ AuthRestart
    \/ Lose \/ Unheard \/ Duplicate

Spec == Init /\ [][Next]_vars

\* The task runs and its timers fire, frames arrive, and the switch answers,
\* retransmits and gives up.  Nothing is assumed of the disturbances.
FairSpec ==
    /\ Spec
    /\ WF_vars(InitClient) /\ WF_vars(ReceiveNext)
    /\ WF_vars(Timeout) /\ WF_vars(ApplyNetworkConfig)
    /\ WF_vars(AuthReceive) /\ WF_vars(AuthRetransmit) /\ WF_vars(AuthGiveUp)
    /\ WF_vars(Unheard)

-----------------------------------------------------------------------------
(* Properties *)

\* The parts of the client keep their shape: in particular the transmit
\* offset stays inside a queue that still has something to send, and the
\* fragments received never exceed the announced total (eap_tls.rs).
TypeOK ==
    /\ client.state \in {"None", "Authenticating", "Connected"}
    /\ daemon \in {"idle", "run", "hold", "stopped"}
    /\ connected \in BOOLEAN
    /\ attempt \in 0 .. MaxAttempt
    /\ auth.phase \in {"idle", "wait", "done"} /\ auth.id \in 0 .. Ids - 1
    /\ LET m == client.peer.method
       IN /\ m.tx_queue = <<>> => m.tx_offset = 0
          /\ m.tx_queue # <<>> => m.tx_offset < Len(m.tx_queue)
          /\ m.rx_expected_len # NoLen => Len(m.rx_fragments) <= m.rx_expected_len

\* A port that reports Connected holds the MSK of a TLS session in which the
\* switch has verified our Finished: no EAP-Success of an earlier session, whether late, repeated
\* or carrying an identifier that is in use again, authorises it
\* (handle_packet in eap.rs, the MSK check of handle_eapol in wired/eap.rs).
ConnectedAuthorized ==
    client.state = "Connected" => client.peer.method.msk \in auth.accepted

\* Losses and retransmissions never damage the TLS stream: as long as frames
\* stay in order and the switch does not start over by itself, what is
\* reassembled on either side is the beginning of one flight (the replay of
\* the last response in handle_packet, the reassembly of handle_request).
IsPrefixOfOne(data, flights) ==
    \E f \in flights : Len(data) <= Len(f) /\ data = SubSeq(f, 1, Len(data))
StreamIntact ==
    ~spent.reordered =>
        \E c \in 0 .. attempt, s \in 0 .. auth.s :
            /\ IsPrefixOfOne(client.peer.method.rx_fragments,
                             {ServerHello(c, s)})
            /\ \E d \in 0 .. attempt :
                   IsPrefixOfOne(auth.rx, {ClientHello(d), ClientFinished(d, auth.s)})

\* Whatever is lost, repeated, delayed, refused or restarted, the port ends
\* up authorised with its IP configuration applied, unless the daemon is shut
\* down: a failed client is always replaced by a fresh one
\* (run_wired_interface).
EventuallyConnected == <>[](connected \/ daemon = "stopped")
=============================================================================
