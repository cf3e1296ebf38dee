-------------------------------- MODULE Mka ---------------------------------
(***************************************************************************)
(* MACsec Key Agreement between the participants of one Ethernet segment:  *)
(* MkaSession of src/wired/mka.rs, one per node, each with its MACsec      *)
(* netdev (module Macsec), exchanging MKPDUs over a lossy broadcast wire.  *)
(*                                                                         *)
(* A node's session state is one record st[n]; the functions of the code   *)
(* (elect_key_server, ensure_sak, ...) are operators from record to        *)
(* record, composed in the order run() and handle_frame() call them.  One  *)
(* call of run() is two actions, split at the only point where it waits    *)
(* for a frame: RunTop and RunReceive / RunTimeout.                        *)
(*                                                                         *)
(* Member numbers only ever enter the code through differences between     *)
(* them, so they are kept as ages: the age of a number of member m is how  *)
(* far it lies behind the number m will send next, saturated at MaxAge.    *)
(* When m sends, every copy of one of its numbers grows a step older.      *)
(***************************************************************************)
EXTENDS Naturals, Sequences, FiniteSets, Macsec

CONSTANTS
    Node,              \* the participants; a node is its own SCI (MAC, port 1)
    Priority,          \* key_server_priority of each node
    KeyServerCapable,  \* nodes with can_be_key_server
    MacsecCapable,     \* nodes that advertise a MACsec capability
    Encrypting,        \* the configurations: sets of nodes with encrypt set
    PnReporters,       \* nodes whose SAK Use may report PN exhaustion
    Prompt,            \* timers only fire on an idle wire
    Lockstep,          \* all nodes get to wait, in turn, before a frame arrives
    QueueCap,          \* MKPDUs of one sender in a queue; older ones are lost
    MaxAge,            \* saturation of member number ages
    MaxMi,             \* member identifiers one node goes through
    MaxKn,             \* SAKs one node generates in a run of the model
    MaxLoss,           \* other MKPDUs lost on the way to one receiver
    MaxSilence,        \* times a living peer goes unheard for MKA Life
    MaxReset           \* times a session is torn down and rebuilt, or a foreign
                       \* participant uses our own MI

ASSUME MkaAssumption ==
    /\ Node \subseteq Nat \ {0} /\ IsFiniteSet(Node)
    /\ Priority \in [Node -> Nat]
    /\ KeyServerCapable \subseteq Node /\ MacsecCapable \subseteq Node
    /\ Encrypting \subseteq SUBSET Node /\ PnReporters \subseteq Node
    /\ Prompt \in BOOLEAN /\ Lockstep \in BOOLEAN
    /\ QueueCap \in Nat \ {0} /\ MaxAge \in Nat /\ MaxAge > 2

VARIABLES
    st,        \* the session of each node, with its netdev
    pc,        \* "top" of run(), or "wait"ing for a frame
    queue,     \* the MKPDUs on their way to, or in the socket of, each node
    spent,     \* how often each bounded event of the environment happened
    tx_ever,   \* history: <<node, SAK>> the node's netdev has transmitted with
    rx_ever    \* history: <<MI, SAK>> the member has installed for reception

vars == <<st, pc, queue, spent, tx_ever, rx_ever>>

Mi == Node \X (1..MaxMi)
KeyId == Mi \X (1..MaxKn)
NoKey == <<>>
NoSci == 0
NoDist == <<>>
NoUse == <<>>

-----------------------------------------------------------------------------
(* Peers *)

LivePeers(x) == {m \in DOMAIN x.peers : x.peers[m].live}
HasLivePeer(x) == LivePeers(x) # {}
LivePeerScis(x) == {x.peers[m].sci : m \in LivePeers(x)} \ {NoSci}
PendingRxScis(x) ==
    {x.peers[m].sci : m \in {l \in LivePeers(x) : ~x.peers[l].rx_installed}}
      \ {NoSci}
PeersSupportMacsec(x) == \A m \in LivePeers(x) : x.peers[m].capable
IsElectedKeyServer(x, sci) == x.key_server_sci # NoSci /\ sci = x.key_server_sci
BugSecured(x) == x.lki # NoKey /\ x.lrx /\ HasLivePeer(x)
Secured(x) == x.lki # NoKey /\ x.lrx /\ x.ltx /\ HasLivePeer(x)

\* Peers ms are marked as able to receive with the latest SAK, or as received
\* with it.
SetRxReady(x, ms, ready) ==
    [x EXCEPT !.peers = [m \in DOMAIN x.peers |->
        IF m \in ms THEN [x.peers[m] EXCEPT !.rx_ready = ready] ELSE x.peers[m]]]
SetRxInstalled(x, ms, installed) ==
    [x EXCEPT !.peers = [m \in DOMAIN x.peers |->
        IF m \in ms THEN [x.peers[m] EXCEPT !.rx_installed = installed]
        ELSE x.peers[m]]]

\* A peer learned from a frame of its own, and one known only from the list of
\* another peer.
NewPeer(sci, age) ==
    [age |-> age, sci |-> sci, key_server |-> FALSE, capable |-> FALSE,
     live |-> FALSE, stale |-> FALSE, rx_ready |-> FALSE, rx_installed |-> FALSE]

-----------------------------------------------------------------------------
(* Key server election and SAK management *)

Better(a, b) ==
    Priority[a] < Priority[b] \/ (Priority[a] = Priority[b] /\ a < b)

\* The lowest (priority, SCI) among this node, when it may serve, and its live
\* peers that set the key server flag.
ElectKeyServer(n, x) ==
    LET servers == {m \in LivePeers(x) : x.peers[m].key_server}
        candidates == {x.peers[m].sci : m \in servers}
                      \union ({n} \intersect KeyServerCapable)
        best == IF candidates = {} THEN NoSci
                ELSE CHOOSE a \in candidates :
                        \A b \in candidates \ {a} : Better(a, b)
        elected == best = n
        changed == elected # x.is_key_server
    IN  [x EXCEPT !.is_key_server = elected,
                  !.key_server_sci = best,
                  !.need_send = @ \/ changed,
                  !.need_new_sak = IF changed THEN elected ELSE @,
                  !.dist_sak = IF changed /\ ~elected THEN NoDist ELSE @]

\* The rekey conditions of ensure_sak: the current SAK is not our own, or a new
\* one is asked for and MKA Life has passed since the last.
BugSakDue(x) == x.lki = NoKey \/ x.lki[1] # x.mi
SakDue(x) ==
    IF x.lki # NoKey /\ x.lki[1] = x.mi THEN x.need_new_sak /\ x.sak_aged
    ELSE TRUE

BugNextKn(x) == x.next_kn
NextKn(x) == x.next_kn + 1

\* No peer is known to receive, or to be received, with the new SAK.
BugForgetReceivers(x) == SetRxInstalled(x, DOMAIN x.peers, FALSE)
ForgetReceivers(x) ==
    SetRxInstalled(SetRxReady(x, DOMAIN x.peers, FALSE), DOMAIN x.peers, FALSE)

\* ensure_sak: a key server with live, capable peers makes a SAK when one is
\* due, to be received with at once and transmitted with once all peers can.
EnsureSak(n, x) ==
    LET an == (x.lan + 1) % 4
        ki == <<x.mi, x.next_kn>>
        scis == LivePeerScis(x)
        y == [x EXCEPT !.lki = ki, !.lan = an, !.ltx = FALSE, !.lrx = TRUE,
                       !.next_kn = NextKn(x), !.sak_aged = FALSE,
                       !.need_new_sak = FALSE, !.need_send = TRUE,
                       !.dist_sak = [kn |-> x.next_kn, an |-> an,
                                     encrypt |-> x.encrypt],
                       !.dev = InstallRxSas(InstallTxSa(@, an, ki), scis, an, ki)]
    IN  IF x.is_key_server /\ HasLivePeer(x) /\ PeersSupportMacsec(x) /\ SakDue(x)
        THEN SetRxInstalled(ForgetReceivers(y),
                            {m \in LivePeers(x) : x.peers[m].sci \in scis}, TRUE)
        ELSE x

\* install_rx_sas_for_live_peers: live peers that still lack an RX SA get one.
BugInstallRxSas(x) ==
    SetRxInstalled(x, {m \in DOMAIN x.peers : x.peers[m].sci \in PendingRxScis(x)},
                   TRUE)
InstallRxSasForLivePeers(x) ==
    LET pending == PendingRxScis(x)
    IN  IF x.lki = NoKey \/ pending = {} THEN x
        ELSE SetRxInstalled(
                [x EXCEPT !.dev = InstallRxSas(@, pending, x.lan, x.lki)],
                {m \in DOMAIN x.peers : x.peers[m].sci \in pending}, TRUE)

ActivateTxSa(x) ==
    [x EXCEPT !.ltx = TRUE, !.need_send = TRUE, !.dev = SetTxSaActive(@, x.lan)]

\* drop_unsecure_sak: without a live peer the SAs and the SAK go.
BugDropUnsecureSak(x) ==
    IF x.lki = NoKey \/ HasLivePeer(x) THEN x
    ELSE [x EXCEPT !.lki = NoKey, !.ltx = FALSE, !.lrx = FALSE,
                   !.dist_sak = NoDist, !.need_send = TRUE]
DropUnsecureSak(x) ==
    IF x.lki = NoKey \/ HasLivePeer(x) THEN x
    ELSE SetRxReady([x EXCEPT !.dev = ClearSas(@), !.lki = NoKey, !.lan = 0,
                              !.ltx = FALSE, !.lrx = FALSE, !.dist_sak = NoDist,
                              !.sak_aged = TRUE, !.need_new_sak = FALSE,
                              !.need_send = TRUE],
                    DOMAIN x.peers, FALSE)

ExpiredPeers(x) == {m \in DOMAIN x.peers : x.peers[m].stale}
ExpiredScis(x) == {x.peers[m].sci : m \in ExpiredPeers(x)} \ {NoSci}

\* expire_peers: forget the peers not heard for MKA Life and elect again.
ExpirePeers(n, x) ==
    LET kept == DOMAIN x.peers \ ExpiredPeers(x)
        y == [x EXCEPT !.peers = [m \in kept |-> x.peers[m]],
                       !.need_send = TRUE]
    IN  IF ExpiredPeers(x) = {} THEN x
        ELSE ElectKeyServer(n, [y EXCEPT !.need_new_sak =
                 @ \/ (x.is_key_server /\ x.lki # NoKey /\ HasLivePeer(y))])

\* reset_mi: a new member identifier and no peers; the key number, the
\* association number and the netdev are left as they are.
ResetMi(n, x) ==
    [x EXCEPT !.mi = <<n, @[2] + 1>>, !.peers = <<>>,
              !.is_key_server = n \in KeyServerCapable,
              !.key_server_sci = NoSci, !.lki = NoKey, !.dist_sak = NoDist,
              !.sak_aged = TRUE, !.ltx = FALSE, !.lrx = FALSE,
              !.need_new_sak = FALSE, !.need_send = TRUE]

-----------------------------------------------------------------------------
(* handle_frame, stage by stage *)

\* The sender's entry takes the fields of the frame; a member whose number
\* grew always asks for an answer.
UpdatePeer(x, p) ==
    LET old == IF p.mi \in DOMAIN x.peers THEN x.peers[p.mi]
               ELSE NewPeer(p.sci, p.age)
        new == [old EXCEPT !.age = p.age, !.sci = p.sci, !.stale = FALSE,
                           !.key_server = p.key_server, !.capable = p.capable]
    IN  [x EXCEPT !.peers = [m \in DOMAIN x.peers \union {p.mi} |->
                                IF m = p.mi THEN new ELSE x.peers[m]],
                  !.need_send = TRUE]

\* The sender is live once it lists one of the last two numbers we sent.
PromoteSender(x, p) ==
    LET knows_us == x.mi \in DOMAIN p.heard /\ p.heard[x.mi] \in 1..2
    IN  IF knows_us /\ ~x.peers[p.mi].live
        THEN [x EXCEPT !.peers[p.mi].live = TRUE,
                       !.need_send = TRUE,
                       !.need_new_sak = @ \/ (x.is_key_server /\ x.lki # NoKey)]
        ELSE x

\* The live peers of a live sender become potential peers of ours.
BugLearnPeers(x, p) ==
    [x EXCEPT !.peers = [m \in DOMAIN x.peers \union p.live |->
                            IF m \in DOMAIN x.peers THEN x.peers[m]
                            ELSE NewPeer(NoSci, p.heard[m])]]
LearnPeers(x, p) ==
    LET unknown == p.live \ (DOMAIN x.peers \union {x.mi})
    IN  IF x.peers[p.mi].live /\ unknown # {}
        THEN [x EXCEPT !.peers = [m \in DOMAIN x.peers \union unknown |->
                                    IF m \in DOMAIN x.peers THEN x.peers[m]
                                    ELSE NewPeer(NoSci, p.heard[m])],
                       !.need_send = TRUE]
        ELSE x

\* sak_use_matches: the frame's SAK Use is about our latest SAK.
SakUseMatches(x, p) ==
    p.sak_use # NoUse /\ x.lki # NoKey /\ p.sak_use.ki = x.lki

BugStopDistributing(x) == x
StopDistributing(x) == [x EXCEPT !.dist_sak = NoDist]

\* SAK Use of our latest SAK: the key server counts who can receive and starts
\* transmitting when all live peers can; a member follows its key server.
HandleSakUse(x, p) ==
    LET sender == x.peers[p.mi]
        y == [SetRxReady(x, {p.mi}, p.sak_use.rx)
                EXCEPT !.need_new_sak = @ \/ p.sak_use.exhausted]
        all_ready == \A m \in LivePeers(y) : y.peers[m].rx_ready
        follow == /\ sender.key_server /\ IsElectedKeyServer(x, sender.sci)
                  /\ p.sak_use.tx /\ ~x.ltx
    IN  IF ~SakUseMatches(x, p) THEN x
        ELSE IF x.is_key_server /\ sender.live
             THEN IF ~all_ready THEN y
                  ELSE StopDistributing(IF y.ltx THEN y ELSE ActivateTxSa(y))
        ELSE IF ~x.is_key_server /\ follow THEN ActivateTxSa(x)
        ELSE x

\* Whether the Distributed SAK of the frame is for us to take.
DistSakApplies(x, p) ==
    LET sender == x.peers[p.mi]
    IN  /\ p.dist_sak # NoDist
        /\ sender.live /\ sender.key_server
        /\ IsElectedKeyServer(x, sender.sci) /\ ~x.is_key_server

BugDistSakSupported(x, p) == TRUE
DistSakSupported(x, p) == x.encrypt = p.dist_sak.encrypt

\* A new SAK of the elected key server becomes the latest: receive with it at
\* once, transmit only when the key server does.
InstallDistSak(x, p) ==
    LET ki == <<p.mi, p.dist_sak.kn>>
        an == p.dist_sak.an
        scis == LivePeerScis(x) \union {x.peers[p.mi].sci}
    IN  IF x.lki = ki THEN x
        ELSE SetRxInstalled(
                [x EXCEPT !.lki = ki, !.lan = an, !.lrx = TRUE, !.ltx = FALSE,
                          !.need_send = TRUE,
                          !.dev = InstallTxSa(InstallRxSas(@, scis, an, ki),
                                              an, ki)],
                {m \in LivePeers(x) : x.peers[m].sci \in scis}, TRUE)

\* The whole of handle_frame.  A stage is applied to each member of a set with
\* one element, the session left by the stage before it.
HandleFrame(n, x, p) ==
    LET updated  == {UpdatePeer(x, p)}
        promoted == {PromoteSender(y, p) : y \in updated}
        learned  == {LearnPeers(y, p) : y \in promoted}
        elected  == {ElectKeyServer(n, y) : y \in learned}
        used     == {HandleSakUse(y, p) : y \in elected}
        Rest(y)  == IF ~DistSakApplies(y, p) THEN {EnsureSak(n, y)}
                    ELSE {EnsureSak(n, z) : z \in {InstallDistSak(y, p)}}
        ignored  == p.mi \in DOMAIN x.peers /\ x.peers[p.mi].age <= p.age
    IN  IF ignored THEN {x}
        ELSE UNION {IF DistSakApplies(y, p) /\ ~DistSakSupported(y, p) THEN {y}
                    ELSE {InstallRxSasForLivePeers(z) : z \in Rest(y)}
                    : y \in used}

-----------------------------------------------------------------------------
(* The wire *)

\* send_mkpdu's frame: both peer lists with the member numbers heard, the use
\* of the latest SAK, and the SAK to distribute when we are the key server.
Mkpdu(n, x, exhausted) ==
    [mi |-> x.mi, sci |-> n, age |-> 1, key_server |-> x.is_key_server,
     capable |-> n \in MacsecCapable,
     heard |-> [m \in DOMAIN x.peers |-> x.peers[m].age],
     live |-> LivePeers(x),
     sak_use |-> IF x.lki = NoKey THEN NoUse
                 ELSE [ki |-> x.lki, tx |-> x.ltx, rx |-> x.lrx,
                       exhausted |-> exhausted],
     dist_sak |-> IF x.is_key_server THEN x.dist_sak ELSE NoDist]

Older(age) == IF age < MaxAge THEN age + 1 ELSE MaxAge

\* mi has sent one more frame: its member numbers held by x, and those inside
\* a frame in flight, lie one further back.
AgePeers(x, mi) ==
    IF mi \in DOMAIN x.peers
    THEN [x EXCEPT !.peers[mi].age = Older(@)] ELSE x
AgeFrame(p, mi) ==
    [p EXCEPT !.age = IF p.mi = mi THEN Older(@) ELSE @,
              !.heard = [m \in DOMAIN @ |->
                            IF m = mi THEN Older(@[m]) ELSE @[m]]]
AgeQueue(q, mi) == [i \in DOMAIN q |-> AgeFrame(q[i], mi)]

\* Queue q without its k-th frame; a socket that is full of a sender's frames
\* loses the oldest of them to a new one.
Without(q, k) == [i \in 1..(Len(q) - 1) |-> IF i < k THEN q[i] ELSE q[i + 1]]
Enqueue(q, p) ==
    LET same == {i \in 1..Len(q) : q[i].sci = p.sci}
        oldest == CHOOSE i \in same : \A j \in same : i <= j
    IN  Append(IF Cardinality(same) < QueueCap THEN q ELSE Without(q, oldest), p)

\* Whether the SAK Use of a frame n sends reports PN exhaustion: a foreign
\* implementation may (this one always sends packet number 0).  Bounded to the
\* time before anyone's second SAK.
Exhaustion(n) ==
    IF n \in PnReporters /\ \A m \in Node : st[m].next_kn <= 2
    THEN BOOLEAN ELSE {FALSE}

\* Node n becomes x with the queues q, and sends a frame of x if send holds.
Finish(n, x, q, send) ==
    /\ x.next_kn <= MaxKn + 1
    /\ IF send
       THEN /\ st' = [m \in Node |->
                 IF m = n THEN [x EXCEPT !.need_send = FALSE,
                                         !.hello_due = FALSE]
                 ELSE AgePeers(st[m], x.mi)]
            /\ \E exhausted \in Exhaustion(n) :
                 queue' = [m \in Node |->
                     IF m = n THEN AgeQueue(q[m], x.mi)
                     ELSE Enqueue(AgeQueue(q[m], x.mi), Mkpdu(n, x, exhausted))]
       ELSE /\ st' = [st EXCEPT ![n] = x]
            /\ queue' = q
    /\ tx_ever' = tx_ever \union ({n} \X TxKeys(x.dev))
    /\ rx_ever' = rx_ever \union ({x.mi} \X {sa.ki : sa \in x.dev.rx})

-----------------------------------------------------------------------------
(* MkaSession::new, run and the environment *)

BugNewSession(n, mi, encrypt) ==
    [mi |-> <<n, 1>>, encrypt |-> encrypt, peers |-> <<>>,
     is_key_server |-> n \in KeyServerCapable, key_server_sci |-> NoSci,
     lki |-> NoKey, lan |-> 0, ltx |-> FALSE, lrx |-> FALSE,
     dist_sak |-> NoDist, next_kn |-> 1, sak_aged |-> TRUE,
     hello_due |-> TRUE, need_send |-> TRUE, need_new_sak |-> FALSE,
     dev |-> MacsecCreate]
NewSession(n, mi, encrypt) ==
    ElectKeyServer(n,
      [mi |-> mi, encrypt |-> encrypt, peers |-> <<>>,
       is_key_server |-> n \in KeyServerCapable, key_server_sci |-> NoSci,
       lki |-> NoKey, lan |-> 0, ltx |-> FALSE, lrx |-> FALSE,
       dist_sak |-> NoDist, next_kn |-> 1, sak_aged |-> TRUE,
       hello_due |-> TRUE, need_send |-> TRUE, need_new_sak |-> FALSE,
       dev |-> MacsecCreate])

Init ==
    /\ \E enc \in Encrypting :
          st = [n \in Node |-> NewSession(n, <<n, 1>>, n \in enc)]
    /\ pc = [n \in Node |-> "top"]
    /\ queue = [n \in Node |-> <<>>]
    /\ spent = [loss |-> 0, silence |-> 0, reset |-> 0]
    /\ tx_ever = {}
    /\ rx_ever = {}

\* run(), up to the wait: expired peers lose their RX channels, a SAK without
\* live peers is dropped, and a frame goes out if one is asked for or a hello
\* is due.
RunTop(n) ==
    /\ pc[n] = "top" /\ (Lockstep => \A m \in Node : m < n => pc[m] = "wait")
    /\ \E x \in {ExpirePeers(n, st[n])} :
         \E y \in {[x EXCEPT !.dev = RemoveRxScs(@, ExpiredScis(st[n]))]} :
           \E z \in {DropUnsecureSak(y)} :
             Finish(n, z, queue, z.need_send \/ z.hello_due)
    /\ pc' = [pc EXCEPT ![n] = "wait"]
    /\ UNCHANGED spent

\* run(), after the wait, with x the session after the frame (if any): peers
\* expire again, but here the SCIs that expire_peers returns are not used.
RunBottom(n, x, q) ==
    /\ \E y \in {ExpirePeers(n, x)} :
         \E z \in {EnsureSak(n, DropUnsecureSak(y))} :
           Finish(n, z, q, z.need_send)
    /\ pc' = [pc EXCEPT ![n] = "top"]

AllWait == \A n \in Node : pc[n] = "wait"

RunReceive(n) ==
    /\ pc[n] = "wait" /\ queue[n] # <<>>
    /\ Lockstep => AllWait
    /\ \E x \in HandleFrame(n, st[n], Head(queue[n])) :
         RunBottom(n, x, [queue EXCEPT ![n] = Tail(@)])
    /\ UNCHANGED spent

\* A frame to n is lost on the wire, or dropped by the full socket buffer.
Lose(n) ==
    /\ queue[n] # <<>> /\ spent.loss < MaxLoss
    /\ queue' = [queue EXCEPT ![n] = Tail(@)]
    /\ spent' = [spent EXCEPT !.loss = @ + 1]
    /\ UNCHANGED <<st, pc, tx_ever, rx_ever>>

Idle == \A n \in Node : ~st[n].need_send /\ queue[n] = <<>>

\* No frame came before the next hello.
RunTimeout(n) ==
    /\ pc[n] = "wait" /\ queue[n] = <<>>
    /\ Prompt => Idle
    /\ RunBottom(n, [st[n] EXCEPT !.hello_due = TRUE], queue)
    /\ UNCHANGED spent

\* The frame received carries our own MI, or lists it with a number we have not
\* sent: another participant of the segment picked the same MI.
RunCollision(n) ==
    /\ pc[n] = "wait" /\ spent.reset < MaxReset
    /\ st[n].mi[2] < MaxMi
    /\ RunBottom(n, ResetMi(n, st[n]), queue)
    /\ spent' = [spent EXCEPT !.reset = @ + 1]

\* run() failed (a netlink or socket error) or the port was restarted: the
\* daemon removes the netdev and builds a new session on a new socket.
Restart(n) ==
    /\ spent.reset < MaxReset
    /\ st[n].mi[2] < MaxMi
    /\ st' = [st EXCEPT ![n] = NewSession(n, <<n, @.mi[2] + 1>>, @.encrypt)]
    /\ pc' = [pc EXCEPT ![n] = "top"]
    /\ queue' = [queue EXCEPT ![n] = <<>>]
    /\ spent' = [spent EXCEPT !.reset = @ + 1]
    /\ UNCHANGED <<tx_ever, rx_ever>>

\* The hello timer of n passes while frames keep arriving.
HelloTimer(n) ==
    /\ ~Prompt /\ ~st[n].hello_due
    /\ st' = [st EXCEPT ![n].hello_due = TRUE]
    /\ UNCHANGED <<pc, queue, spent, tx_ever, rx_ever>>

\* MKA Life has passed since n generated its last SAK.
SakTimer(n) ==
    /\ ~st[n].sak_aged /\ (Lockstep => AllWait)
    /\ st' = [st EXCEPT ![n].sak_aged = TRUE]
    /\ UNCHANGED <<pc, queue, spent, tx_ever, rx_ever>>

\* Member identifier m is not in use any more, and n either heard its frames
\* or everyone who lists it as live has let go of it.
Retired(n, m) ==
    /\ st[m[1]].mi # m
    /\ \/ st[n].peers[m].sci # NoSci
       \/ /\ \A k \in Node : m \notin LivePeers(st[k])
          /\ \A i \in DOMAIN queue[n] : m \notin queue[n][i].live

\* MKA Life has passed since n heard (of) the member identifier m.  That is
\* bound to happen once m is no longer in use and nobody lists it as live;
\* before that all frames of m to n were lost for MKA Life (or n heard of m so
\* late in its life that its own entry ends first), MaxSilence times.
PeerTimer(n, m) ==
    /\ m \in DOMAIN st[n].peers /\ ~st[n].peers[m].stale
    /\ st' = [st EXCEPT ![n].peers[m].stale = TRUE]
    /\ IF Retired(n, m)
       THEN UNCHANGED spent
       ELSE /\ spent.silence < MaxSilence
            /\ spent' = [spent EXCEPT !.silence = @ + 1]
    /\ UNCHANGED <<pc, queue, tx_ever, rx_ever>>

Next ==
    \E n \in Node :
        \/ RunTop(n)
        \/ RunReceive(n)
        \/ Lose(n)
        \/ RunTimeout(n)
        \/ RunCollision(n)
        \/ Restart(n)
        \/ HelloTimer(n)
        \/ SakTimer(n)
        \/ \E m \in Mi : PeerTimer(n, m)

\* Each session is driven forever, its timers pass, and an identifier that is
\* no longer in use is eventually not heard for MKA Life.
Fairness ==
    \A n \in Node :
        /\ WF_vars(RunTop(n))
        /\ WF_vars(RunReceive(n))
        /\ WF_vars(RunTimeout(n))
        /\ WF_vars(SakTimer(n))
        /\ \A m \in Mi : WF_vars(PeerTimer(n, m) /\ Retired(n, m))

Spec == Init /\ [][Next]_vars
FairSpec == Spec /\ Fairness

-----------------------------------------------------------------------------
(* Properties *)

Peer == [age : 0..MaxAge, sci : Node \union {NoSci}, key_server : BOOLEAN,
         capable : BOOLEAN, live : BOOLEAN, stale : BOOLEAN,
         rx_ready : BOOLEAN, rx_installed : BOOLEAN]

\* The sessions and their netdevs are well formed: a netdev holds at most one
\* SA per association number (and channel), as the kernel's tables do.
TypeOK ==
    /\ pc \in [Node -> {"top", "wait"}]
    /\ \A n \in Node :
        LET x == st[n] IN
        /\ x.mi \in Mi /\ x.lan \in AN /\ x.lki \in KeyId \union {NoKey}
        /\ x.key_server_sci \in Node \union {NoSci}
        /\ DOMAIN x.peers \subseteq Mi \ {x.mi}
        /\ \A m \in DOMAIN x.peers : x.peers[m] \in Peer
        /\ \A f \in {"is_key_server", "ltx", "lrx", "sak_aged", "hello_due",
                     "need_send", "need_new_sak"} : x[f] \in BOOLEAN
        /\ \A a, b \in x.dev.tx : a.an = b.an => a = b
        /\ \A a, b \in x.dev.rx : a.sci = b.sci /\ a.an = b.an => a = b
        /\ Len(queue[n]) <= QueueCap * Cardinality(Node \ {n})

\* What the session claims is what the kernel does: while ltx is set, the
\* netdev transmits with the latest SAK and nothing else (secured() reports the
\* port as Connected on the strength of ltx).
TxMatchesKernel ==
    \A n \in Node : st[n].ltx => TxKeys(st[n].dev) = {st[n].lki}

\* rx_installed, as its comment has it: an RX SA for the current SAK is
\* installed for the SCI of that peer.
RxInstalledMatchesKernel ==
    \A n \in Node :
        LET x == st[n] IN
        x.lki # NoKey =>
            \A m \in LivePeers(x) :
                x.peers[m].rx_installed =>
                    [sci |-> x.peers[m].sci, an |-> x.lan, ki |-> x.lki]
                        \in x.dev.rx

\* A key server starts transmitting with a SAK only when every member it
\* believes live has installed that SAK for reception.
ActivateOnlyWhenAllReceive ==
    [][\A n \in Node :
          (st'[n].is_key_server /\ st'[n].ltx /\ ~st[n].ltx)
            => \A m \in LivePeers(st'[n]) : <<m, st'[n].lki>> \in rx_ever]_vars

\* A TX SA restarts at packet number 1, so it is never installed for a SAK that
\* its node has transmitted with before, not even by an earlier session.
NoTxReinstall ==
    [][\A n \in Node : \A sa \in st'[n].dev.tx :
          (\A old \in st[n].dev.tx : old.ki # sa.ki)
            => <<n, sa.ki>> \notin tx_ever]_vars

\* When both participants of a two-party segment report a secured port, they
\* use the same SAK.
SecuredAgree ==
    \A a, b \in Node :
        Secured(st[a]) /\ Secured(st[b]) => st[a].lki = st[b].lki

\* drop_unsecure_sak, as its comment has it: while a session waits for frames
\* without a live peer, no SA is installed.
NoSasWithoutPeers ==
    \A n \in Node :
        pc[n] = "wait" /\ ~HasLivePeer(st[n])
            => st[n].dev.tx = {} /\ st[n].dev.rx = {}

\* Nobody transmits with MACsec unless all participants can take the SAK: they
\* are MACsec capable and agree on encryption (dist_sak_supported,
\* peers_support_macsec).
TransmitOnlyIfSupported ==
    tx_ever # {} => MacsecCapable = Node
                    /\ \A a, b \in Node : st[a].encrypt = st[b].encrypt

\* The key server only distributes the SAK it uses itself.
DistributesLatest ==
    \A n \in Node :
        LET x == st[n] IN
        x.dist_sak # NoDist =>
            x.is_key_server /\ x.lki = <<x.mi, x.dist_sak.kn>>
                            /\ x.lan = x.dist_sak.an /\ ~x.ltx

\* Every participant hears every other one over MACsec: the SAK it transmits
\* with is installed at each receiver, under its SCI and number.
DataPathUp ==
    \A a, b \in Node : a # b =>
        \E ki \in TxKeys(st[a].dev) :
            [sci |-> a, an |-> st[a].dev.enc, ki |-> ki] \in st[b].dev.rx

\* Once the environment leaves them alone, all ports report secured for good.
EventuallySecured == <>[](\A n \in Node : Secured(st[n]))

\* ... and if no session was reset, traffic passes both ways for good.
EventuallyDataPath == <>[](spent.reset = 0 => DataPathUp)
=============================================================================
