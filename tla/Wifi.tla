------------------------------- MODULE Wifi -------------------------------
(***************************************************************************)
(* A WiFi interface at work: WifiIface between the kernel, the access       *)
(* points and the daemon.  An action of the client is one iteration of      *)
(* run(), up to the await it stops in next: one event read, or one timer    *)
(* gone off.  The other actions are the kernel's and the access points':    *)
(* they answer, and they lose, refuse, delay and end things.                *)
(*                                                                         *)
(* Trouble of the kinds in Faults happens at most MaxTrouble times.  An     *)
(* access point answers sooner than a timer goes off or a scan ends, or it  *)
(* counts as trouble ("slow").                                              *)
(***************************************************************************)
EXTENDS WifiIface, SequencesExt

CONSTANTS
    Worlds,      \* where the interface may start: [nets, fullmac, pno, sig], its
                 \* networks, caps.mlme, whether the driver has the operation
                 \* of scheduled scans, and the signal of every BSS
    Configs,     \* sets of configurations (sequences of networks, none empty)
                 \* among which the daemon changes
    Levels,      \* the signals a BSS may change to
    Faults,      \* the kinds of trouble there may be
    MaxTrouble

VARIABLES
    trouble,     \* how often there was
    cancelled    \* history: run() has been dropped inside a handler

vars == <<wifi, kern, queue, trouble, cancelled>>

ASSUME WifiAssumption ==
    /\ \A world \in Worlds : world.nets # <<>> /\ {world.fullmac, world.pno} \subseteq BOOLEAN
    /\ \A group \in Configs : <<>> \notin group
    /\ MaxTrouble \in Nat /\ MaxScanSsids \in Nat \ {0}
    /\ SchedCap \in Nat /\ MaxSync \in Nat
    /\ Pmk!PmksaConstants

Calm == UNCHANGED <<trouble, cancelled>>
Pay(kind) ==
    /\ kind \in Faults
    /\ trouble < MaxTrouble
    /\ trouble' = trouble + 1
    /\ cancelled' = (cancelled \/ kind = "cut")

\* The parts of WifiIface as WifiIface::init leaves them.
ScanInit ==
    [hint_scan |-> TRUE, retry_scan |-> FALSE, cursor |-> 0, wildcard_next |-> TRUE,
     sched_cursor |-> 0, more |-> FALSE, rotate |-> FALSE, active |-> FALSE, stop_pending |-> FALSE]
LinkInit(net) ==
    [net |-> net, bss |-> NoBss, fourway |-> FALSE, in_use |-> {}, ft |-> 0, pending |-> FALSE,
     stale_connect |-> FALSE, rekey |-> FALSE]
AuthInit ==
    [method |-> "none", sent |-> "none", sync |-> 0, hnp |-> FALSE, psk |-> 0, owe |-> FALSE,
     eap |-> FALSE]
RoamInit ==
    [ft_roam |-> NoBss, ft_ptk |-> FALSE, roam_scan |-> FALSE, full |-> FALSE, pre |-> "none",
     target |-> NoBss, cands |-> {}, freqs |-> {}, background |-> FALSE, post |-> FALSE,
     post_at |-> FALSE, post_done |-> FALSE, cqm |-> FALSE, nr |-> FALSE, cooldown |-> FALSE]
WifiInit(world) ==
    [state |-> "Init", pc |-> "run", fullmac |-> world.fullmac, sched_supported |-> TRUE, nets |-> world.nets, cache |-> {},
     fast |-> "none", ignored |-> {}, wowlan |-> FALSE, resume |-> "none"]
    @@ ScanInit @@ LinkInit(world.nets[1]) @@ AuthInit @@ RoamInit

Init ==
    /\ \E world \in Worlds :
          /\ wifi = WifiInit(world)
          /\ kern = [req |-> NoReq, authed |-> NoBss, assoc |-> NoBss, hs |-> "none", pmk |-> 0,
                     scan |-> NoScan, sched |-> NoScan, found |-> {}, sig |-> world.sig, nr |-> FALSE,
                     pno |-> world.pno]
    /\ queue = <<>>
    /\ trouble = 0
    /\ cancelled = FALSE

Now == [w |-> wifi, k |-> kern, q |-> queue]
Become(s) == \E t \in {Enter(s)} : wifi' = t.w /\ kern' = t.k /\ queue' = t.q

---------------------------------------------------------------------------
(* The client.                                                             *)

\* One iteration of run() with body H.  A request may be refused, and the
\* future of run() dropped while one is in flight.  An iteration that is not
\* due yet is trouble enough.
Settle(good, t, oc) ==
    IF oc = "cut" /\ t # good THEN t ELSE AfterRun(wifi, t, IF t = good THEN oc ELSE "ok")
Step(H(_), outcomes, due) ==
    \E good \in {H("ok")} : \E calm \in {AfterRun(wifi, good, "ok")} :
        \/ (IF due THEN Calm ELSE Pay("slow")) /\ Become(calm)
        \/ due /\ \E oc \in outcomes : \E troubled \in {Settle(good, H(oc), oc)} :
              troubled # calm /\ Pay(oc) /\ Become(troubled)
Iterate(H(_), outcomes) == Step(H, outcomes, TRUE)

Bad == {"err", "cut"}

NextIs(type) == queue # <<>> /\ Head(queue).type = type
RunsIn(states) == wifi.pc = "run" /\ wifi.state \in states

\* Nothing is on its way to the client.
Quiet == queue = <<>> /\ kern.req = NoReq /\ kern.hs # "m2"

\* A timer with body H, where quiet says that nothing is on its way.
Timer(H(_), quiet) == Step(H, Bad, quiet)

BeginAttempt == RunsIn({"Init"}) /\ Iterate(LAMBDA oc : RunInit(Now, oc), Bad)

\* The next event, in the states that have no use of their own for it; one
\* that ends a scan also ends what the scan was for.
ReadEvent ==
    /\ queue # <<>>
    /\ wifi.pc = "report" => wifi.nr
    /\ wifi.pc = "run" => /\ wifi.state # "Init"
                          /\ wifi.state = "Scanning" => Head(queue).type # "ScanDone"
                          /\ wifi.state = "SchedScanWait" =>
                                Head(queue).type \notin {"SchedResults", "SchedStopped"}
    /\ LET s == [Now EXCEPT !.q = Tail(@)]
           Left(t) == [t EXCEPT !.w.retry_scan =
                           @ /\ ~(RunsIn({"Scanning"}) /\ t.w.state # "Scanning")]
       IN  Iterate(LAMBDA oc : Left(HandleEvent(s, Head(queue), oc)), Bad)

ReadScanResults ==
    /\ RunsIn({"Scanning"}) /\ NextIs("ScanDone")
    /\ Iterate(LAMBDA oc : FinishScan([Now EXCEPT !.q = Tail(@)], oc), Bad \cup {"nodump"})

ReadSchedResults ==
    /\ RunsIn({"SchedScanWait"}) /\ NextIs("SchedResults")
    /\ Iterate(LAMBDA oc : HandleSchedResults([Now EXCEPT !.q = Tail(@)], oc), Bad \cup {"nodump"})

ReadSchedStopped ==
    /\ RunsIn({"SchedScanWait"}) /\ NextIs("SchedStopped")
    /\ Iterate(LAMBDA oc : HandleStoppedInWait([Now EXCEPT !.q = Tail(@)], oc), Bad)

\* What a scan of the given channels and SSIDs hears.
Hears(scan) ==
    {b \in Bss : /\ scan.on /\ kern.sig[b] > 0
                 /\ Ap[b].chan \in scan.chans
                 /\ Ap[b].hidden => Ap[b].ssid \in scan.probe}

ScanTimeout ==
    /\ RunsIn({"Scanning"})
    /\ Timer(LAMBDA oc : FinishScan(Now, oc), Quiet /\ ~kern.scan.on)

SchedTimeout ==
    /\ RunsIn({"SchedScanWait"})
    /\ Timer(LAMBDA oc : RunSchedTimeout(Now, oc), Quiet /\ Hears(kern.sched) = {})

AuthTimeout ==
    /\ RunsIn({"Authenticating"})
    /\ Timer(LAMBDA oc : RunAuthTimeout(Now, oc), Quiet)

RetryTimer ==
    /\ RunsIn(Failures)
    /\ Timer(LAMBDA oc : [Now EXCEPT !.w.state = "Init"], Quiet)

RoamTick ==
    /\ RunsIn({"Connected"}) /\ (wifi.post_at \/ ApRoams(wifi)) /\ queue = <<>>
    /\ Iterate(LAMBDA oc : RunTick(Now, oc), Bad)

DrainTimer == wifi.pc = "drain" /\ Timer(LAMBDA oc : FinishDrain(Now, oc), Quiet)

ReportTimer ==
    /\ wifi.pc = "report"
    /\ Timer(LAMBDA oc : FinishReport(Now, oc), ~wifi.nr \/ (queue = <<>> /\ ~kern.nr))

\* notify_resume is seen where _run starts, and by the select of the waits
\* that watch for it, which the first look does not reset.
ResumeAtStart ==
    /\ wifi.pc = "run" /\ wifi.resume = "new"
    /\ Iterate(LAMBDA oc : HandleResume([Now EXCEPT !.w.resume = "old"], oc), Bad)

ResumeInWait ==
    /\ RunsIn({"Connected", "SchedScanWait", "Failed"}) /\ wifi.resume # "none"
    /\ LET Left(t) == [t EXCEPT !.w.state = IF wifi.state = "Failed" THEN "Init" ELSE @]
       IN  Iterate(LAMBDA oc : Left(HandleResume([Now EXCEPT !.w.resume = "none"], oc)), Bad)

\* run() is dropped in one of the waits inside a handler.
Cancel == wifi.pc # "run" /\ Pay("cut") /\ Become([Now EXCEPT !.w.pc = "run"])

\* The daemon applies another configuration.  A scan whose purpose is gone
\* is waited for.
Reconfigure(new) ==
    LET wait == wifi.state = "Scanning" /\ ~KeepsAttempt(wifi, new)
        done == [Now EXCEPT !.k.found = IF kern.scan.on THEN Hears(kern.scan) ELSE @,
                            !.k.scan = NoScan,
                            !.q = IF @ = <<>> THEN @ ELSE Tail(@)]
    IN  /\ new # wifi.nets
        /\ wait => queue = <<>> \/ NextIs("ScanDone")
        /\ Pay("update")
        /\ Become(UpdateNetworks(IF wait THEN done ELSE Now, new))

\* Timers that only expire: the cooldown after a roam, the ignore list, the
\* age of the PMKSAs.
CooldownOver == wifi.cooldown /\ Calm /\ Become([Now EXCEPT !.w.cooldown = FALSE])
TimePasses ==
    /\ Pay("age")
    /\ \E ignored \in {{}, wifi.ignored} :
          Become([Now EXCEPT !.w.cache = Pmk!Older(@), !.w.in_use = Pmk!Older(@), !.w.ignored = ignored])

Client ==
    \/ BeginAttempt \/ ReadEvent \/ ReadScanResults \/ ReadSchedResults \/ ReadSchedStopped
    \/ ScanTimeout \/ SchedTimeout \/ AuthTimeout \/ RetryTimer \/ RoamTick
    \/ DrainTimer \/ ReportTimer \/ ResumeAtStart \/ ResumeInWait

---------------------------------------------------------------------------
(* The kernel and the access points.                                       *)

\* The kernel's side becomes k, with more events on their way.
Deliver(k, events) ==
    /\ kern' = k
    /\ queue' = queue \o events
    /\ UNCHANGED wifi

InRange(b) == kern.sig[b] > 0
Authenticated(b, ok, frame) == [type |-> "Authenticated", bss |-> b, ok |-> ok, frame |-> frame]

\* An answer to AUTHENTICATE.  An SAE commit made with hash-to-element is
\* answered with a status of its own, which is not Success.
AnswerAuth ==
    LET b == kern.req.bss
        kind == kern.req.kind
        match == wifi.net.password = Ap[b].password
        frame == CASE kind \in {"h2e", "hnp"} -> IF kind = "h2e" /\ ~Ap[b].h2e THEN "refused" ELSE "commit"
                   [] kind = "confirm" -> IF match THEN "confirm" ELSE "mismatch"
                   [] kind = "ft" -> "ft"
                   [] OTHER -> "none"
        ok == kind \in {"open", "ft", "hnp"} \/ frame = "confirm"
        answered == [kern EXCEPT !.req = NoReq]
    IN  /\ kern.req.op = "auth"
        /\ \/ /\ InRange(b) /\ Calm
              /\ Deliver([answered EXCEPT !.authed = IF ok /\ frame # "commit" THEN b ELSE @],
                         <<Authenticated(b, ok, frame)>>)
           \/ /\ ~InRange(b) /\ Calm
              /\ Deliver(answered, <<Authenticated(b, FALSE, "none")>>)
           \/ /\ Pay("reject")
              /\ \E f \in IF kind \in {"h2e", "hnp"} THEN {"token", "busy", "refused"} ELSE {"none"} :
                    Deliver(answered, <<Authenticated(b, FALSE, f)>>)

\* What follows an association: the handshake starts, with EAP before it.
\* EAPOL frames have a way of their own to the client and may be faster.
Handshake(b) ==
    CASE Sec(b) = "Open" -> <<>>
      [] Sec(b) \in Enterprise -> <<[type |-> "Eap", ok |-> TRUE], [type |-> "Message1"]>>
      [] OTHER -> <<[type |-> "Message1"]>>

\* An answer to ASSOCIATE or CONNECT; cfg80211 reports the first twice.
AnswerAssoc ==
    LET b == kern.req.bss
        Result(ok, ies) ==
            (IF wifi.fullmac THEN <<>> ELSE <<[type |-> "Associated", ok |-> ok, ies |-> ies]>>)
            \o <<[type |-> "ConnectResult", ok |-> ok, ies |-> ies]>>
        Report(ok) == Result(ok, TRUE)
        hs == CASE kern.req.kind = "ft" -> "done" [] Sec(b) = "Open" -> "none" [] OTHER -> "m1"
        frames == IF kern.req.kind = "ft" THEN <<>> ELSE Handshake(b)
        joined == [kern EXCEPT !.req = NoReq, !.assoc = b, !.hs = hs, !.pmk = 0]
        refused == [kern EXCEPT !.req = NoReq, !.authed = NoBss]
    IN  /\ kern.req.op \in {"assoc", "connect"}
        /\ \/ InRange(b) /\ Calm /\ Deliver(joined, Report(TRUE) \o frames)
           \/ InRange(b) /\ frames # <<>> /\ Pay("race") /\ Deliver(joined, frames \o Report(TRUE))
           \/ /\ InRange(b) /\ Sec(b) \in FtFamily \cup {"Owe"}   \* an element is missing
              /\ Pay("reject") /\ Deliver(joined, Result(TRUE, FALSE))
           \/ ~InRange(b) /\ Calm /\ Deliver(refused, Report(FALSE))
           \/ Pay("reject") /\ Deliver(refused, Report(FALSE))

LoseAnswer == kern.req # NoReq /\ Pay("lose") /\ Deliver([kern EXCEPT !.req = NoReq], <<>>)

\* The link as the kernel has it ends, with the notice of the access point.
Gone == [kern EXCEPT !.assoc = NoBss, !.authed = NoBss, !.hs = "none"]
Notices(reason) == <<[type |-> "Deauth", ap |-> TRUE, reason |-> reason],
                     [type |-> "Disconnect", ap |-> TRUE, reason |-> reason]>>

\* The access point reads Message 2.
AnswerMessage2 ==
    /\ kern.hs = "m2"
    /\ \/ /\ kern.pmk = Ap[kern.assoc].password
          /\ \/ Calm /\ Deliver([kern EXCEPT !.hs = "m3"], <<[type |-> "Message3", ok |-> TRUE]>>)
             \/ Pay("mic") /\ Deliver([kern EXCEPT !.hs = "m3"], <<[type |-> "Message3", ok |-> FALSE]>>)
             \/ Pay("repeat") /\ Deliver([kern EXCEPT !.hs = "m1"], <<[type |-> "Message1"]>>)
       \/ kern.pmk # Ap[kern.assoc].password /\ Calm /\ Deliver(Gone, Notices("other"))

ApEnds ==
    /\ kern.assoc # NoBss /\ Pay("deauth")
    /\ \E reason \in {"inactive", "credentials", "unassociated", "other"} : Deliver(Gone, Notices(reason))

\* The signal of a configured network changes: CQM tells of one that crosses
\* the threshold, and a BSS that is gone takes its link with it.
SignalMoves ==
    \E b \in {o \in Bss : NetworksOf(wifi.nets, o) # <<>>}, level \in Levels :
        LET moved == [kern EXCEPT !.sig[b] = level]
            crossed == (kern.sig[b] < Good) # (level < Good)
        IN  /\ level # kern.sig[b] /\ Pay("signal")
            /\ CASE b = kern.assoc /\ level = 0 ->
                        Deliver([Gone EXCEPT !.sig[b] = 0], <<Ended(FALSE)>>)
                 [] b = kern.assoc /\ level > 0 /\ wifi.cqm /\ crossed ->
                        Deliver(moved, <<[type |-> "Cqm", low |-> level < Good]>>)
                 [] OTHER -> Deliver(moved, <<>>)

ScanCompletes ==
    /\ kern.scan.on
    /\ (kern.req = NoReq /\ Calm) \/ (kern.req # NoReq /\ Pay("slow"))
    /\ Deliver([kern EXCEPT !.scan = NoScan, !.found = Hears(kern.scan)], <<[type |-> "ScanDone"]>>)

\* The firmware wakes the host for a network it was told of.
SchedFinds ==
    LET known == {b \in Hears(kern.sched) : NetworksOf(wifi.nets, b) # <<>>} IN
    /\ known # {} /\ queue = <<>> /\ Calm
    /\ RunsIn({"SchedScanWait"})
    /\ Deliver([kern EXCEPT !.found = Hears(kern.sched)], <<[type |-> "SchedResults"]>>)

SchedStops ==
    /\ kern.sched.on /\ Pay("schedstop")
    /\ Deliver([kern EXCEPT !.sched = NoScan], <<[type |-> "SchedStopped"]>>)

\* 802.11k and 802.11v: the access point names its neighbors, or asks the
\* client to move.
Neighbors(b) == {o \in Bss \ {b} : Ap[o].ssid = Ap[b].ssid}
ReportNeighbors ==
    /\ kern.nr
    /\ \/ /\ kern.assoc # NoBss /\ Calm
          /\ Deliver([kern EXCEPT !.nr = FALSE],
                     <<[type |-> "NeighborReport", chans |-> {Ap[o].chan : o \in Neighbors(kern.assoc)}]>>)
       \/ ((kern.assoc = NoBss /\ Calm) \/ Pay("lose")) /\ Deliver([kern EXCEPT !.nr = FALSE], <<>>)

RequestTransition ==
    /\ kern.assoc # NoBss /\ Ap[kern.assoc].managed /\ Pay("btm")
    /\ Deliver(kern, <<[type |-> "Btm", list |-> SetToSeq(Neighbors(kern.assoc))]>>)

\* The host sleeps and wakes.
Wake ==
    \/ /\ wifi.wowlan /\ Pay("wake")
       /\ \E lost \in BOOLEAN : Deliver(kern, <<[type |-> "Wakeup", lost |-> lost]>>)
    \/ /\ Pay("resume") /\ wifi' = [wifi EXCEPT !.resume = "new"]
       /\ \/ UNCHANGED <<kern, queue>>
          \/ /\ Live(wifi) /\ kern.assoc # NoBss   \* the end of the link went unnoticed
             /\ kern' = [Gone EXCEPT !.hs = "missed"]
             /\ UNCHANGED queue

FirmwareRoams ==
    /\ wifi.fullmac /\ kern.assoc # NoBss /\ Pay("fwroam")
    /\ \E b \in Neighbors(kern.assoc) : Deliver([kern EXCEPT !.assoc = b], <<[type |-> "Roam"]>>)

Answers == AnswerAuth \/ AnswerAssoc \/ AnswerMessage2 \/ ScanCompletes \/ SchedFinds \/ ReportNeighbors
Troubles ==
    \/ LoseAnswer \/ ApEnds \/ SignalMoves \/ SchedStops \/ RequestTransition \/ Wake
    \/ FirmwareRoams \/ Cancel \/ TimePasses
    \/ \E group \in Configs : wifi.nets \in group /\ \E new \in group : Reconfigure(new)

Next == Client \/ CooldownOver \/ Answers \/ Troubles

Spec == Init /\ [][Next]_vars

\* Where run() has something to do: an event to read, a timer that goes off
\* in the end, an attempt to begin, a resume to look at.  This is ENABLED of
\* Client without RoamTick, whose step may be to leave everything as it is.
ClientReady ==
    \/ RunsIn({"Init"})
    \/ queue # <<>> /\ (wifi.pc = "report" => wifi.nr)
    \/ Quiet /\ (RunsIn(Failures \cup {"Authenticating"}) \/ wifi.pc = "drain")
    \/ Quiet /\ RunsIn({"Scanning"}) /\ ~kern.scan.on
    \/ Quiet /\ RunsIn({"SchedScanWait"}) /\ Hears(kern.sched) = {}
    \/ wifi.pc = "report" /\ (~wifi.nr \/ (queue = <<>> /\ ~kern.nr))
    \/ wifi.resume = "new" /\ wifi.pc = "run"
    \/ wifi.resume = "old" /\ RunsIn({"Connected", "SchedScanWait", "Failed"})

\* tokio polls a ready future and timers go off, which is weak fairness of
\* the client; the kernel answers what it accepted.  Nothing is assumed of
\* the troubles, nor of the ticks of the roam engine.
FairSpec ==
    /\ Spec
    /\ []<>~ClientReady \/ []<><<Client>>_vars
    /\ WF_vars(AnswerAuth) /\ WF_vars(AnswerAssoc) /\ WF_vars(AnswerMessage2)
    /\ WF_vars(ScanCompletes) /\ WF_vars(SchedFinds) /\ WF_vars(ReportNeighbors)

---------------------------------------------------------------------------
\* Every field holds a value of its type.
TypeOK ==
    /\ wifi.state \in {"Init", "Scanning", "SchedScanWait", "Authenticating", "Connected"} \cup Failures
    /\ wifi.pc \in {"run", "drain", "report"}
    /\ {wifi.bss, wifi.ft_roam, wifi.target, kern.authed, kern.assoc, kern.req.bss}
          \subseteq Bss \cup {NoBss}
    /\ {wifi.ignored, kern.found} \subseteq SUBSET Bss
    /\ wifi.cache \cup wifi.in_use \subseteq Pmk!Entries
    /\ wifi.sync \in 0..MaxSync /\ (wifi.sched_supported \/ ~kern.pno)
    /\ wifi.cursor \in 0..Len(wifi.nets) /\ wifi.sched_cursor \in 0..Len(wifi.nets)
    /\ kern.hs \in {"none", "m1", "m2", "m3", "done", "missed"}
    /\ trouble \in 0..MaxTrouble

\* Connected means that the kernel is associated with the BSS of the link or
\* about to be, or that an event which ends the link is on its way, or that
\* the kernel never announced the end.  It takes that run() is not dropped
\* between the event and the change of state.
Announced ==
    \E i \in DOMAIN queue :
        \/ queue[i].type \in {"Disconnect", "Deauth", "Roam"}
        \/ queue[i].type = "ConnectResult" /\ ~queue[i].ok
LinkIsThere == wifi.bss \in {kern.assoc, kern.req.bss} \/ Announced \/ kern.hs = "missed"
UpIsReal == wifi.state = "Connected" /\ wifi.pc = "run" /\ ~cancelled => LinkIsThere

\* Nobody uses a link without keys: in Connected, with the kernel associated,
\* the 4-way handshake of that association (or FT) is complete, unless the
\* network is open.  It takes that run() is not dropped inside a handler.
UpIsKeyed ==
    /\ wifi.state = "Connected" /\ ~cancelled
    /\ kern.assoc = wifi.bss /\ Sec(wifi.bss) # "Open"
    => kern.hs = "done"

\* The link and every attempt at one are for a configured SSID, and a BSS
\* without encryption is never joined for a network with credentials: not
\* after a scan, nor by a retry, a roam, a transition request or a hint.
NoDowngrade ==
    wifi.state \in {"Authenticating", "Connected"} /\ wifi.bss # NoBss =>
        /\ NetworksOf(wifi.nets, wifi.bss) # <<>>
        /\ Sec(wifi.bss) # "Unsupported"
        /\ Sec(wifi.bss) \in {"Open", "Owe"} => wifi.net.password = 0 /\ ~wifi.net.eap

\* Whatever ends SchedScanWait (a candidate, a resume, a new configuration, a
\* failure) has the firmware's scan stopped, so that it does not run beside an
\* attempt or a host scan.  One step leaves it running, and it then stays on
\* beside what follows: a Message 3 that is read as late as this, by which
\* the link is up.
SchedScanConfined ==
    [][wifi'.active /\ wifi'.state # "SchedScanWait" =>
          \/ wifi.active /\ wifi.state # "SchedScanWait"
          \/ wifi'.state = "Connected" /\ NextIs("Message3")]_vars


\* The scan after a failed attempt leads to a BSS that has not failed.
RetryElsewhere ==
    [][wifi.retry_scan /\ wifi.state = "Scanning" /\ wifi'.state = "Authenticating"
          => wifi'.bss \notin wifi.ignored]_vars

\* What those who watch the interface see: a roam scan does not show, and an
\* FT roam is an attempt at its target.
Status ==
    CASE wifi.state = "Connected" \/ (wifi.state = "Scanning" /\ wifi.pre = "Connected") -> "up"
      [] wifi.state = "Authenticating" -> "joining"
      [] wifi.state \in {"Init", "SchedScanWait"} \/ (wifi.state = "Scanning" /\ wifi.pre = "none") ->
            "searching"
      [] wifi.state = "FailedAuthentication" -> "rejected"
      [] OTHER -> "failed"

Conn == INSTANCE Connection WITH
    None <- NoBss, status <- Status,
    bss <- IF wifi.ft_roam # NoBss THEN wifi.ft_roam ELSE wifi.bss

\* The interface implements Connection: it comes up only on the BSS of its
\* last attempt, and the BSS of a link that is up does not change.
ImplementsConnection == Conn!CSpec

\* Every step of the interface does to its PMKSAs what Pmksa allows, so that
\* the theorems of WifiProofs hold of it: an entry is offered only in its
\* time, goes back to the cache as it was, and is dropped when refused.
ImplementsPmksa == Pmk!PSpec

\* Whatever trouble there was, once it is over and every configured network
\* in range can be joined, the interface is up for good.
Joinable ==
    LET known == {b \in Bss : kern.sig[b] > 0 /\ NetworksOf(wifi.nets, b) # <<>>}
    IN  /\ known # {}
        /\ \A b \in known : /\ NetworksOf(wifi.nets, b)[1].password = Ap[b].password
                            /\ MlmeSupports(wifi.fullmac, Sec(b))
EventuallyUp == <>[](Joinable /\ ~cancelled /\ kern.hs # "missed" => Status = "up")
=============================================================================
