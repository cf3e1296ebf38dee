-------------------------------- MODULE Xfrm --------------------------------
(***************************************************************************)
(* What becomes of a negotiated Child SA: run_ipsec of shulid (daemon/     *)
(* ipsec.rs) takes the events of the IKE engines from its channel and      *)
(* turns each one into netlink requests of the XfrmManager (ipsec/xfrm)    *)
(* and of its own address and route setup.  One step is one request; any   *)
(* of them may fail, the engines run on while it is awaited, and the       *)
(* daemon may die after it.                                                *)
(*                                                                         *)
(* A kernel object is a record of its kind, its connection (which decides  *)
(* the addresses, the if_id, the reqid and the link name) and a number:    *)
(* the SPI of an SA, the selector pair of a policy or a route.  Marks are  *)
(* not configured, and each connection has a link and an if_id of its own. *)
(* resolv.conf, rewritten for every lease with DNS servers, is left out.   *)
(***************************************************************************)
EXTENDS Naturals, FiniteSets, Sequences

CONSTANTS
    Conn,       \* the configured connections
    Tunnel,     \* those in tunnel mode, which have a link, addresses and routes
    Forward,    \* those of a site-to-site topology
    Pairs,      \* how many pairs of selectors a child has
    Routed,     \* the pairs whose remote prefix is not the default route
    MaxSpi,     \* bound on the SPIs the engines draw
    MaxFail,    \* bound on the requests that fail and the SAs that expire
    MaxStart    \* bound on the starts of the daemon

ASSUME XfrmAssumption ==
    /\ Tunnel \subseteq Conn /\ Forward \subseteq Tunnel
    /\ Pairs \in Nat \ {0} /\ Routed \subseteq 1..Pairs
    /\ {MaxSpi, MaxFail, MaxStart} \subseteq Nat

VARIABLES
    child,      \* ike.child of each engine
    drawn,      \* how many SPIs were drawn
    events,     \* the unbounded channel of IpsecEvents
    pc,         \* what run_ipsec awaits
    stopping,   \* its loop has been left for shutdown
    job,        \* the event being handled
    todo,       \* the requests still to be made for it
    got,        \* the objects this apply_child has put in place
    applied,    \* the Applied of each connection
    owned,      \* sas, policies and interfaces of the XfrmManager
    kernel,     \* the objects in the kernel
    strays,     \* history: objects in the kernel this daemon has no record of
    excused,    \* history: SAs that expired, or whose SPI the peer used again
    renewed,    \* history: connections whose child was to be replaced
    unapplied,  \* history: connections whose last child could not be applied
    spent       \* what is used up of MaxFail and MaxStart

engineVars == <<child, drawn, excused>>
daemonVars == <<pc, stopping, job, todo, got, applied, owned, renewed, unapplied>>
vars == <<engineVars, events, daemonVars, kernel, strays, spent>>

\* A ChildSaHandle is its local (inbound) and remote (outbound) SPI.
NoChild == [in |-> 0, out |-> 0]
NoJob == [c |-> "none", h |-> NoChild]
NoApplied == [h |-> NoChild, routes |-> {}]

Obj(kind, c, n) == [kind |-> kind, c |-> c, n |-> n]
SaIn(c, h) == Obj("sa_in", c, h.in)
SaOut(c, h) == Obj("sa_out", c, h.out)
Sas(c, h) == {SaIn(c, h), SaOut(c, h)}
Link(c) == Obj("link", c, 0)
PolicyKinds == {"out", "in", "fwd", "rev"}

Running == pc \notin {"stopped", "dead"}
Has(c) == applied[c].h # NoChild

Init ==
    /\ child = [c \in Conn |-> NoChild] /\ drawn = 0 /\ excused = {}
    /\ events = <<>>
    /\ pc = "idle" /\ stopping = FALSE /\ job = NoJob /\ todo = {} /\ got = {}
    /\ applied = [c \in Conn |-> NoApplied]
    /\ owned = {}
    /\ renewed = {} /\ unapplied = {}
    /\ kernel = {} /\ strays = {}
    /\ spent = [fail |-> 0, start |-> 1]

---------------------------------------------------------------------------
(* The requests. *)

\* install_policies: each pair out and in, and for a gateway both directions of
\* forwarding.
Policies(c) ==
    {Obj(kind, c, n) : kind \in IF c \in Forward THEN PolicyKinds ELSE {"out", "in"},
                       n \in 1..Pairs}

Routes(c) == {Obj("route", c, n) : n \in Routed}
Address(c) == Obj("addr", c, 0)
Record(c) == Obj("record", c, 0)

\* apply_child: the link, install (both SAs, policies, and the entry in the
\* records), then address and routes.  The checks before the first SA fail as
\* the request for it does.
ApplyChild(c, h) ==
    Sas(c, h) \cup Policies(c) \cup {Record(c)}
        \cup IF c \in Tunnel THEN {Link(c), Address(c)} \cup Routes(c) ELSE {}

\* XfrmManager::remove
RemoveInstalled(c, h) == Policies(c) \cup Sas(c, h)

\* remove_child
RemoveChild(c, a, link, keep) ==
    RemoveInstalled(c, a.h) \cup (a.routes \ keep)
        \cup IF link /\ c \in Tunnel THEN {Link(c)} ELSE {}

\* BUG: SAs whose policies could not be installed are left in the kernel.
BugUndo(o, c, h) ==
    CASE o.kind \in {"link", "sa_out"} -> {}
      [] o.kind = "sa_in" -> {SaOut(c, h)}
      [] o.kind \in PolicyKinds -> Policies(c) \cap got
      [] o.kind \in {"addr", "route"} -> (Routes(c) \cap got) \cup RemoveInstalled(c, h)

\* What is undone when the request for o fails: nothing before the first SA,
\* that SA, what rollback_policies and install delete, or all of install.
Undo(o, c, h) ==
    CASE o.kind \in {"link", "sa_out"} -> {}
      [] o.kind = "sa_in" -> {SaOut(c, h)}
      [] o.kind \in PolicyKinds -> (Policies(c) \cap got) \cup Sas(c, h)
      [] o.kind \in {"addr", "route"} -> (Routes(c) \cap got) \cup RemoveInstalled(c, h)

\* The order in which an operation makes its requests: by stage, and within a
\* stage pair by pair.  apply_child installs; "undo" is the rollback inside
\* install, "unwind" that of apply_child after it; then remove_child, and
\* cleanup_owned, which goes through its maps in no particular order.
Stages ==
    [apply   |-> [link |-> 1, sa_out |-> 2, sa_in |-> 3, out |-> 4, in |-> 4, fwd |-> 4,
                  rev |-> 4, record |-> 5, addr |-> 6, route |-> 7],
     undo    |-> [out |-> 1, in |-> 2, fwd |-> 3, rev |-> 3, sa_in |-> 4, sa_out |-> 5],
     unwind  |-> [route |-> 1, fwd |-> 2, rev |-> 2, in |-> 3, out |-> 4, sa_in |-> 5,
                  sa_out |-> 6],
     remove  |-> [fwd |-> 1, rev |-> 1, in |-> 2, out |-> 3, sa_in |-> 4, sa_out |-> 5,
                  route |-> 6, link |-> 7],
     cleanup |-> [out |-> 1, in |-> 1, fwd |-> 1, rev |-> 1, sa_in |-> 2, sa_out |-> 2,
                  link |-> 3]]

WithinPair == [out |-> 1, in |-> 2, fwd |-> 3, rev |-> 4]

Before(o, p) ==
    LET stage == Stages[pc] IN
    \/ stage[o.kind] < stage[p.kind]
    \/ /\ pc # "cleanup" /\ stage[o.kind] = stage[p.kind]
       /\ \/ o.n < p.n
          \/ o # p /\ o.n = p.n /\ WithinPair[o.kind] < WithinPair[p.kind]

\* The request that is made next.
Request(o) == o \in todo /\ \A p \in todo : ~Before(p, o)

---------------------------------------------------------------------------
(* The engines. *)

\* install_child: ChildSaReady or ChildSaRefreshed, which run_ipsec treats
\* alike.  The SPIs are new, except that a repeated request of the peer is
\* executed again with the SPI it already carried.
InstallChild(c) ==
    /\ Running /\ ~stopping
    /\ \E again \in {FALSE, child[c] # NoChild} :
        LET h == [in |-> drawn + 1, out |-> IF again THEN child[c].out ELSE drawn + 1] IN
        /\ drawn < MaxSpi
        /\ drawn' = drawn + 1
        /\ child' = [child EXCEPT ![c] = h]
        /\ events' = Append(events, [c |-> c, h |-> h])
        /\ excused' = IF again THEN excused \cup {SaOut(c, h)} ELSE excused
    /\ UNCHANGED <<daemonVars, kernel, strays, spent>>

\* remove_child of the engine; without a child the event changes nothing.
EngineRemove(c) ==
    /\ Running /\ ~stopping
    /\ child[c] # NoChild
    /\ child' = [child EXCEPT ![c] = NoChild]
    /\ events' = Append(events, [c |-> c, h |-> NoChild])
    /\ UNCHANGED <<drawn, excused, daemonVars, kernel, strays, spent>>

\* The kernel drops an SA at its hard lifetime.
Expire ==
    /\ spent.fail < MaxFail
    /\ spent' = [spent EXCEPT !.fail = @ + 1]
    /\ \E o \in {k \in kernel : k.kind \in {"sa_in", "sa_out"}} :
        /\ kernel' = kernel \ {o}
        /\ strays' = strays \ {o}
        /\ excused' = excused \cup {o}
    /\ UNCHANGED <<child, drawn, events, daemonVars>>

---------------------------------------------------------------------------
(* run_ipsec takes an event. *)

Idle == pc = "idle" /\ ~stopping

HandleChild ==
    /\ Idle /\ events # <<>> /\ Head(events).h # NoChild
    /\ LET e == Head(events) IN
        /\ job' = e
        /\ todo' = ApplyChild(e.c, e.h)
        /\ renewed' = IF Has(e.c) THEN renewed \cup {e.c} ELSE renewed
    /\ pc' = "apply" /\ got' = {}
    /\ events' = Tail(events)
    /\ UNCHANGED <<engineVars, stopping, applied, owned, unapplied, kernel, strays, spent>>

\* BUG: the child stays in the table.
BugForget(c) ==
    /\ pc' = "idle" /\ todo' = {}
    /\ UNCHANGED <<applied, renewed>>

\* applied.remove or drain, and remove_child of what was there.
Forget(c) ==
    /\ applied' = [applied EXCEPT ![c] = NoApplied]
    /\ renewed' = renewed \ {c}
    /\ IF Has(c) THEN pc' = "remove" /\ todo' = RemoveChild(c, applied[c], TRUE, {})
                 ELSE UNCHANGED <<pc, todo>>

HandleRemoved ==
    /\ Idle /\ events # <<>> /\ Head(events).h = NoChild
    /\ Forget(Head(events).c)
    /\ events' = Tail(events)
    /\ unapplied' = unapplied \ {Head(events).c}
    /\ UNCHANGED <<engineVars, stopping, job, got, owned, kernel, strays, spent>>

---------------------------------------------------------------------------
(* The answer to the request in front. *)

Mishap == spent.fail < MaxFail /\ spent' = [spent EXCEPT !.fail = @ + 1]

\* What install records: both SAs and every policy.
Recorded(c, h) == Sas(c, h) \cup Policies(c)

\* An object that exists already is updated, a link adopted, and a route that
\* exists is not this child's to remove.
Added(o) ==
    /\ pc = "apply" /\ Request(o)
    /\ LET new == CASE o.kind = "record" -> Recorded(job.c, job.h)
                    [] o.kind = "link" -> {o}
                    [] OTHER -> {}
       IN  /\ kernel' = IF o.kind = "record" THEN kernel ELSE kernel \cup {o}
           /\ got' = IF o.kind = "record" \/ (o.kind = "route" /\ o \in kernel)
                     THEN got ELSE got \cup {o}
           /\ owned' = owned \cup new
           /\ strays' = strays \ new
    /\ todo' = todo \ {o}
    /\ UNCHANGED <<engineVars, events, pc, stopping, job, applied, renewed, unapplied, spent>>

\* The request is refused.  create looks for the link it added, so that the
\* link may exist although ensure_interface failed.
NotAdded(o) ==
    /\ pc = "apply" /\ Request(o) /\ o.kind # "record"
    /\ Mishap
    /\ \E made \in {{}, {o} \cap {Link(c) : c \in Tunnel}} :
        /\ kernel' = kernel \cup made
        /\ strays' = strays \cup (made \ (kernel \cup owned))
    /\ todo' = Undo(o, job.c, job.h)
    /\ pc' = IF o.kind \in {"addr", "route"} THEN "unwind" ELSE "undo"
    /\ unapplied' = unapplied \cup {job.c}
    /\ UNCHANGED <<engineVars, events, stopping, job, got, applied, owned, renewed>>

\* BUG: the table still has the old child when remove_child is called.
BugReplaced(c) == job.h

\* The child that applied.insert hands back.
Replaced(c) == applied[c].h

\* The new child is in the table; the one it replaces is removed, except for
\* the link, which has the same name, and the routes of the new child.
Applied ==
    /\ pc = "apply" /\ todo = {}
    /\ LET c == job.c
           routes == {o \in got : o.kind = "route"}
       IN  /\ applied' = [applied EXCEPT ![c] = [h |-> job.h, routes |-> routes]]
           /\ unapplied' = unapplied \ {c}
           /\ IF Has(c)
              THEN /\ pc' = "remove"
                   /\ todo' = RemoveChild(c, [applied[c] EXCEPT !.h = Replaced(c)], FALSE, routes)
              ELSE pc' = "idle" /\ UNCHANGED todo
    /\ UNCHANGED <<engineVars, events, stopping, job, got, owned, renewed, kernel, strays, spent>>

\* What goes with an object; a link takes its address and its routes along.
Gone(o) == IF o.kind = "link"
           THEN {k \in kernel : k.c = o.c /\ k.kind \in {"link", "addr", "route"}}
           ELSE {o}

Deleting == pc \in {"undo", "unwind", "remove", "cleanup"}

\* A deletion that succeeds also ends the entry in the records, but
\* rollback_policies has none of its own to end.
Deleted(o) ==
    /\ Deleting /\ Request(o) /\ o \in kernel
    /\ kernel' = kernel \ Gone(o)
    /\ strays' = strays \ Gone(o)
    /\ owned' = IF pc = "undo" /\ o.kind \in PolicyKinds THEN owned ELSE owned \ {o}
    /\ todo' = todo \ {o}
    /\ UNCHANGED <<engineVars, events, pc, stopping, job, got, applied, renewed, unapplied, spent>>

\* The object is no longer there, or the request fails: the error is logged
\* and the record kept, if there is one.  cleanup_owned forgets it anyway.
NotDeleted(o) ==
    /\ Deleting /\ Request(o)
    /\ \/ o \notin kernel /\ UNCHANGED <<strays, spent>>
       \/ /\ o \in kernel /\ Mishap
          /\ strays' = IF o.kind # "route" /\ (pc = "cleanup" \/ o \notin owned)
                       THEN strays \cup {o} ELSE strays
    /\ todo' = todo \ {o}
    /\ UNCHANGED <<engineVars, events, pc, stopping, job, got, applied, owned, renewed,
                   unapplied, kernel>>

Finished ==
    /\ pc \in {"undo", "unwind", "remove"} /\ todo = {}
    /\ pc' = "idle"
    /\ UNCHANGED <<engineVars, events, stopping, job, todo, got, applied, owned, renewed,
                   unapplied, kernel, strays, spent>>

---------------------------------------------------------------------------
(* The end of run_ipsec. *)

\* The shutdown signal wins the select; the engines stop and what is left in
\* the channel is not read any more.
Shutdown ==
    /\ Idle
    /\ stopping' = TRUE
    /\ child' = [c \in Conn |-> NoChild] /\ events' = <<>>
    /\ UNCHANGED <<drawn, excused, pc, job, todo, got, applied, owned, renewed, unapplied,
                   kernel, strays, spent>>

Drain(c) ==
    /\ pc = "idle" /\ stopping /\ Has(c)
    /\ Forget(c)
    /\ UNCHANGED <<engineVars, events, stopping, job, got, owned, unapplied, kernel, strays,
                   spent>>

\* cleanup_owned: policies, SAs and links, whatever is still recorded.
CleanupOwned ==
    /\ pc = "idle" /\ stopping /\ \A c \in Conn : ~Has(c)
    /\ pc' = "cleanup"
    /\ todo' = owned
    /\ UNCHANGED <<engineVars, events, stopping, job, got, applied, owned, renewed, unapplied,
                   kernel, strays, spent>>

Stopped ==
    /\ pc = "cleanup" /\ todo = {}
    /\ pc' = "stopped"
    /\ owned' = {}
    /\ UNCHANGED <<engineVars, events, stopping, job, todo, got, applied, renewed, unapplied,
                   kernel, strays, spent>>

\* The process dies, and with it all that it knew; the kernel keeps the
\* objects, as dropping the manager removes none of them.
Crash ==
    /\ Running
    /\ spent.start < MaxStart
    /\ child' = [c \in Conn |-> NoChild]
    /\ events' = <<>>
    /\ pc' = "dead" /\ stopping' = FALSE /\ job' = NoJob /\ todo' = {} /\ got' = {}
    /\ applied' = [c \in Conn |-> NoApplied]
    /\ owned' = {}
    /\ renewed' = {} /\ unapplied' = {}
    /\ strays' = kernel
    /\ UNCHANGED <<drawn, excused, kernel, spent>>

\* run_ipsec of the next process.
Restart ==
    /\ pc = "dead"
    /\ spent' = [spent EXCEPT !.start = @ + 1]
    /\ pc' = "idle"
    /\ UNCHANGED <<engineVars, events, stopping, job, todo, got, applied, owned, renewed,
                   unapplied, kernel, strays>>

---------------------------------------------------------------------------
Daemon ==
    \/ HandleChild \/ HandleRemoved
    \/ \E o \in todo : Added(o) \/ NotAdded(o) \/ Deleted(o) \/ NotDeleted(o)
    \/ Applied \/ Finished
    \/ \E c \in Conn : Drain(c)
    \/ CleanupOwned \/ Stopped

Next ==
    \/ Daemon
    \/ \E c \in Conn : InstallChild(c) \/ EngineRemove(c)
    \/ Expire
    \/ Shutdown \/ Crash \/ Restart

Spec == Init /\ [][Next]_vars

\* The kernel answers every request and the task is scheduled.
FairSpec == Spec /\ WF_vars(Daemon)

---------------------------------------------------------------------------
(* Properties. *)

\* A daemon that shut down in order has left nothing in the kernel that it put
\* there: whichever request failed on the way, the undo of apply_child, the
\* removals and cleanup_owned together reach every object.  Excepted are what
\* an earlier daemon left when it died, an object whose last deletion itself
\* failed, and a link that was made although the query for it then failed, of
\* which ensure_interface keeps no record; each of these links with the
\* address and routes on it.
NothingLeaked ==
    pc = "stopped" =>
        \A o \in kernel : o \in strays \/ (o.kind \in {"addr", "route"} /\ Link(o.c) \in strays)

\* The child in the table of run_ipsec is in the kernel.  Its SAs are, while a
\* replacement is installed, when that fails half-way and when the child it
\* replaced is removed; only expiry takes them away, or a peer that used its
\* SPI for two children in a row.  Its policies and the routes it added are
\* until a replacement comes, whatever happens to the other connections;
\* after that they are not, as they are removed with the child before it.
ChildInKernel ==
    Running => \A c \in Conn : Has(c) =>
        /\ Sas(c, applied[c].h) \subseteq kernel \cup excused
        /\ c \notin renewed => Policies(c) \cup applied[c].routes \subseteq kernel

\* When run_ipsec has handled a ChildSaRefreshed and waits for the next event,
\* the policies that send traffic through the child in its table are in the
\* kernel, as they were before the rekey: ipsec_plan.md asks that a rekey
\* completes without traffic interruption.
RekeyKeepsPolicies ==
    pc = "idle" => \A c \in Conn : Has(c) => Policies(c) \subseteq kernel

\* The daemon catches up with its engines: the child of every running
\* connection ends up in its table unless it could not be applied, and without
\* a failure nothing remains of a connection whose child was removed.
EventuallyAgrees ==
    \A c \in Conn :
        <>[](Running /\ ~stopping =>
                /\ c \in unapplied \/ applied[c].h = child[c]
                /\ child[c] = NoChild /\ spent = [fail |-> 0, start |-> 1] =>
                        \A o \in kernel : o.c # c)
=============================================================================
