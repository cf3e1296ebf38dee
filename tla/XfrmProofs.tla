----------------------------- MODULE XfrmProofs -----------------------------
(***************************************************************************)
(* TLAPS proofs about Xfrm, for any connections, selector pairs, children, *)
(* failures and restarts: the child in the table of run_ipsec is in the    *)
(* kernel, and a daemon that shut down in order has left nothing behind.   *)
(*                                                                         *)
(* Neither is inductive. For the first one has to know that the SPIs of a  *)
(* child tell its SAs from those of the child it replaces (Spis), how far  *)
(* an apply_child has come (Applying), and that what is deleted is never   *)
(* what the table needs (Spared). For the second, every object in the      *)
(* kernel is accounted for: it is in the records of the manager, among the *)
(* strays, or in the hands of the operation under way, whose rollback will *)
(* reach it (Accounted); and cleanup_owned still has it to do or has       *)
(* failed to (Ending).                                                     *)
(***************************************************************************)
EXTENDS Xfrm, SequenceTheorems, TLAPS

\* The objects of the kernel, the SPIs of a child, and what the channel
\* carries.
Kinds == {"sa_in", "sa_out", "link", "addr", "route", "record"} \cup PolicyKinds
SaKinds == {"sa_in", "sa_out"}
Object == [kind : Kinds, c : Conn, n : Nat]
Handle == [in : Nat, out : Nat]
Event == [c : Conn, h : Handle]

\* The types, and which kinds of objects are where: the routes in the table
\* belong to their connection, only SAs are excused, and the records of the
\* manager have SAs, policies and links.
Shape ==
    /\ child \in [Conn -> Handle] /\ drawn \in Nat
    /\ events \in Seq(Event)
    /\ pc \in {"idle", "apply", "undo", "unwind", "remove", "cleanup", "stopped", "dead"}
    /\ job.h \in Handle /\ (pc = "apply" => job \in Event)
    /\ applied \in [Conn -> [h : Handle, routes : SUBSET Object]]
    /\ \A c \in Conn : applied[c].routes \subseteq Routes(c)
    /\ todo \subseteq Object /\ kernel \subseteq Object /\ owned \subseteq Object
    /\ \A o \in excused : o.kind \in SaKinds
    /\ \A o \in kernel : o.kind # "record"
    /\ \A o \in owned : o.kind \in SaKinds \cup PolicyKinds \cup {"link"}

\* The outbound SPI was drawn with the inbound one, or its SA is excused.
Fresh(c, h) == h.out = h.in \/ SaOut(c, h) \in excused

\* Inbound SPIs increase from the table over the child being applied to the
\* children in the channel, in their order; outbound ones are fresh.
Spis ==
    /\ \A c \in Conn : Fresh(c, child[c]) /\ Fresh(c, applied[c].h) /\ applied[c].h.in <= drawn
    /\ pc = "apply" => Fresh(job.c, job.h) /\ \A c \in Conn : applied[c].h.in < job.h.in
    /\ job.h.in <= drawn
    /\ \A i \in 1..Len(events) : events[i].h # NoChild =>
        /\ Fresh(events[i].c, events[i].h)
        /\ job.h.in < events[i].h.in /\ events[i].h.in <= drawn
        /\ \A c \in Conn : applied[c].h.in < events[i].h.in
        /\ \A j \in 1..Len(events) :
            (i < j /\ events[j].h # NoChild) => events[i].h.in < events[j].h.in

\* apply_child: what it is still to request is the end of its list, what came
\* before is in the kernel, what it added itself is in got, and install has
\* recorded SAs and policies when the requests after it begin. A child that
\* replaces another has marked its connection.
Applying ==
    pc = "apply" =>
        /\ Has(job.c) => job.c \in renewed
        /\ todo \subseteq ApplyChild(job.c, job.h)
        /\ \A o \in todo : \A p \in ApplyChild(job.c, job.h) : Before(o, p) => p \in todo
        /\ got \subseteq ApplyChild(job.c, job.h) \ todo
        /\ ApplyChild(job.c, job.h) \ (todo \cup {Record(job.c)}) \subseteq kernel \cup excused
        /\ Record(job.c) \notin todo => Recorded(job.c, job.h) \subseteq owned

\* What is being deleted belongs to a connection without a child in the table,
\* or is neither a link nor an SA of that child.
Spared ==
    Deleting => \A o \in todo :
        Has(o.c) => /\ o.c \in renewed
                    /\ o.kind # "link"
                    /\ o \in Sas(o.c, applied[o.c].h) => o \in excused

\* ChildInKernel, in every state.
InKernel ==
    \A c \in Conn : Has(c) =>
        /\ Sas(c, applied[c].h) \subseteq kernel \cup excused
        /\ c \notin renewed => Policies(c) \cup applied[c].routes \subseteq kernel

\* Put in place by the apply_child under way, or still to be deleted.
InHand(o) == (pc = "apply" /\ o \in got) \/ (Deleting /\ o \in todo)

\* Links, SAs and policies in the kernel are recorded, stray or in hand;
\* addresses and routes are there only with their link.
Accounted ==
    \A o \in kernel :
        /\ o.kind = "link" => o \in owned \cup strays
        /\ o.kind \in {"addr", "route"} => Link(o.c) \in kernel
        /\ o.kind \in SaKinds \cup PolicyKinds => o \in owned \cup strays \/ InHand(o)

\* cleanup_owned still has every recorded object to delete, unless that failed;
\* then no records are left.
Ending ==
    /\ pc = "cleanup" => \A o \in owned \cap kernel : o \in todo \cup strays
    /\ pc = "stopped" => owned = {}

\* The inductive invariant.
XInv == Shape /\ Spis /\ Applying /\ Spared /\ InKernel /\ Accounted /\ Ending

---------------------------------------------------------------------------
(* The objects and requests. *)

\* The policies that install_policies makes for a child of connection c.
LEMMA PolicyFacts ==
  ASSUME NEW c \in Conn, NEW o \in Policies(c)
  PROVE  o \in Object /\ o.c = c /\ o.kind \in PolicyKinds
BY XfrmAssumption DEF Policies, Obj, Object, Kinds, PolicyKinds

\* The routes that add_route makes for a child of connection c.
LEMMA RouteFacts ==
  ASSUME NEW c \in Conn, NEW o \in Routes(c)
  PROVE  o \in Object /\ o.c = c /\ o.kind = "route"
BY XfrmAssumption DEF Routes, Obj, Object, Kinds

\* The two SAs of a child: kind, connection and SPI (state.rs).
LEMMA SaFacts ==
  ASSUME NEW c \in Conn, NEW h \in Handle
  PROVE  /\ SaIn(c, h) \in Object /\ SaIn(c, h).kind = "sa_in" /\ SaIn(c, h).c = c
         /\ SaIn(c, h).n = h.in
         /\ SaOut(c, h) \in Object /\ SaOut(c, h).kind = "sa_out" /\ SaOut(c, h).c = c
         /\ SaOut(c, h).n = h.out
BY Zenon DEF SaIn, SaOut, Obj, Object, Kinds, Handle

\* The link and the address of a connection, and the entry that install makes.
LEMMA OtherFacts ==
  ASSUME NEW c \in Conn
  PROVE  /\ Link(c) \in Object /\ Link(c).kind = "link" /\ Link(c).c = c
         /\ Address(c) \in Object /\ Address(c).kind = "addr" /\ Address(c).c = c
         /\ Record(c) \in Object /\ Record(c).kind = "record" /\ Record(c).c = c
BY Zenon DEF Link, Address, Record, Obj, Object, Kinds


\* The requests of apply_child by their kind; one for an address or a route
\* comes with one for the link.
LEMMA ApplyFacts ==
  ASSUME NEW c \in Conn, NEW h \in Handle, NEW o \in ApplyChild(c, h)
  PROVE  /\ o \in Object /\ o.c = c
         /\ o.kind = "sa_in" => o = SaIn(c, h)
         /\ o.kind = "sa_out" => o = SaOut(c, h)
         /\ o.kind \in PolicyKinds => o \in Policies(c)
         /\ o.kind = "record" => o = Record(c)
         /\ o.kind = "link" => c \in Tunnel /\ o = Link(c)
         /\ o.kind = "route" => o \in Routes(c)
         /\ o.kind \in {"addr", "route"} => Link(c) \in ApplyChild(c, h)
<1>1. CASE o \in Policies(c)
  BY <1>1, PolicyFacts, Zenon DEF PolicyKinds
<1>2. CASE o \in Sas(c, h)
  BY <1>2, SaFacts DEF Sas, PolicyKinds
<1>3. CASE o = Record(c)
  BY <1>3, OtherFacts, Zenon DEF PolicyKinds
<1>4. CASE c \in Tunnel /\ o \in {Link(c), Address(c)}
  BY <1>4, OtherFacts DEF PolicyKinds, ApplyChild
<1>5. CASE c \in Tunnel /\ o \in Routes(c)
  BY <1>5, RouteFacts, Zenon DEF PolicyKinds, ApplyChild
<1> QED
  BY <1>1, <1>2, <1>3, <1>4, <1>5, Zenon DEF ApplyChild

\* The order of apply_child as far as the proofs use it: the link first, then
\* the outbound SA, the inbound SA before the policies, the records before
\* address and routes.
LEMMA ApplyOrder ==
  ASSUME pc = "apply", NEW o \in Object, NEW p \in Object
  PROVE  /\ o.kind = "link" /\ p.kind # "link" => Before(o, p)
         /\ o.kind = "sa_out" /\ p.kind \notin {"link", "sa_out"} => Before(o, p)
         /\ o.kind = "sa_in" /\ p.kind \in PolicyKinds => Before(o, p)
         /\ o.kind = "record" /\ p.kind \in {"addr", "route"} => Before(o, p)
BY SMTT(30) DEF Before, Stages, PolicyKinds, Object, Kinds

---------------------------------------------------------------------------
\* Types of the SPIs in the table, the job and the channel.
LEMMA Spans ==
  ASSUME Shape
  PROVE  /\ drawn \in Nat /\ job.h \in Handle /\ job.h.in \in Nat
         /\ \A d \in Conn : /\ child[d] \in Handle /\ applied[d].h \in Handle
                            /\ applied[d].h.in \in Nat
         /\ \A i \in 1..Len(events) : /\ events[i] \in Event /\ events[i].c \in Conn
                                      /\ events[i].h \in Handle /\ events[i].h.in \in Nat
<1>1. \A d \in Conn : /\ child[d] \in Handle
                     /\ applied[d] \in [h : Handle, routes : SUBSET Object]
  BY Zenon DEF Shape
<1>2. \A i \in 1..Len(events) : events[i] \in Event
  BY ElementOfSeq, Zenon DEF Shape
<1> QED
  BY <1>1, <1>2, Zenon DEF Shape, Handle, Event

\* install_child and remove_child of the engine put an event at the end of the
\* channel: the SPI is newer than all before it.
LEMMA EventsGrow ==
  ASSUME Shape, Spis, NEW c \in Conn, NEW h \in Handle,
         excused \subseteq excused', UNCHANGED <<pc, job, applied>>,
         events' = Append(events, [c |-> c, h |-> h]), drawn' \in Nat, drawn <= drawn',
         child' = [child EXCEPT ![c] = h],
         h # NoChild => h.in = drawn + 1 /\ drawn' = drawn + 1,
         h.out = h.in \/ SaOut(c, h) \in excused'
  PROVE  events' \in Seq(Event) /\ child' \in [Conn -> Handle] /\ Spis'
<1>0. PICK e \in Event : e = [c |-> c, h |-> h]
  BY Zenon DEF Event
<1>1. /\ events' \in Seq(Event) /\ Len(events') = Len(events) + 1 /\ Len(events) \in Nat
      /\ events'[Len(events) + 1] = e
      /\ \A i \in 1..Len(events) : events'[i] = events[i]
  BY <1>0, AppendProperties DEF Shape
<1>2. /\ child' \in [Conn -> Handle]
      /\ \A d \in Conn : child'[d] = h \/ child'[d] = child[d]
      /\ child'[c] = h /\ \A d \in Conn : d # c => child'[d] = child[d]
  BY Zenon DEF Shape
<1>3. \A d \in Conn, g \in Handle : Fresh(d, g) => Fresh(d, g)'
  BY Zenon DEF Fresh
<1>4. Fresh(c, h)'
  BY Zenon DEF Fresh
<1>5. \A d \in Conn : Fresh(d, child[d])' /\ Fresh(d, applied[d].h)' /\ applied'[d].h.in <= drawn'
  <2>1. \A d \in Conn : Fresh(d, child[d])'
    BY <1>2, <1>3, <1>4, Spans, Zenon DEF Spis
  <2>2. \A d \in Conn : Fresh(d, applied[d].h)' /\ applied'[d].h.in <= drawn'
    BY <1>3, Spans, SMTT(30) DEF Spis
  <2> QED
    BY <2>1, <2>2, Zenon
<1>6. pc' = "apply" => Fresh(job.c, job.h)' /\ \A d \in Conn : applied'[d].h.in < job'.h.in
  BY <1>3, Zenon DEF Shape, Spis, Event
<1>7. job'.h.in <= drawn'
  BY SMTT(30) DEF Spis, Shape, Handle
<1>8. ASSUME NEW i \in 1..Len(events'), events'[i].h # NoChild
      PROVE  /\ Fresh(events[i].c, events[i].h)'
             /\ job'.h.in < events'[i].h.in /\ events'[i].h.in <= drawn'
             /\ \A d \in Conn : applied'[d].h.in < events'[i].h.in
             /\ \A j \in 1..Len(events') :
                    (i < j /\ events'[j].h # NoChild) => events'[i].h.in < events'[j].h.in
  <2>1. CASE i = Len(events) + 1
    <3>1. events'[i] = e /\ e.c = c /\ e.h = h /\ h.in = drawn + 1 /\ drawn' = drawn + 1
      BY <1>0, <1>1, <1>8, <2>1, SMTT(30) DEF Event
    <3>2. Fresh(events[i].c, events[i].h)'
      BY <1>4, <3>1, Zenon
    <3>3. /\ job'.h.in < events'[i].h.in /\ events'[i].h.in <= drawn'
          /\ \A d \in Conn : applied'[d].h.in < events'[i].h.in
      BY <3>1, Spans, SMTT(30) DEF Spis
    <3> QED
      BY <1>1, <2>1, <3>2, <3>3, SMTT(30)
  <2>2. CASE i \in 1..Len(events)
    <3>1. events'[i] = events[i] /\ events[i] \in Event
      BY <1>1, <2>2, ElementOfSeq, Zenon DEF Shape
    <3>2. Fresh(events[i].c, events[i].h)'
      BY <1>3, <1>8, <2>2, <3>1, Zenon DEF Spis, Event
    <3>3. /\ job'.h.in < events'[i].h.in /\ events'[i].h.in <= drawn /\ events'[i].h.in <= drawn'
          /\ \A d \in Conn : applied'[d].h.in < events'[i].h.in
      BY <1>8, <2>2, <3>1, Spans, SMTT(30) DEF Spis
    <3>4. ASSUME NEW j \in 1..Len(events'), i < j, events'[j].h # NoChild
          PROVE  events'[i].h.in < events'[j].h.in
      <4>1. CASE j = Len(events) + 1
        <5>1. events'[j].h = h /\ h.in = drawn + 1
          BY <1>0, <1>1, <3>4, <4>1 DEF Event
        <5> QED
          <6>1. PICK a : a = events[i].h.in
            BY Zenon
          <6>2. a \in Nat /\ drawn \in Nat /\ a <= drawn /\ events'[i].h.in = a
            BY <2>2, <3>1, <3>3, <6>1, Spans, Zenon
          <6>3. events'[j].h.in = drawn + 1
            BY <5>1, Zenon
          <6> QED
            BY <6>2, <6>3
      <4>2. CASE j \in 1..Len(events)
        BY <1>1, <1>8, <2>2, <3>1, <3>4, <4>2, Zenon DEF Spis
      <4> QED
        BY <1>1, <4>1, <4>2
    <3> QED
      BY <3>2, <3>3, <3>4, Zenon
  <2> QED
    BY <1>1, <2>1, <2>2, SMTT(30)
<1> QED
  BY <1>1, <1>2, <1>5, <1>6, <1>7, <1>8, Zenon DEF Spis

\* An engine that installs or removes its child preserves the invariant; an SPI
\* that the peer uses again is excused.
LEMMA EngineStep ==
  ASSUME XInv, NEW c \in Conn, InstallChild(c) \/ EngineRemove(c)
  PROVE  XInv'
<1>1. CASE InstallChild(c)
  <2>1. PICK again \in {FALSE, child[c] # NoChild}, h \in Handle :
          /\ h.in = drawn + 1 /\ h.out = IF again THEN child[c].out ELSE drawn + 1
          /\ drawn' = drawn + 1
          /\ child' = [child EXCEPT ![c] = h]
          /\ events' = Append(events, [c |-> c, h |-> h])
          /\ excused' = IF again THEN excused \cup {SaOut(c, h)} ELSE excused
    <3>1. PICK again \in {FALSE, child[c] # NoChild} :
            LET h == [in |-> drawn + 1, out |-> IF again THEN child[c].out ELSE drawn + 1] IN
            /\ drawn' = drawn + 1
            /\ child' = [child EXCEPT ![c] = h]
            /\ events' = Append(events, [c |-> c, h |-> h])
            /\ excused' = IF again THEN excused \cup {SaOut(c, h)} ELSE excused
      BY <1>1, Zenon DEF InstallChild
    <3>2. PICK o \in Nat : o = IF again THEN child[c].out ELSE drawn + 1
      BY Spans DEF XInv, Handle
    <3>3. PICK h : h = [in |-> drawn + 1, out |-> o]
      BY Zenon
    <3>4. h \in Handle /\ h.in = drawn + 1 /\ h.out = o
      BY <3>3, Spans DEF XInv, Handle
    <3>5. [in |-> drawn + 1, out |-> IF again THEN child[c].out ELSE drawn + 1] = h
      BY <3>2, <3>3, Zenon
    <3> QED
      BY <3>1, <3>2, <3>4, <3>5, Zenon
  <2>2. UNCHANGED <<pc, stopping, job, todo, got, applied, owned, renewed, unapplied, kernel,
                    strays>>
    BY <1>1, Zenon DEF InstallChild, daemonVars
  <2>3. excused \subseteq excused' /\ (h.out = h.in \/ SaOut(c, h) \in excused')
        /\ \A o \in excused' : o.kind \in SaKinds
    BY <2>1, SaFacts, SMTT(30) DEF XInv, Shape, SaKinds
  <2>4. drawn' \in Nat /\ drawn <= drawn'
    BY <2>1 DEF XInv, Shape
  <2>5. events' \in Seq(Event) /\ child' \in [Conn -> Handle] /\ Spis'
    BY <2>1, <2>2, <2>3, <2>4, EventsGrow, Zenon DEF XInv
  <2>6. Shape'
    BY <2>2, <2>3, <2>4, <2>5, Zenon DEF XInv, Shape
  <2>7. Applying'
    BY <2>2, <2>3, Zenon DEF XInv, Applying, Has, Before
  <2>8. Spared'
    BY <2>2, <2>3, Zenon DEF XInv, Spared, Has, Deleting
  <2>9. InKernel'
    BY <2>2, <2>3, Zenon DEF XInv, InKernel, Has
  <2>10. Accounted' /\ Ending'
    BY <2>2, Zenon DEF XInv, Accounted, InHand, Deleting, Ending
  <2> QED
    BY <2>5, <2>6, <2>7, <2>8, <2>9, <2>10, Zenon DEF XInv
<1>2. CASE EngineRemove(c)
  <2>1. /\ NoChild \in Handle /\ NoChild.out = NoChild.in
        /\ child' = [child EXCEPT ![c] = NoChild]
        /\ events' = Append(events, [c |-> c, h |-> NoChild])
        /\ drawn' \in Nat /\ drawn <= drawn' /\ excused \subseteq excused'
    BY <1>2, SMTT(30) DEF EngineRemove, NoChild, Handle, XInv, Shape
  <2>2. UNCHANGED <<pc, stopping, job, todo, got, applied, owned, renewed, unapplied, kernel,
                    strays, excused, drawn>>
    BY <1>2, Zenon DEF EngineRemove, daemonVars
  <2>3. events' \in Seq(Event) /\ child' \in [Conn -> Handle] /\ Spis'
    BY <2>1, <2>2, EventsGrow, Zenon DEF XInv
  <2>4. Shape'
    BY <2>2, <2>3, Zenon DEF XInv, Shape
  <2>5. Applying' /\ Spared' /\ InKernel' /\ Accounted' /\ Ending'
    BY <2>2, ZenonT(40) DEF XInv, Applying, Spared, InKernel, Accounted, Ending, Has, Before, Deleting,
                       InHand
  <2> QED
    BY <2>3, <2>4, <2>5, Zenon DEF XInv
<1> QED
  BY <1>1, <1>2, Zenon

\* An SA that reaches its hard lifetime preserves the invariant.
LEMMA ExpireStep ==
  ASSUME XInv, Expire
  PROVE  XInv'
<1>1. PICK o \in kernel : /\ o.kind \in {"sa_in", "sa_out"}
                         /\ kernel' = kernel \ {o} /\ strays' = strays \ {o}
                         /\ excused' = excused \cup {o}
  BY Zenon DEF Expire
<1>2. UNCHANGED <<child, drawn, events, pc, stopping, job, todo, got, applied, owned, renewed,
                  unapplied>>
  BY Zenon DEF Expire, daemonVars
<1>3. Shape'
  BY <1>1, <1>2, Zenon DEF XInv, Shape, SaKinds
<1>4. Spis'
  BY <1>1, <1>2, Zenon DEF XInv, Spis, Fresh
<1>5. Applying'
  BY <1>1, <1>2, ZenonT(40) DEF XInv, Applying, Has, Before
<1>6. Spared'
  BY <1>1, <1>2, Zenon DEF XInv, Spared, Has, Deleting
<1>7. InKernel'
  <2>1. ASSUME NEW c \in Conn
        PROVE  o \notin Policies(c) /\ o \notin applied[c].routes
    BY <1>1, PolicyFacts, RouteFacts, Zenon DEF XInv, Shape, PolicyKinds
  <2> QED
    BY <1>1, <1>2, <2>1, Zenon DEF XInv, InKernel, Has
<1>8. Accounted'
  <2>1. ASSUME NEW k \in kernel'
        PROVE  k \in kernel /\ k # o /\ Link(k.c) # o /\ (InHand(k) => InHand(k)')
    BY <1>1, <1>2, <2>1, OtherFacts, SMTT(30) DEF InHand, Deleting, XInv, Shape, Object
  <2> QED
    BY <1>1, <1>2, <2>1, Zenon DEF XInv, Accounted
<1>9. Ending'
  BY <1>1, <1>2, Zenon DEF XInv, Ending
<1> QED
  BY <1>3, <1>4, <1>5, <1>6, <1>7, <1>8, <1>9, Zenon DEF XInv

\* What is left of the channel when run_ipsec takes an event.
LEMMA TailFacts ==
  ASSUME Shape, events # <<>>
  PROVE  /\ 1 \in 1..Len(events) /\ Head(events) = events[1] /\ Tail(events) \in Seq(Event)
         /\ \A i \in 1..Len(Tail(events)) :
              /\ Tail(events)[i] = events[i + 1] /\ i + 1 \in 1..Len(events)
              /\ 1 < i + 1 /\ i \in Nat
BY HeadTailProperties, EmptySeq, LenProperties DEF Shape

\* Taking an event keeps the SPIs in order, whether its child becomes the job
\* or its connection loses its entry.
LEMMA TakeEvent ==
  ASSUME Shape, Spis, events # <<>>, events' = Tail(events), UNCHANGED <<child, drawn, excused>>,
         \/ /\ job' = Head(events) /\ Head(events).h # NoChild /\ UNCHANGED applied
         \/ /\ UNCHANGED job /\ pc' # "apply"
            /\ \A d \in Conn : applied'[d].h \in {applied[d].h, NoChild}
  PROVE  Spis' /\ events' \in Seq(Event) /\ job'.h \in Handle /\ (pc' = "apply" => job' \in Event)
<1>1. NoChild \in Handle /\ NoChild.in = 0 /\ \A d \in Conn : Fresh(d, NoChild)
  BY Zenon DEF NoChild, Handle, Fresh
<1>2. \A d \in Conn : /\ Fresh(d, applied[d].h)' /\ applied'[d].h.in \in Nat
                     /\ applied'[d].h.in <= applied[d].h.in
  BY <1>1, Spans, SMTT(30) DEF Spis, Fresh
<1>3. PICK e \in Event : e = Head(events) /\ e = events[1] /\ e.c \in Conn /\ e.h \in Handle
                        /\ e.h.in \in Nat
  BY TailFacts, Spans, Zenon
<1>4. \/ job' = e /\ e.h # NoChild /\ UNCHANGED applied
      \/ UNCHANGED job /\ pc' # "apply"
  BY <1>3, Zenon
<1>5. job'.h \in Handle /\ job'.h.in \in Nat /\ (pc' = "apply" => job' \in Event)
  BY <1>3, <1>4, Spans, Zenon
<1>6. job'.h.in <= drawn'
  BY <1>3, <1>4, TailFacts, Zenon DEF Spis
<1>7. pc' = "apply" => Fresh(job.c, job.h)' /\ \A c \in Conn : applied'[c].h.in < job'.h.in
  BY <1>3, <1>4, TailFacts, Zenon DEF Spis, Fresh
<1>8. ASSUME NEW i \in 1..Len(events'), events'[i].h # NoChild
      PROVE  /\ Fresh(events[i].c, events[i].h)'
             /\ job'.h.in < events'[i].h.in /\ events'[i].h.in <= drawn'
             /\ \A c \in Conn : applied'[c].h.in < events'[i].h.in
             /\ \A j \in 1..Len(events') :
                    (i < j /\ events'[j].h # NoChild) => events'[i].h.in < events'[j].h.in
  <2>1. /\ events'[i] = events[i + 1] /\ i + 1 \in 1..Len(events) /\ 1 < i + 1 /\ i \in Nat
        /\ events[i + 1].h.in \in Nat
    BY TailFacts, Spans, Zenon
  <2>2. /\ Fresh(events[i + 1].c, events[i + 1].h) /\ job.h.in < events[i + 1].h.in
        /\ events[i + 1].h.in <= drawn
        /\ \A c \in Conn : applied[c].h.in < events[i + 1].h.in
    BY <1>8, <2>1, Zenon DEF Spis
  <2>3. e.h # NoChild => e.h.in < events[i + 1].h.in
    BY <1>3, <1>8, <2>1, TailFacts, ZenonT(40) DEF Spis
  <2>4. Fresh(events[i].c, events[i].h)'
    BY <2>1, <2>2, Zenon DEF Fresh
  <2>5. job'.h.in < events'[i].h.in /\ events'[i].h.in <= drawn'
    BY <1>4, <2>1, <2>2, <2>3, Zenon
  <2>6. ASSUME NEW c \in Conn
        PROVE  applied'[c].h.in < events'[i].h.in
    BY <1>2, <2>1, <2>2, Spans, SMTT(30)
  <2>7. ASSUME NEW j \in 1..Len(events'), i < j, events'[j].h # NoChild
        PROVE  events'[i].h.in < events'[j].h.in
    <3>1. events'[j] = events[j + 1] /\ j + 1 \in 1..Len(events) /\ i + 1 < j + 1
      BY <2>1, <2>7, TailFacts
    <3> QED
      BY <1>8, <2>1, <2>7, <3>1, Zenon DEF Spis
  <2> QED
    BY <2>4, <2>5, <2>6, <2>7, Zenon
<1>9. \A d \in Conn : Fresh(d, child[d])' /\ applied'[d].h.in <= drawn'
  <2>1. ASSUME NEW d \in Conn
        PROVE  applied'[d].h.in <= drawn'
    BY <1>2, Spans, SMTT(30) DEF Spis
  <2> QED
    BY <2>1, Zenon DEF Spis, Fresh
<1> QED
  BY <1>2, <1>5, <1>6, <1>7, <1>8, <1>9, TailFacts, Zenon DEF Spis

\* run_ipsec starting an apply_child preserves the invariant.
LEMMA HandleChildStep ==
  ASSUME XInv, HandleChild
  PROVE  XInv'
<1>1. /\ events # <<>> /\ Head(events).h # NoChild /\ events' = Tail(events)
      /\ job' = Head(events) /\ todo' = ApplyChild(job'.c, job'.h)
      /\ renewed' = (IF Has(job'.c) THEN renewed \cup {job'.c} ELSE renewed)
      /\ pc = "idle" /\ pc' = "apply" /\ got' = {}
      /\ UNCHANGED <<child, drawn, excused, applied, owned, kernel, strays>>
  BY Zenon DEF HandleChild, engineVars, Idle
<1>2. Spis' /\ events' \in Seq(Event) /\ job'.h \in Handle /\ job' \in Event
  BY <1>1, TakeEvent, Zenon DEF XInv
<1>3. job'.c \in Conn
  BY <1>2, Zenon DEF Event
<1>4. todo' \subseteq Object
  BY <1>1, <1>2, <1>3, ApplyFacts, Zenon
<1>5. Shape'
  BY <1>1, <1>2, <1>4, Zenon DEF XInv, Shape
<1>6. Record(job'.c) \in todo'
  BY <1>1, Zenon DEF ApplyChild
<1>7. Applying'
  BY <1>1, <1>6, Zenon DEF Applying, Has
<1>8. Spared' /\ Ending'
  BY <1>1, Zenon DEF Spared, Ending, Deleting
<1>9. InKernel'
  BY <1>1, Zenon DEF XInv, InKernel, Has
<1>10. Accounted'
  <2>1. \A o : ~InHand(o)
    BY <1>1, Zenon DEF InHand, Deleting
  <2> QED
    BY <1>1, <2>1, Zenon DEF XInv, Accounted
<1> QED
  BY <1>2, <1>5, <1>7, <1>8, <1>9, <1>10, Zenon DEF XInv

\* What remove_child deletes: only of its connection, the SAs of the given
\* child, and the link only if asked to.
LEMMA RemoveFacts ==
  ASSUME NEW c \in Conn, NEW a \in [h : Handle, routes : SUBSET Object],
         a.routes \subseteq Routes(c),
         NEW keep, NEW o \in RemoveChild(c, a, FALSE, keep) \cup RemoveChild(c, a, TRUE, keep)
  PROVE  /\ o \in Object /\ o.c = c
         /\ o.kind = "link" => o \notin RemoveChild(c, a, FALSE, keep)
         /\ o.kind \in SaKinds => o \in Sas(c, a.h)
<1>0. a.h \in Handle
  BY Zenon
<1>1. CASE o \in Policies(c)
  BY <1>1, PolicyFacts, Zenon DEF PolicyKinds, SaKinds
<1>2. CASE o \in Sas(c, a.h)
  <2>1. o = SaIn(c, a.h) \/ o = SaOut(c, a.h)
    BY <1>2, Zenon DEF Sas
  <2>2. o \in Object /\ o.c = c /\ o.kind \in {"sa_in", "sa_out"}
    <3>1. PICK h \in Handle : h = a.h
      BY <1>0, Zenon
    <3>2. /\ SaIn(c, h) \in Object /\ SaIn(c, h).kind = "sa_in" /\ SaIn(c, h).c = c
          /\ SaOut(c, h) \in Object /\ SaOut(c, h).kind = "sa_out" /\ SaOut(c, h).c = c
      BY <3>1, SaFacts
    <3>3. o = SaIn(c, h) \/ o = SaOut(c, h)
      BY <2>1, <3>1, Zenon
    <3> QED
      BY <3>2, <3>3, Zenon
  <2>3. o.kind # "link"
    BY <2>2, Zenon
  <2> QED
    BY <1>2, <2>2, <2>3, Zenon
<1>3. CASE o \in a.routes
  BY <1>3, RouteFacts, Zenon DEF SaKinds
<1>4. CASE o = Link(c) /\ o \notin RemoveChild(c, a, FALSE, keep)
  BY <1>4, OtherFacts, Zenon DEF SaKinds
<1>5. o \in RemoveChild(c, a, FALSE, keep) => o \in Policies(c) \cup Sas(c, a.h) \cup a.routes
  BY Zenon DEF RemoveChild, RemoveInstalled
<1>6. \/ o \in Policies(c) \cup Sas(c, a.h) \cup a.routes
      \/ o = Link(c)
  BY Zenon DEF RemoveChild, RemoveInstalled
<1> QED
  BY <1>1, <1>2, <1>3, <1>4, <1>5, <1>6, Zenon

\* Removing the child of a connection preserves the invariant: the table has no
\* child that the deletions could hit.
LEMMA ForgetStep ==
  ASSUME XInv, NEW c \in Conn, Forget(c), pc = "idle", Shape', Spis',
         UNCHANGED <<excused, job, got, owned, kernel, strays>>
  PROVE  XInv'
<1>1. /\ \A d \in Conn \ {c} : applied'[d] = applied[d]
      /\ applied'[c].h = NoChild /\ renewed' = renewed \ {c}
  BY Zenon DEF Forget, NoApplied, XInv, Shape
<1>2. \/ pc' = "remove" /\ todo' = RemoveChild(c, applied[c], TRUE, {})
      \/ pc' = "idle"
  BY Zenon DEF Forget
<1>3. Applying' /\ Ending'
  BY <1>2, Zenon DEF Applying, Ending
<1>4. Spared'
  <2>1. ASSUME pc' = "remove", NEW o \in todo'
        PROVE  o.c = c
    <3>1. PICK a : a = applied[c]
      BY Zenon
    <3>2. a \in [h : Handle, routes : SUBSET Object] /\ a.routes \subseteq Routes(c)
      BY <3>1, Zenon DEF XInv, Shape
    <3>3. o \in RemoveChild(c, a, TRUE, {})
      BY <1>2, <2>1, <3>1, Zenon
    <3> QED
      BY <3>2, <3>3, RemoveFacts, Zenon
  <2> QED
    BY <1>1, <1>2, <2>1, Zenon DEF Spared, Deleting, Has
<1>5. InKernel'
  <2>1. ASSUME NEW d \in Conn, Has(d)'
        PROVE  /\ Sas(d, applied'[d].h) \subseteq kernel' \cup excused'
               /\ d \notin renewed' => Policies(d) \cup applied'[d].routes \subseteq kernel'
    <3>1. d # c /\ applied'[d] = applied[d] /\ Has(d) /\ (d \notin renewed' => d \notin renewed)
      BY <1>1, <2>1, Zenon DEF Has
    <3> QED
      BY <3>1, Zenon DEF XInv, InKernel
  <2> QED
    BY <2>1, Zenon DEF InKernel
<1>6. Accounted'
  <2>1. \A o : ~InHand(o)
    BY Zenon DEF InHand, Deleting
  <2> QED
    BY <2>1, Zenon DEF XInv, Accounted
<1> QED
  BY <1>3, <1>4, <1>5, <1>6, Zenon DEF XInv

\* The table after applied.remove has its type.
LEMMA ForgetShape ==
  ASSUME XInv, NEW c \in Conn, Forget(c), pc = "idle"
  PROVE  /\ pc' \in {"idle", "remove"} /\ todo' \subseteq Object
         /\ applied' \in [Conn -> [h : Handle, routes : SUBSET Object]]
         /\ \A d \in Conn : applied'[d].routes \subseteq Routes(d)
         /\ \A d \in Conn : applied'[d].h \in {applied[d].h, NoChild}
<1>1. NoApplied \in [h : Handle, routes : SUBSET Object] /\ NoApplied.routes = {}
      /\ NoApplied.h = NoChild
  BY Zenon DEF NoApplied, NoChild, Handle
<1>2. /\ applied' \in [Conn -> [h : Handle, routes : SUBSET Object]]
      /\ \A d \in Conn : applied'[d] \in {applied[d], NoApplied}
  BY <1>1, Zenon DEF Forget, XInv, Shape
<1>3. todo' \subseteq Object
  <2>1. \A o \in RemoveChild(c, applied[c], TRUE, {}) : o \in Object
    <3>1. PICK a : a = applied[c]
      BY Zenon
    <3>2. a \in [h : Handle, routes : SUBSET Object] /\ a.routes \subseteq Routes(c)
      BY <3>1, Zenon DEF XInv, Shape
    <3> QED
      BY <3>1, <3>2, RemoveFacts, Zenon
  <2> QED
    BY <2>1, Zenon DEF Forget, XInv, Shape
<1>4. pc' \in {"idle", "remove"}
  BY Zenon DEF Forget
<1> QED
  BY <1>1, <1>2, <1>3, <1>4, Zenon DEF XInv, Shape

\* run_ipsec handling the removal of a child preserves the invariant.
LEMMA RemovedStep ==
  ASSUME XInv, HandleRemoved
  PROVE  XInv'
<1>1. /\ events # <<>> /\ events' = Tail(events) /\ Forget(Head(events).c) /\ pc = "idle"
      /\ UNCHANGED <<child, drawn, excused, job, got, owned, kernel, strays>>
  BY Zenon DEF HandleRemoved, engineVars, Idle
<1>2. PICK c \in Conn : c = Head(events).c
  BY <1>1, TailFacts, Spans, Zenon DEF XInv
<1>3. Forget(c)
  BY <1>1, <1>2, Zenon
<1>4. /\ pc' \in {"idle", "remove"} /\ todo' \subseteq Object
      /\ applied' \in [Conn -> [h : Handle, routes : SUBSET Object]]
      /\ \A d \in Conn : applied'[d].routes \subseteq Routes(d)
      /\ \A d \in Conn : applied'[d].h \in {applied[d].h, NoChild}
  BY <1>1, <1>3, ForgetShape, Zenon
<1>5. pc' # "apply"
  BY <1>4, Zenon
<1>6. Spis' /\ events' \in Seq(Event)
  BY <1>1, <1>4, <1>5, TakeEvent, Zenon DEF XInv
<1>7. Shape'
  BY <1>1, <1>4, <1>6, Zenon DEF XInv, Shape
<1> QED
  BY <1>1, <1>3, <1>6, <1>7, ForgetStep, Zenon

\* run_ipsec draining its table at shutdown preserves the invariant.
LEMMA DrainStep ==
  ASSUME XInv, NEW c \in Conn, Drain(c)
  PROVE  XInv'
<1>1. /\ Forget(c) /\ pc = "idle"
      /\ UNCHANGED <<child, drawn, excused, events, job, got, owned, kernel, strays>>
  BY Zenon DEF Drain, engineVars
<1>2. /\ pc' \in {"idle", "remove"} /\ todo' \subseteq Object
      /\ applied' \in [Conn -> [h : Handle, routes : SUBSET Object]]
      /\ \A d \in Conn : applied'[d].routes \subseteq Routes(d)
      /\ \A d \in Conn : applied'[d].h \in {applied[d].h, NoChild}
  BY <1>1, ForgetShape, Zenon
<1>3. NoChild.in = 0 /\ \A d \in Conn : Fresh(d, NoChild)
  BY Zenon DEF NoChild, Fresh
<1>4. \A d \in Conn : /\ Fresh(d, applied[d].h)' /\ applied'[d].h.in \in Nat
                     /\ applied'[d].h.in <= applied[d].h.in
  BY <1>1, <1>2, <1>3, Spans, SMTT(30) DEF XInv, Spis, Fresh
<1>5. Spis'
  <2>1. ASSUME NEW d \in Conn
        PROVE  applied'[d].h.in <= drawn
    BY <1>4, Spans, SMTT(30) DEF XInv, Spis
  <2>2. ASSUME NEW d \in Conn, NEW i \in 1..Len(events), events[i].h # NoChild
        PROVE  applied'[d].h.in < events[i].h.in
    BY <1>4, <2>2, Spans, SMTT(30) DEF XInv, Spis
  <2>3. pc' # "apply" /\ \A d \in Conn, h \in Handle : Fresh(d, h)' <=> Fresh(d, h)
    BY <1>1, <1>2, Zenon DEF Fresh
  <2> QED
    BY <1>1, <1>4, <2>1, <2>2, <2>3, Spans, Zenon DEF XInv, Spis
<1>6. Shape'
  BY <1>1, <1>2, Zenon DEF XInv, Shape
<1> QED
  BY <1>1, <1>5, <1>6, ForgetStep, Zenon

\* What is known while the request for o is made.
LEMMA Requested ==
  ASSUME XInv, pc = "apply", NEW o, Request(o)
  PROVE  /\ job \in Event /\ job.c \in Conn /\ job.h \in Handle
         /\ o \in ApplyChild(job.c, job.h) /\ o \in todo /\ o \notin got /\ o \in Object
         /\ o.c = job.c
         /\ \A p \in ApplyChild(job.c, job.h) : Before(o, p) => p \in todo
         /\ \A p \in todo : ~Before(p, o)
         /\ got \subseteq ApplyChild(job.c, job.h) \ todo
<1>1. job \in Event /\ job.c \in Conn /\ job.h \in Handle
  BY Zenon DEF XInv, Shape, Event
<1>2. /\ o \in ApplyChild(job.c, job.h) /\ o \in todo /\ o \notin got
      /\ \A p \in ApplyChild(job.c, job.h) : Before(o, p) => p \in todo
      /\ got \subseteq ApplyChild(job.c, job.h) \ todo
  BY Zenon DEF XInv, Applying, Request
<1>3. o \in Object /\ o.c = job.c
  BY <1>1, <1>2, ApplyFacts, Zenon
<1>4. \A p \in todo : ~Before(p, o)
  BY Zenon DEF Request
<1> QED
  BY <1>1, <1>2, <1>3, <1>4, Zenon

\* A request of apply_child that succeeds preserves the invariant.
LEMMA AddedStep ==
  ASSUME XInv, NEW o, Added(o)
  PROVE  XInv'
<1>1. pc = "apply" /\ pc' = "apply" /\ Request(o)
      /\ UNCHANGED <<child, drawn, excused, events, job, applied, renewed>>
      /\ todo' = todo \ {o}
  BY Zenon DEF Added, engineVars
<1>2. PICK new : /\ o.kind = "record" => new = Recorded(job.c, job.h)
                 /\ o.kind = "link" => new = {o}
                 /\ o.kind \notin {"record", "link"} => new = {}
                 /\ owned' = owned \cup new /\ strays' = strays \ new
  <2>1. PICK new : new = CASE o.kind = "record" -> Recorded(job.c, job.h)
                           [] o.kind = "link" -> {o}
                           [] OTHER -> {}
    BY Zenon
  <2>2. owned' = owned \cup new /\ strays' = strays \ new
    BY <2>1, Zenon DEF Added
  <2>3. /\ o.kind = "record" => new = Recorded(job.c, job.h)
        /\ o.kind = "link" => new = {o}
        /\ o.kind \notin {"record", "link"} => new = {}
    BY <2>1, Zenon
  <2> QED
    BY <2>2, <2>3, Zenon
<1>3. /\ kernel' = IF o.kind = "record" THEN kernel ELSE kernel \cup {o}
      /\ got' = IF o.kind = "record" \/ (o.kind = "route" /\ o \in kernel)
                THEN got ELSE got \cup {o}
  BY Zenon DEF Added
<1>4. /\ job \in Event /\ job.c \in Conn /\ job.h \in Handle
      /\ o \in ApplyChild(job.c, job.h) /\ o \in todo /\ o \in Object /\ o.c = job.c
      /\ \A p \in todo : ~Before(p, o)
  BY <1>1, Requested, Zenon
<1>5. kernel \subseteq kernel' /\ kernel' \subseteq kernel \cup {o}
  BY <1>3, Zenon
<1>6. Shape'
  <2>1. \A k \in new : k \in Object /\ k.kind \in SaKinds \cup PolicyKinds \cup {"link"}
    BY <1>2, <1>4, SaFacts, PolicyFacts DEF Recorded, Sas, SaKinds
  <2>2. \A k \in owned' : k \in Object /\ k.kind \in SaKinds \cup PolicyKinds \cup {"link"}
    BY <1>2, <2>1, Zenon DEF XInv, Shape
  <2> QED
    BY <1>1, <1>3, <1>4, <2>2, Zenon DEF XInv, Shape
<1>7. Spis'
  BY <1>1, Zenon DEF XInv, Spis, Fresh
<1>8. Applying'
  <2>1. Has(job.c)' => job'.c \in renewed'
    BY <1>1, Zenon DEF XInv, Applying, Has
  <2>2. todo' \subseteq ApplyChild(job'.c, job'.h)
    BY <1>1, Zenon DEF XInv, Applying
  <2>3. ASSUME NEW q \in todo', NEW p \in ApplyChild(job'.c, job'.h), Before(q, p)'
        PROVE  p \in todo'
    <3>1. q \in todo /\ Before(q, p) /\ p \in ApplyChild(job.c, job.h)
      BY <1>1, <2>3, Zenon DEF Before
    <3>2. p \in todo
      BY <1>1, <3>1, Zenon DEF XInv, Applying
    <3>3. p # o
      BY <1>4, <3>1, Zenon
    <3> QED
      BY <1>1, <3>2, <3>3, Zenon
  <2>4. got' \subseteq ApplyChild(job'.c, job'.h) \ todo'
    BY <1>1, <1>3, <1>4, Requested, Zenon
  <2>5. ApplyChild(job'.c, job'.h) \ (todo' \cup {Record(job'.c)}) \subseteq kernel' \cup excused'
    <3>1. ApplyChild(job.c, job.h) \ (todo \cup {Record(job.c)}) \subseteq kernel \cup excused
      BY <1>1, Zenon DEF XInv, Applying
    <3>2. o = Record(job.c) \/ o \in kernel'
      BY <1>3, <1>4, ApplyFacts, ZenonT(40)
    <3> QED
      BY <1>1, <1>5, <3>1, <3>2, Zenon
  <2>6. Record(job'.c) \notin todo' => Recorded(job'.c, job'.h) \subseteq owned'
    <3>1. CASE o = Record(job.c)
      BY <1>1, <1>2, <1>4, <3>1, OtherFacts, Zenon DEF Recorded
    <3>2. CASE o # Record(job.c)
      BY <1>1, <1>2, <3>2, Zenon DEF XInv, Applying, Recorded
    <3> QED
      BY <3>1, <3>2, Zenon
  <2> QED
    BY <2>1, <2>2, <2>3, <2>4, <2>5, <2>6, Zenon DEF Applying
<1>9. Spared' /\ Ending'
  BY <1>1, Zenon DEF Spared, Ending, Deleting
<1>10. InKernel'
  BY <1>1, <1>5, Zenon DEF XInv, InKernel, Has
<1>11. Accounted'
  <2>1. ASSUME NEW k \in kernel'
        PROVE  /\ k.kind = "link" => k \in owned' \cup strays'
               /\ k.kind \in {"addr", "route"} => Link(k.c) \in kernel'
               /\ k.kind \in SaKinds \cup PolicyKinds => k \in owned' \cup strays' \/ InHand(k)'
    <3>1. CASE k \in kernel
      <4>1. InHand(k) => InHand(k)'
        BY <1>1, <1>3, Zenon DEF InHand, Deleting
      <4>2. k \in owned \cup strays => k \in owned' \cup strays'
        BY <1>2, Zenon
      <4> QED
        BY <1>5, <3>1, <4>1, <4>2, Zenon DEF XInv, Accounted
    <3>2. CASE k = o /\ o \notin kernel
      <4>1. k.kind # "record"
        BY <1>3, <3>2, Zenon
      <4>2. k.kind = "link" => k \in owned' \cup strays'
        BY <1>2, <3>2, Zenon
      <4>3. k.kind \in SaKinds \cup PolicyKinds => InHand(k)'
        BY <1>1, <1>3, <3>2, <4>1, Zenon DEF InHand
      <4>4. ASSUME k.kind \in {"addr", "route"}
            PROVE  Link(k.c) \in kernel'
        <5>1. Link(job.c) \in ApplyChild(job.c, job.h) /\ k.c = job.c
          BY <1>4, <3>2, <4>4, ApplyFacts, Zenon
        <5>2. Before(Link(job.c), o)
          BY <1>1, <1>4, <3>2, <4>4, OtherFacts, ApplyOrder, SMTT(30)
        <5>3. Link(job.c) \notin todo /\ Link(job.c) # Record(job.c) /\ Link(job.c) \notin excused
          BY <1>4, <5>2, OtherFacts, Zenon DEF XInv, Shape, SaKinds
        <5>4. Link(job.c) \in kernel
          BY <1>1, <5>1, <5>3, Zenon DEF XInv, Applying
        <5> QED
          BY <1>5, <5>1, <5>4, Zenon
      <4> QED
        BY <4>2, <4>3, <4>4, Zenon
    <3> QED
      BY <1>5, <3>1, <3>2, Zenon
  <2> QED
    BY <2>1, Zenon DEF Accounted
<1> QED
  BY <1>6, <1>7, <1>8, <1>9, <1>10, <1>11, Zenon DEF XInv

\* An SA of one child that is also one of a later child is excused.
LEMMA SasApart ==
  ASSUME NEW c \in Conn, NEW old \in Handle, NEW h \in Handle, old.in < h.in,
         Fresh(c, old), Fresh(c, h), NEW o \in Sas(c, old), o \in Sas(c, h)
  PROVE  o \in excused
<1>1. /\ o.kind = "sa_in" => o = SaIn(c, old) /\ o = SaIn(c, h)
      /\ o.kind = "sa_out" => o = SaOut(c, old) /\ o = SaOut(c, h)
      /\ o.kind \in {"sa_in", "sa_out"}
  BY SaFacts DEF Sas
<1>2. o.kind # "sa_in"
  BY <1>1, SaFacts DEF Handle
<1>3. o = SaOut(c, old) /\ o = SaOut(c, h) /\ old.out = h.out
  BY <1>1, <1>2, SaFacts
<1>4. old.in \in Nat /\ h.in \in Nat
  BY Zenon DEF Handle
<1> QED
  BY <1>3, <1>4 DEF Fresh

\* What is undone when a request of apply_child fails is of its connection, no
\* link, and among SAs only those of the child being applied.
LEMMA UndoFacts ==
  ASSUME XInv, pc = "apply", NEW o, Request(o), o.kind # "record", NEW k \in Undo(o, job.c, job.h)
  PROVE  /\ k \in Object /\ k.c = job.c /\ k.kind # "link"
         /\ k.kind \in SaKinds => k \in Sas(job.c, job.h)
<1>1. /\ job.c \in Conn /\ job.h \in Handle /\ o \in Object
  BY Requested, Zenon
<1>2. k \in Policies(job.c) \/ k \in Routes(job.c) \/ k \in Sas(job.c, job.h)
  <2>1. CASE o.kind \in {"link", "sa_out"}
    BY <2>1, Zenon DEF Undo, PolicyKinds
  <2>2. CASE o.kind = "sa_in"
    BY <2>2, Zenon DEF Undo, PolicyKinds, Sas
  <2>3. CASE o.kind \in PolicyKinds
    BY <2>3, Zenon DEF Undo, PolicyKinds
  <2>4. CASE o.kind \in {"addr", "route"}
    BY <2>4, Zenon DEF Undo, PolicyKinds, RemoveInstalled
  <2> QED
    BY <1>1, <2>1, <2>2, <2>3, <2>4, Zenon DEF Object, Kinds
<1>3. CASE k \in Policies(job.c)
  BY <1>1, <1>3, PolicyFacts, Zenon DEF PolicyKinds, SaKinds
<1>4. CASE k \in Routes(job.c)
  BY <1>1, <1>4, RouteFacts, Zenon DEF SaKinds
<1>5. CASE k \in Sas(job.c, job.h)
  BY <1>1, <1>5, SaFacts, SMTT(30) DEF Sas
<1> QED
  BY <1>2, <1>3, <1>4, <1>5, Zenon

\* No SA or policy that this apply_child has put in place escapes its undo.
LEMMA UndoReaches ==
  ASSUME XInv, pc = "apply", NEW o, Request(o), o.kind # "record",
         NEW k \in got, k.kind \in SaKinds \cup PolicyKinds
  PROVE  k \in owned \/ k \in Undo(o, job.c, job.h)
<1>1. /\ job.c \in Conn /\ job.h \in Handle /\ o \in Object /\ o \in todo
      /\ k \in ApplyChild(job.c, job.h) /\ k \notin todo
      /\ \A p \in ApplyChild(job.c, job.h) : Before(o, p) => p \in todo
      /\ \A p \in todo : ~Before(p, o)
  BY Requested, Zenon
<1>2. k \in Object /\ ~Before(o, k) /\ k # o
  BY <1>1, ApplyFacts, Zenon
<1>3. CASE o.kind \in {"link", "sa_out"}
  <2>1. k.kind = "sa_out"
    BY <1>1, <1>2, <1>3, ApplyOrder, Zenon DEF SaKinds, PolicyKinds
  <2>2. o.kind = "sa_out"
    BY <1>1, <1>2, <1>3, <2>1, ApplyOrder, Zenon
  <2> QED
    BY <1>1, <1>2, <2>1, <2>2, Requested, ApplyFacts, SMTT(30)
<1>4. CASE o.kind = "sa_in"
  <2>1. k.kind = "sa_out" \/ k.kind = "sa_in"
    BY <1>1, <1>2, <1>4, ApplyOrder, Zenon DEF SaKinds
  <2>2. k.kind = "sa_out"
    BY <1>1, <1>2, <1>4, <2>1, Requested, ApplyFacts, SMTT(30)
  <2>3. k = SaOut(job.c, job.h)
    BY <1>1, <2>2, ApplyFacts, SMTT(30)
  <2> QED
    BY <1>4, <2>3, Zenon DEF Undo, PolicyKinds
<1>5. CASE o.kind \in PolicyKinds
  <2>1. k \in Policies(job.c) \/ k \in Sas(job.c, job.h)
    BY <1>1, ApplyFacts, Zenon DEF Sas, SaKinds
  <2> QED
    BY <1>5, <2>1, Zenon DEF Undo, PolicyKinds
<1>6. CASE o.kind \in {"addr", "route"}
  <2>1. Record(job.c) \notin todo
    BY <1>1, <1>6, OtherFacts, ApplyOrder, SMTT(30)
  <2>2. k \in Policies(job.c) \/ k \in Sas(job.c, job.h)
    BY <1>1, ApplyFacts, Zenon DEF Sas, SaKinds
  <2> QED
    BY <2>1, <2>2, Zenon DEF XInv, Applying, Recorded
<1> QED
  BY <1>1, <1>3, <1>4, <1>5, <1>6, Zenon DEF Object, Kinds

\* A request of apply_child that fails, with the rollback this starts,
\* preserves the invariant; the SAs of the child in the table are not among
\* those rolled back.
LEMMA NotAddedStep ==
  ASSUME XInv, NEW o, NotAdded(o)
  PROVE  XInv'
<1>1. /\ pc = "apply" /\ pc' \in {"undo", "unwind"} /\ Request(o) /\ o.kind # "record"
      /\ todo' = Undo(o, job.c, job.h)
      /\ UNCHANGED <<child, drawn, excused, events, job, got, applied, owned, renewed>>
  BY Zenon DEF NotAdded, engineVars
<1>2. PICK made : /\ \A k \in made : k = o /\ \E c \in Tunnel : k = Link(c)
                  /\ kernel' = kernel \cup made
                  /\ strays' = strays \cup (made \ (kernel \cup owned))
  <2>1. PICK made \in {{}, {o} \cap {Link(c) : c \in Tunnel}} :
              /\ kernel' = kernel \cup made
              /\ strays' = strays \cup (made \ (kernel \cup owned))
    BY Zenon DEF NotAdded
  <2>2. \A k \in made : k = o /\ \E c \in Tunnel : k = Link(c)
    BY <2>1, Zenon
  <2> QED
    BY <2>1, <2>2, Zenon
<1>3. job.c \in Conn /\ job.h \in Handle /\ o \in Object
  BY <1>1, Requested, Zenon
<1>4. \A k \in made : k \in Object /\ k.kind = "link"
  BY <1>2, OtherFacts, XfrmAssumption
<1>5. \A k \in todo' : /\ k \in Object /\ k.c = job.c /\ k.kind # "link"
                       /\ k.kind \in SaKinds => k \in Sas(job.c, job.h)
  BY <1>1, UndoFacts, Zenon
<1>6. Shape'
  BY <1>1, <1>2, <1>4, <1>5, Zenon DEF XInv, Shape
<1>7. Spis'
  BY <1>1, Zenon DEF XInv, Spis, Fresh
<1>8. Applying' /\ Ending'
  BY <1>1, Zenon DEF Applying, Ending
<1>9. Spared'
  <2>1. ASSUME NEW k \in todo', Has(k.c)'
        PROVE  /\ k.c \in renewed' /\ k.kind # "link"
               /\ k \in Sas(k.c, applied'[k.c].h) => k \in excused'
    <3>1. k.c = job.c /\ Has(job.c) /\ k.kind # "link" /\ k.c \in renewed'
      BY <1>1, <1>5, <2>1, Zenon DEF XInv, Applying, Has
    <3>2. ASSUME k \in Sas(job.c, applied[job.c].h)
          PROVE  k \in excused
      <4>1. applied[job.c].h \in Handle /\ Fresh(job.c, applied[job.c].h) /\ Fresh(job.c, job.h)
            /\ applied[job.c].h.in < job.h.in
        BY <1>1, <1>3, Spans, Zenon DEF XInv, Spis
      <4>2. k \in Sas(job.c, job.h)
        BY <1>3, <1>5, <3>2, <4>1, SaFacts, SMTT(30) DEF Sas, SaKinds
      <4> QED
        BY <1>3, <3>2, <4>1, <4>2, SasApart, Zenon
    <3> QED
      BY <1>1, <3>1, <3>2, Zenon
  <2> QED
    BY <2>1, Zenon DEF Spared
<1>10. InKernel'
  BY <1>1, <1>2, Zenon DEF XInv, InKernel, Has
<1>11. Accounted'
  <2>1. ASSUME NEW k \in kernel'
        PROVE  /\ k.kind = "link" => k \in owned' \cup strays'
               /\ k.kind \in {"addr", "route"} => Link(k.c) \in kernel'
               /\ k.kind \in SaKinds \cup PolicyKinds => k \in owned' \cup strays' \/ InHand(k)'
    <3>1. CASE k \in kernel
      <4>1. k.kind \in SaKinds \cup PolicyKinds /\ InHand(k) => k \in owned \/ k \in todo'
        BY <1>1, UndoReaches, Zenon DEF InHand, Deleting
      <4>2. k \in todo' => InHand(k)'
        BY <1>1, Zenon DEF InHand, Deleting
      <4> QED
        BY <1>1, <1>2, <3>1, <4>1, <4>2, Zenon DEF XInv, Accounted
    <3>2. CASE k \in made /\ k \notin kernel
      BY <1>1, <1>2, <1>4, <3>2, Zenon DEF SaKinds, PolicyKinds
    <3> QED
      BY <1>2, <3>1, <3>2, Zenon
  <2> QED
    BY <2>1, Zenon DEF Accounted
<1> QED
  BY <1>6, <1>7, <1>8, <1>9, <1>10, <1>11, Zenon DEF XInv

\* The end of apply_child preserves the invariant: the new child is in the
\* kernel, and the removal of the one it replaces spares its SAs.
LEMMA AppliedStep ==
  ASSUME XInv, Applied
  PROVE  XInv'
<1>1. /\ pc = "apply" /\ todo = {}
      /\ UNCHANGED <<child, drawn, excused, events, job, got, owned, renewed, kernel, strays>>
  BY Zenon DEF Applied, engineVars
<1>2. PICK c \in Conn, h \in Handle : c = job.c /\ h = job.h
  BY <1>1, Zenon DEF XInv, Shape, Event
<1>3. PICK routes : routes = {o \in got : o.kind = "route"}
  BY Zenon
<1>4. routes \subseteq Routes(c) /\ routes \subseteq kernel /\ routes \subseteq Object
  <2>1. ASSUME NEW o \in routes
        PROVE  o \in Routes(c) /\ o \in kernel /\ o \in Object
    <3>1. o \in ApplyChild(c, h) /\ o.kind = "route"
      BY <1>1, <1>2, <1>3, Zenon DEF XInv, Applying
    <3>2. o # Record(c) /\ o \notin excused
      BY <3>1, OtherFacts, Zenon DEF XInv, Shape, SaKinds
    <3> QED
      BY <1>1, <1>2, <3>1, <3>2, ApplyFacts, Zenon DEF XInv, Applying
  <2> QED
    BY <2>1, Zenon
<1>5. PICK a : a = [h |-> h, routes |-> routes]
  BY Zenon
<1>6. a \in [h : Handle, routes : SUBSET Object] /\ a.h = h /\ a.routes = routes
  BY <1>4, <1>5, Zenon
<1>7. applied' = [applied EXCEPT ![c] = a]
  BY <1>2, <1>3, <1>5, Zenon DEF Applied
<1>8. /\ applied' \in [Conn -> [h : Handle, routes : SUBSET Object]] /\ applied'[c] = a
      /\ \A d \in Conn \ {c} : applied'[d] = applied[d]
  BY <1>6, <1>7, Zenon DEF XInv, Shape
<1>9. PICK old \in [h : Handle, routes : SUBSET Object] : old = applied[c]
  BY Zenon DEF XInv, Shape
<1>10. [applied[c] EXCEPT !.h = Replaced(c)] = old
  BY <1>9, Zenon DEF Replaced
<1>11. \/ Has(c) /\ pc' = "remove" /\ todo' = RemoveChild(c, old, FALSE, routes)
       \/ pc' = "idle" /\ todo' = {}
  BY <1>1, <1>2, <1>3, <1>10, Zenon DEF Applied
<1>12. old.routes \subseteq Routes(c) /\ old.h \in Handle
  BY <1>9, Zenon DEF XInv, Shape
<1>13. \A o \in todo' : /\ o \in Object /\ o.c = c /\ o.kind # "link"
                        /\ o.kind \in SaKinds => o \in Sas(c, old.h)
  <2>1. ASSUME NEW o \in RemoveChild(c, old, FALSE, routes)
        PROVE  /\ o \in Object /\ o.c = c /\ o.kind # "link"
               /\ o.kind \in SaKinds => o \in Sas(c, old.h)
    BY <1>12, <2>1, RemoveFacts, Zenon
  <2> QED
    BY <1>11, <2>1, Zenon
<1>14. Shape'
  BY <1>1, <1>4, <1>6, <1>8, <1>11, <1>13, Zenon DEF XInv, Shape
<1>15. Spis'
  <2>1. ASSUME NEW d \in Conn
        PROVE  Fresh(d, applied[d].h)' /\ applied'[d].h.in <= drawn'
    BY <1>1, <1>2, <1>6, <1>8, Zenon DEF XInv, Spis, Fresh
  <2>2. ASSUME NEW d \in Conn, NEW i \in 1..Len(events), events[i].h # NoChild
        PROVE  applied'[d].h.in < events[i].h.in
    BY <1>2, <1>6, <1>8, <2>2, Zenon DEF XInv, Spis
  <2>3. pc' # "apply" /\ \A d \in Conn, g \in Handle : Fresh(d, g)' <=> Fresh(d, g)
    BY <1>1, <1>11, Zenon DEF Fresh
  <2> QED
    BY <1>1, <2>1, <2>2, <2>3, Spans, Zenon DEF XInv, Spis
<1>16. Applying' /\ Ending'
  BY <1>11, Zenon DEF Applying, Ending
<1>17. Spared'
  <2>1. ASSUME NEW o \in todo', Has(o.c)'
        PROVE  /\ o.c \in renewed' /\ o.kind # "link"
               /\ o \in Sas(o.c, applied'[o.c].h) => o \in excused'
    <3>1. o.c = c /\ Has(c) /\ c \in renewed' /\ o.kind # "link"
      BY <1>1, <1>2, <1>11, <1>13, <2>1, Zenon DEF XInv, Applying, Has
    <3>2. ASSUME o \in Sas(c, h)
          PROVE  o \in excused
      <4>1. Fresh(c, old.h) /\ Fresh(c, h) /\ old.h.in < h.in
        BY <1>1, <1>2, <1>9, Zenon DEF XInv, Spis
      <4>2. o \in Sas(c, old.h)
        BY <1>13, <3>2, SaFacts, SMTT(30) DEF Sas, SaKinds
      <4> QED
        BY <1>12, <3>2, <4>1, <4>2, SasApart, Zenon
    <3> QED
      BY <1>1, <1>6, <1>8, <3>1, <3>2, Zenon
  <2> QED
    BY <2>1, Zenon DEF Spared
<1>18. InKernel'
  <2>1. ASSUME NEW d \in Conn \ {c}, Has(d)'
        PROVE  /\ Sas(d, applied'[d].h) \subseteq kernel' \cup excused'
               /\ d \notin renewed' => Policies(d) \cup applied'[d].routes \subseteq kernel'
    BY <1>1, <1>8, <2>1, Zenon DEF XInv, InKernel, Has
  <2>2. /\ Sas(c, applied'[c].h) \subseteq kernel' \cup excused'
        /\ Policies(c) \cup applied'[c].routes \subseteq kernel'
    <3>1. ApplyChild(c, h) \ {Record(c)} \subseteq kernel \cup excused
      BY <1>1, <1>2, Zenon DEF XInv, Applying
    <3>2. Sas(c, h) \subseteq kernel \cup excused
      <4>1. Record(c) \notin Sas(c, h)
        BY SaFacts, OtherFacts, SMTT(30) DEF Sas
      <4> QED
        BY <3>1, <4>1, Zenon DEF ApplyChild
    <3>3. Policies(c) \subseteq kernel
      <4>1. ASSUME NEW o \in Policies(c)
            PROVE  o # Record(c) /\ o \notin excused
        BY PolicyFacts, OtherFacts, SMTT(30) DEF PolicyKinds, SaKinds, XInv, Shape
      <4> QED
        BY <3>1, <4>1, Zenon DEF ApplyChild
    <3> QED
      BY <1>1, <1>4, <1>6, <1>8, <3>2, <3>3, Zenon
  <2> QED
    BY <2>1, <2>2, Zenon DEF InKernel
<1>19. Accounted'
  <2>1. ASSUME NEW o \in kernel, InHand(o), o.kind \in SaKinds \cup PolicyKinds
        PROVE  o \in owned
    <3>1. o \in ApplyChild(c, h)
      BY <1>1, <1>2, <2>1, Zenon DEF InHand, Deleting, XInv, Applying
    <3>2. o \in Policies(c) \/ o \in Sas(c, h)
      BY <2>1, <3>1, ApplyFacts, Zenon DEF Sas, SaKinds
    <3> QED
      BY <1>1, <1>2, <3>2, Zenon DEF XInv, Applying, Recorded
  <2> QED
    BY <1>1, <2>1, Zenon DEF XInv, Accounted
<1> QED
  BY <1>14, <1>15, <1>16, <1>17, <1>18, <1>19, Zenon DEF XInv

\* A deletion that succeeds preserves the invariant.
LEMMA DeletedStep ==
  ASSUME XInv, NEW o, Deleted(o)
  PROVE  XInv'
<1>1. /\ Deleting /\ o \in todo /\ o \in kernel
      /\ kernel' = kernel \ Gone(o) /\ strays' = strays \ Gone(o)
      /\ owned \ {o} \subseteq owned' /\ owned' \subseteq owned /\ todo' = todo \ {o}
      /\ UNCHANGED <<child, drawn, excused, events, pc, job, got, applied, renewed>>
  BY Zenon DEF Deleted, Request, engineVars
<1>2. o \in Object /\ o \in Gone(o)
  BY <1>1, Zenon DEF Gone, XInv, Shape
<1>3. ASSUME NEW k \in Gone(o)
      PROVE  k.c = o.c /\ (k = o \/ (o.kind = "link" /\ k.kind \in {"link", "addr", "route"}))
  BY Zenon DEF Gone
<1>4. Shape'
  BY <1>1, Zenon DEF XInv, Shape
<1>5. Spis'
  BY <1>1, Zenon DEF XInv, Spis, Fresh
<1>6. pc # "apply" /\ pc # "stopped"
  BY <1>1, Zenon DEF Deleting
<1>7. Applying'
  BY <1>1, <1>6, Zenon DEF Applying
<1>8. Spared'
  BY <1>1, Zenon DEF XInv, Spared, Deleting, Has
<1>9. InKernel'
  <2>1. ASSUME NEW c \in Conn, Has(c)'
        PROVE  /\ Sas(c, applied'[c].h) \subseteq kernel' \cup excused'
               /\ c \notin renewed' => Policies(c) \cup applied'[c].routes \subseteq kernel'
    <3>1. Has(c) /\ applied'[c] = applied[c]
      BY <1>1, <2>1, Zenon DEF Has
    <3>2. applied[c].h \in Handle /\ applied[c].routes \subseteq Routes(c)
      BY Spans, Zenon DEF XInv, Shape
    <3>3. CASE o.c = c
      <4>1. c \in renewed /\ o.kind # "link" /\ (o \in Sas(c, applied[c].h) => o \in excused)
        BY <1>1, <3>1, <3>3, Zenon DEF XInv, Spared
      <4>2. Gone(o) = {o}
        BY <4>1, Zenon DEF Gone
      <4> QED
        BY <1>1, <3>1, <4>1, <4>2, Zenon DEF XInv, InKernel
    <3>4. CASE o.c # c
      <4>1. \A k \in Sas(c, applied[c].h) \cup Policies(c) \cup applied[c].routes : k.c = c
        BY <3>2, SaFacts, PolicyFacts, RouteFacts, SMTT(30) DEF Sas
      <4>2. \A k \in Sas(c, applied[c].h) \cup Policies(c) \cup applied[c].routes : k \notin Gone(o)
        BY <1>3, <3>4, <4>1, Zenon
      <4> QED
        BY <1>1, <3>1, <4>2, Zenon DEF XInv, InKernel
    <3> QED
      BY <3>3, <3>4, Zenon
  <2> QED
    BY <2>1, Zenon DEF InKernel
<1>10. Accounted'
  <2>1. ASSUME NEW k \in kernel'
        PROVE  /\ k.kind = "link" => k \in owned' \cup strays'
               /\ k.kind \in {"addr", "route"} => Link(k.c) \in kernel'
               /\ k.kind \in SaKinds \cup PolicyKinds => k \in owned' \cup strays' \/ InHand(k)'
    <3>1. k \in kernel /\ k \notin Gone(o) /\ k # o /\ k \in Object
      BY <1>1, <1>2, Zenon DEF XInv, Shape
    <3>2. InHand(k) => InHand(k)'
      BY <1>1, <1>6, <3>1, Zenon DEF InHand, Deleting
    <3>3. k \in owned \cup strays => k \in owned' \cup strays'
      BY <1>1, <3>1, Zenon
    <3>4. ASSUME k.kind \in {"addr", "route"}
          PROVE  Link(k.c) \in kernel'
      <4>1. Link(k.c) \in kernel /\ k.c \in Conn
        BY <3>1, <3>4, Zenon DEF XInv, Accounted, Object
      <4>2. Link(k.c).c = k.c /\ Link(k.c).kind = "link"
        BY <4>1, OtherFacts, Zenon
      <4>3. ASSUME Link(k.c) \in Gone(o)
            PROVE  FALSE
        <5>1. o.c = k.c /\ o.kind = "link"
          BY <1>3, <4>2, <4>3, Zenon
        <5> QED
          BY <3>1, <3>4, <5>1, Zenon DEF Gone
      <4> QED
        BY <1>1, <4>1, <4>3, Zenon
    <3> QED
      BY <3>1, <3>2, <3>3, <3>4, Zenon DEF XInv, Accounted
  <2> QED
    BY <2>1, Zenon DEF Accounted
<1>11. Ending'
  <2>1. ASSUME pc = "cleanup", NEW k \in owned' \cap kernel'
        PROVE  k \in todo' \cup strays'
    <3>1. k \in owned \cap kernel /\ k \notin Gone(o) /\ k # o
      BY <1>1, <1>2, Zenon
    <3> QED
      BY <1>1, <2>1, <3>1, Zenon DEF XInv, Ending
  <2> QED
    BY <1>1, <1>6, <2>1, Zenon DEF Ending
<1> QED
  BY <1>4, <1>5, <1>7, <1>8, <1>9, <1>10, <1>11, Zenon DEF XInv

\* A deletion that fails, or finds nothing, preserves the invariant: its object
\* stays recorded or becomes a stray.
LEMMA NotDeletedStep ==
  ASSUME XInv, NEW o, NotDeleted(o)
  PROVE  XInv'
<1>1. /\ Deleting /\ o \in todo /\ todo' = todo \ {o} /\ strays \subseteq strays'
      /\ UNCHANGED <<child, drawn, excused, events, pc, job, got, applied, owned, renewed, kernel>>
  BY Zenon DEF NotDeleted, Request, engineVars
<1>2. o \in kernel /\ o.kind # "route" => o \in strays' \/ (pc # "cleanup" /\ o \in owned)
  BY Zenon DEF NotDeleted
<1>3. pc # "apply" /\ pc # "stopped"
  BY <1>1, Zenon DEF Deleting
<1>4. Shape' /\ Spis'
  BY <1>1, Zenon DEF XInv, Shape, Spis, Fresh
<1>5. Applying'
  BY <1>1, <1>3, Zenon DEF Applying
<1>6. Spared' /\ InKernel'
  BY <1>1, Zenon DEF XInv, Spared, InKernel, Deleting, Has
<1>7. Accounted'
  <2>1. ASSUME NEW k \in kernel, k.kind \in SaKinds \cup PolicyKinds, InHand(k)
        PROVE  k \in owned' \cup strays' \/ InHand(k)'
    <3>1. CASE k = o
      BY <1>1, <1>2, <2>1, <3>1, Zenon DEF SaKinds, PolicyKinds
    <3>2. CASE k # o
      BY <1>1, <1>3, <2>1, <3>2, Zenon DEF InHand, Deleting
    <3> QED
      BY <3>1, <3>2, Zenon
  <2> QED
    BY <1>1, <2>1, Zenon DEF XInv, Accounted
<1>8. Ending'
  <2>1. ASSUME pc = "cleanup", NEW k \in owned \cap kernel
        PROVE  k \in todo' \cup strays'
    <3>1. CASE k = o /\ o.kind # "route"
      BY <1>2, <2>1, <3>1, Zenon
    <3>2. CASE k # o
      BY <1>1, <2>1, <3>2, Zenon DEF XInv, Ending
    <3>3. CASE o.kind = "route" /\ k = o
      BY <2>1, <3>3, Zenon DEF XInv, Shape, SaKinds, PolicyKinds
    <3> QED
      BY <3>1, <3>2, <3>3, Zenon
  <2> QED
    BY <1>1, <1>3, <2>1, Zenon DEF Ending
<1> QED
  BY <1>4, <1>5, <1>6, <1>7, <1>8, Zenon DEF XInv

\* The end of an operation, shutdown, cleanup_owned, and the death and restart
\* of the daemon preserve the invariant.
LEMMA QuietStep ==
  ASSUME XInv, Finished \/ Shutdown \/ CleanupOwned \/ Stopped \/ Crash \/ Restart
  PROVE  XInv'
<1>1. CASE Finished
  <2>1. /\ pc \in {"undo", "unwind", "remove"} /\ todo = {} /\ pc' = "idle"
        /\ UNCHANGED <<child, drawn, excused, events, job, todo, got, applied, owned, renewed,
                       kernel, strays>>
    BY <1>1, Zenon DEF Finished, engineVars
  <2>2. Shape' /\ Spis' /\ InKernel'
    BY <2>1, Zenon DEF XInv, Shape, Spis, Fresh, InKernel, Has
  <2>3. Applying' /\ Spared' /\ Ending'
    BY <2>1, Zenon DEF Applying, Spared, Ending, Deleting
  <2>4. \A o : ~InHand(o)
    BY <2>1, Zenon DEF InHand
  <2>5. Accounted'
    BY <2>1, <2>4, Zenon DEF XInv, Accounted
  <2> QED
    BY <2>2, <2>3, <2>5, Zenon DEF XInv
<1>2. CASE Shutdown
  <2>1. /\ child' = [c \in Conn |-> NoChild] /\ events' = <<>> /\ pc = "idle"
        /\ UNCHANGED <<drawn, excused, pc, job, todo, got, applied, owned, renewed, kernel, strays>>
    BY <1>2, Zenon DEF Shutdown, Idle
  <2>2. /\ NoChild \in Handle /\ \A c \in Conn : Fresh(c, NoChild)'
        /\ events' \in Seq(Event) /\ Len(events') = 0
    BY <2>1 DEF NoChild, Handle, Fresh
  <2>3. child' \in [Conn -> Handle] /\ \A c \in Conn : child'[c] = NoChild
    BY <2>1, <2>2, Zenon
  <2>4. Shape'
    BY <2>1, <2>2, <2>3, Zenon DEF XInv, Shape
  <2>5. Spis'
    <3>1. \A i : i \notin 1..Len(events')
      BY <2>2
    <3>2. \A c \in Conn : Fresh(c, applied[c].h)'
      BY <2>1, Zenon DEF XInv, Spis, Fresh
    <3>3. pc' # "apply"
      BY <2>1, Zenon
    <3>4. \A c \in Conn : Fresh(c, child[c])'
      BY <2>2, <2>3, Zenon
    <3> QED
      BY <2>1, <3>1, <3>2, <3>3, <3>4, Zenon DEF XInv, Spis
  <2>6. Applying' /\ Spared' /\ InKernel' /\ Accounted' /\ Ending'
    BY <2>1, Zenon DEF XInv, Applying, Spared, InKernel, Accounted, Ending, Has, Before, Deleting,
                       InHand
  <2> QED
    BY <2>4, <2>5, <2>6, Zenon DEF XInv
<1>3. CASE CleanupOwned
  <2>1. /\ pc = "idle" /\ pc' = "cleanup" /\ todo' = owned /\ \A c \in Conn : ~Has(c)
        /\ UNCHANGED <<child, drawn, excused, events, job, got, applied, owned, renewed, kernel,
                       strays>>
    BY <1>3, Zenon DEF CleanupOwned, engineVars
  <2>2. todo' \subseteq Object
    BY <2>1, Zenon DEF XInv, Shape
  <2>3. Shape' /\ Spis' /\ InKernel'
    BY <2>1, <2>2, Zenon DEF XInv, Shape, Spis, Fresh, InKernel, Has
  <2>4. Applying' /\ Ending'
    BY <2>1, Zenon DEF Applying, Ending
  <2>5. Spared'
    BY <2>1, <2>2, Zenon DEF Spared, Has, Object
  <2>6. \A o : ~InHand(o)
    BY <2>1, Zenon DEF InHand, Deleting
  <2>7. Accounted'
    BY <2>1, <2>6, Zenon DEF XInv, Accounted
  <2> QED
    BY <2>3, <2>4, <2>5, <2>7, Zenon DEF XInv
<1>4. CASE Stopped
  <2>1. /\ pc = "cleanup" /\ todo = {} /\ pc' = "stopped" /\ owned' = {}
        /\ UNCHANGED <<child, drawn, excused, events, job, todo, got, applied, renewed, kernel,
                       strays>>
    BY <1>4, Zenon DEF Stopped, engineVars
  <2>2. Shape' /\ Spis' /\ InKernel'
    BY <2>1, Zenon DEF XInv, Shape, Spis, Fresh, InKernel, Has
  <2>3. Applying' /\ Spared' /\ Ending'
    BY <2>1, Zenon DEF Applying, Spared, Ending, Deleting
  <2>4. \A o \in owned \cap kernel : o \in strays
    BY <2>1, Zenon DEF XInv, Ending
  <2>5. \A o : ~InHand(o)
    BY <2>1, Zenon DEF InHand
  <2>6. Accounted'
    BY <2>1, <2>4, <2>5, Zenon DEF XInv, Accounted
  <2> QED
    BY <2>2, <2>3, <2>6, Zenon DEF XInv
<1>5. CASE Crash
  <2>1. /\ child' = [c \in Conn |-> NoChild] /\ events' = <<>> /\ pc' = "dead" /\ job' = NoJob
        /\ todo' = {} /\ applied' = [c \in Conn |-> NoApplied] /\ owned' = {} /\ strays' = kernel
        /\ UNCHANGED <<drawn, excused, kernel>>
    BY <1>5, Zenon DEF Crash
  <2>2. /\ NoChild \in Handle /\ NoChild.in = 0 /\ \A c \in Conn : Fresh(c, NoChild)'
        /\ events' \in Seq(Event) /\ Len(events') = 0
        /\ job'.h = NoChild /\ job'.h.in = 0
        /\ NoApplied \in [h : Handle, routes : SUBSET Object] /\ NoApplied.h = NoChild
        /\ NoApplied.routes = {}
    BY <2>1, SMTT(30) DEF NoChild, Handle, Fresh, NoJob, NoApplied
  <2>3. /\ child' \in [Conn -> Handle] /\ \A c \in Conn : child'[c] = NoChild
        /\ applied' \in [Conn -> [h : Handle, routes : SUBSET Object]]
        /\ \A c \in Conn : /\ applied'[c].h = NoChild /\ applied'[c].h.in = 0
                          /\ applied'[c].routes = {}
    BY <2>1, <2>2, Zenon
  <2>4. Shape'
    BY <2>1, <2>2, <2>3, Zenon DEF XInv, Shape
  <2>5. Spis'
    <3>1. \A i : i \notin 1..Len(events')
      BY <2>2
    <3>2. pc' # "apply" /\ drawn' \in Nat
      BY <2>1, Zenon DEF XInv, Shape
    <3>3. \A c \in Conn : /\ Fresh(c, child[c])' /\ Fresh(c, applied[c].h)'
                         /\ applied'[c].h.in <= drawn'
      BY <2>2, <2>3, <3>2
    <3>4. job'.h.in <= drawn'
      BY <2>2, <3>2
    <3> QED
      BY <3>1, <3>2, <3>3, <3>4, Zenon DEF Spis
  <2>6. Applying' /\ Spared' /\ Ending'
    BY <2>1, Zenon DEF Applying, Spared, Ending, Deleting
  <2>7. InKernel'
    BY <2>3, Zenon DEF InKernel, Has
  <2>8. Accounted'
    BY <2>1, Zenon DEF XInv, Accounted
  <2> QED
    BY <2>4, <2>5, <2>6, <2>7, <2>8, Zenon DEF XInv
<1>6. CASE Restart
  <2>1. /\ pc = "dead" /\ pc' = "idle"
        /\ UNCHANGED <<child, drawn, excused, events, job, todo, got, applied, owned, renewed,
                       kernel, strays>>
    BY <1>6, Zenon DEF Restart, engineVars
  <2>2. Shape' /\ Spis' /\ InKernel'
    BY <2>1, Zenon DEF XInv, Shape, Spis, Fresh, InKernel, Has
  <2>3. Applying' /\ Spared' /\ Ending'
    BY <2>1, Zenon DEF Applying, Spared, Ending, Deleting
  <2>4. \A o : ~InHand(o)
    BY <2>1, Zenon DEF InHand, Deleting
  <2>5. Accounted'
    BY <2>1, <2>4, Zenon DEF XInv, Accounted
  <2> QED
    BY <2>2, <2>3, <2>5, Zenon DEF XInv
<1> QED
  BY <1>1, <1>2, <1>3, <1>4, <1>5, <1>6, Zenon

\* run_ipsec starts with the invariant.
LEMMA XInvInit ==
  ASSUME Init
  PROVE  XInv
<1>1. /\ NoChild \in Handle /\ NoChild.in = 0 /\ \A c \in Conn : Fresh(c, NoChild)
      /\ job.h = NoChild
      /\ NoApplied \in [h : Handle, routes : SUBSET Object] /\ NoApplied.h = NoChild
      /\ NoApplied.routes = {}
  BY Zenon DEF Init, NoChild, Handle, Fresh, NoJob, NoApplied
<1>2. /\ child \in [Conn -> Handle] /\ \A c \in Conn : child[c] = NoChild
      /\ applied \in [Conn -> [h : Handle, routes : SUBSET Object]]
      /\ \A c \in Conn : /\ applied[c].h = NoChild /\ applied[c].h.in = 0
                        /\ applied[c].routes = {}
      /\ events \in Seq(Event) /\ Len(events) = 0 /\ drawn = 0
      /\ pc = "idle" /\ todo = {} /\ kernel = {} /\ excused = {} /\ owned = {}
  BY <1>1, SMTT(30) DEF Init
<1>3. Shape
  BY <1>1, <1>2, Zenon DEF Shape
<1>4. Spis
  <2>1. \A i : i \notin 1..Len(events)
    BY <1>2
  <2>2. \A c \in Conn : /\ Fresh(c, child[c]) /\ Fresh(c, applied[c].h)
                       /\ applied[c].h.in <= drawn
    BY <1>1, <1>2, SMTT(30)
  <2>3. job.h.in <= drawn /\ pc # "apply"
    BY <1>1, <1>2
  <2> QED
    BY <2>1, <2>2, <2>3, Zenon DEF Spis
<1>5. Applying /\ Spared /\ Ending /\ Accounted
  BY <1>2, Zenon DEF Applying, Spared, Ending, Accounted, Deleting
<1>6. InKernel
  BY <1>2, Zenon DEF InKernel, Has
<1> QED
  BY <1>3, <1>4, <1>5, <1>6, Zenon DEF XInv

\* Every step of the daemon, the engines and the kernel preserves the
\* invariant.
LEMMA XInvNext ==
  ASSUME XInv, [Next]_vars
  PROVE  XInv'
<1>1. CASE Next
  BY <1>1, EngineStep, ExpireStep, HandleChildStep, RemovedStep, DrainStep, AddedStep,
     NotAddedStep, AppliedStep, DeletedStep, NotDeletedStep, QuietStep, Zenon DEF Next, Daemon
<1>2. CASE UNCHANGED vars
  <2>1. UNCHANGED <<child, drawn, excused, events, pc, job, todo, got, applied, owned, renewed,
                    kernel, strays>>
    BY <1>2, Zenon DEF vars, engineVars, daemonVars
  <2> QED
    BY <2>1, ZenonT(40) DEF XInv, Shape, Spis, Fresh, Applying, Spared, InKernel, Accounted, Ending,
                       Has, Before, Deleting, InHand
<1> QED
  BY <1>1, <1>2, Zenon

\* The inductive invariant of run_ipsec and the XfrmManager holds in every
\* state.
THEOREM XInvInvariant == Spec => []XInv
BY XInvInit, XInvNext, PTL DEF Spec

\* The child in the table of run_ipsec is in the kernel: its SAs always, its
\* policies and routes until a replacement comes, whichever requests fail.
THEOREM ChildStaysInKernel == Spec => []ChildInKernel
<1>1. XInv => ChildInKernel
  BY Zenon DEF XInv, InKernel, ChildInKernel
<1> QED
  BY <1>1, XInvInvariant, PTL

\* A daemon that shut down in order has left nothing in the kernel but what an
\* earlier one left, what its last deletion failed for, and a link that was made
\* although the query for it failed, so that ensure_interface did not record it.
THEOREM ShutdownLeavesNothing == Spec => []NothingLeaked
<1>1. ASSUME XInv, pc = "stopped", NEW o \in kernel
      PROVE  o \in strays \/ (o.kind \in {"addr", "route"} /\ Link(o.c) \in strays)
  <2>1. owned = {} /\ ~InHand(o) /\ o \in Object /\ o.kind # "record"
    BY <1>1, Zenon DEF XInv, Ending, InHand, Deleting, Shape
  <2>2. CASE o.kind \in {"addr", "route"}
    <3>1. Link(o.c) \in kernel /\ Link(o.c).kind = "link"
      BY <1>1, <2>1, <2>2, OtherFacts, Zenon DEF XInv, Accounted, Object
    <3> QED
      BY <1>1, <2>1, <2>2, <3>1, Zenon DEF XInv, Accounted
  <2>3. CASE o.kind \notin {"addr", "route"}
    BY <1>1, <2>1, <2>3, Zenon DEF XInv, Accounted, Object, Kinds, SaKinds, PolicyKinds
  <2> QED
    BY <2>2, <2>3, Zenon
<1>2. XInv => NothingLeaked
  BY <1>1, Zenon DEF NothingLeaked
<1> QED
  BY <1>2, XInvInvariant, PTL

=============================================================================
