-------------------------- MODULE SupplicantProofs --------------------------
(***************************************************************************)
(* TLAPS proofs about FourWay and Supplicant, for every network, link and  *)
(* bound.  Of the handshake by itself: the live PTK was vouched for, no    *)
(* PTK is promoted twice and no MIC-verified frame is a replay.  Of the    *)
(* handler: each step is a step of FourWay, a connected station and its    *)
(* access point use the same PTK, and a GTK that was acknowledged is in    *)
(* the kernel.                                                             *)
(*                                                                         *)
(* The first part is about FourWay alone.  The second gives the inductive  *)
(* invariant of Supplicant and shows that the steps of the station         *)
(* preserve it.  The third adds the steps of the access point and of the   *)
(* link and draws the conclusions.                                         *)
(***************************************************************************)
EXTENDS Supplicant, TLAPS

\* Freshness of SNonces is what separates the staged key from every key
\* promoted before, so the invariant bounds all SNonces by the draws made.
\* A pending Message 1 always has the key it derived staged: a duplicate
\* Message 1 stages the same key again, any other one stages a fresh key.
Bounded ==
    /\ snonce <= drawn
    /\ tptk # NoPtk => tptk[2] <= drawn
    /\ \A p \in proved : p[2] <= drawn

Staged ==
    /\ pending_replay_counter # NoCounter => tptk = <<anonce, snonce>> /\ anonce \in ANonce
    /\ tptk # NoPtk => tptk \notin proved

CounterBound ==
    \A c \in accepted : replay_counter_set /\ c <= replay_counter

IInv == TypeOK /\ Bounded /\ Staged /\ CounterBound /\ PtkProved /\ NoReplay

\* The inductive invariant holds initially.
LEMMA InitIInv == Init => IInv
<1> SUFFICES ASSUME Init PROVE IInv
  OBVIOUS
<1>1. {present, replay_counter_set, replayed} \subseteq BOOLEAN
  BY Zenon DEF Init
<1>2. TypeOK
  BY <1>1 DEF Init, TypeOK, NoCounter
<1>3. Bounded /\ Staged /\ CounterBound /\ PtkProved
  BY DEF Init, Bounded, Staged, CounterBound, PtkProved
<1>4. NoReplay
  BY DEF Init, NoReplay
<1> QED BY <1>2, <1>3, <1>4 DEF IInv

\* The first Message 1 of an association preserves the invariant: its SNonce
\* is fresh, so its PTK is none of those promoted so far.
LEMMA FirstMessage1IInv ==
  ASSUME IInv, NEW an \in ANonce, NEW rc \in Counter, FirstMessage1(an, rc)
  PROVE  IInv'
<1> USE FourWayAssumption
<1> USE DEF IInv, FirstMessage1, Draw, NoCounter
<1>1. drawn' = drawn + 1 /\ snonce' = drawn + 1 /\ tptk' = <<an, drawn + 1>>
  BY DEF TypeOK
<1>2. tptk' \in Ptk /\ tptk'[2] = drawn + 1
  BY <1>1 DEF TypeOK, Ptk
<1>a. present' \in BOOLEAN /\ replay_counter_set' \in BOOLEAN
  BY Zenon
<1>3. TypeOK'
  BY <1>1, <1>2, <1>a DEF TypeOK
<1>4. Bounded'
  BY <1>1, <1>2 DEF TypeOK, Bounded, Ptk
<1>5. Staged'
  BY <1>1, <1>2 DEF TypeOK, Bounded, Staged
<1>6. CounterBound' /\ PtkProved' /\ NoReplay'
  BY DEF CounterBound, PtkProved, NoReplay
<1> QED BY <1>3, <1>4, <1>5, <1>6

\* A later Message 1 preserves the invariant.
LEMMA NextMessage1IInv ==
  ASSUME IInv, NEW an \in ANonce, NEW rc \in Counter, NextMessage1(an, rc)
  PROVE  IInv'
<1> USE FourWayAssumption
<1> USE DEF IInv, NextMessage1, NoCounter
<1>1. /\ CounterBound' /\ PtkProved' /\ NoReplay'
  BY DEF CounterBound, PtkProved, NoReplay
<1>2. CASE DuplicateMessage1(an, rc)
  <2>1. tptk' = tptk /\ snonce' = snonce /\ drawn' = drawn /\ anonce' = anonce
    BY <1>2 DEF DuplicateMessage1, Staged, TypeOK
  <2>2. TypeOK' /\ Bounded' /\ Staged'
    BY <1>2, <2>1 DEF TypeOK, Bounded, Staged, DuplicateMessage1
  <2> QED BY <1>1, <2>2
<1>3. CASE ~DuplicateMessage1(an, rc)
  <2>1. drawn' = drawn + 1 /\ snonce' = drawn + 1 /\ tptk' = <<an, drawn + 1>>
    BY <1>3 DEF TypeOK, Draw
  <2>2. tptk' \in Ptk /\ tptk'[2] = drawn + 1
    BY <2>1 DEF TypeOK, Ptk
  <2>3. TypeOK'
    BY <2>1, <2>2 DEF TypeOK
  <2>4. Bounded'
    BY <2>1, <2>2 DEF TypeOK, Bounded, Ptk
  <2>5. Staged'
    BY <2>1, <2>2 DEF TypeOK, Bounded, Staged
  <2> QED BY <1>1, <2>3, <2>4, <2>5
<1> QED BY <1>2, <1>3

\* Accepting the counter of a frame above replay_counter is not a replay and
\* keeps replay_counter the greatest counter accepted.
LEMMA AcceptCounterLemma ==
  ASSUME IInv, NEW rc \in Counter, AcceptCounter(rc),
         replay_counter_set => rc > replay_counter
  PROVE  /\ replay_counter' \in Nat /\ replay_counter_set' \in BOOLEAN
         /\ accepted' \subseteq Nat /\ replayed' \in BOOLEAN
         /\ CounterBound' /\ NoReplay'
<1> USE FourWayAssumption DEF IInv, AcceptCounter
<1>1. ~ \E c \in accepted : rc <= c
  BY DEF TypeOK, CounterBound
<1>2. replayed' = FALSE
  BY <1>1 DEF NoReplay
<1>3. CounterBound'
  BY DEF TypeOK, CounterBound
<1> QED BY <1>2, <1>3 DEF TypeOK, NoReplay

\* A verified Message 3 was computed with the staged key, which has never
\* been promoted.
LEMMA Message3Staged ==
  ASSUME IInv, NEW an \in ANonce, NEW rc \in Counter, NEW mic,
         Message3Verified(an, rc, mic)
  PROVE  /\ tptk # NoPtk /\ tptk \in Ptk /\ mic = tptk /\ tptk \notin proved
         /\ replay_counter_set => rc > replay_counter
<1> USE FourWayAssumption DEF IInv, Message3Verified, Message3Fresh
<1>1. tptk = <<anonce, snonce>> /\ anonce \in ANonce
  BY DEF Staged
<1>2. tptk \in Ptk
  BY <1>1 DEF TypeOK, Ptk
<1> QED BY <1>2 DEF Staged, HandshakePtk

\* An accepted Message 3 preserves the invariant.
LEMMA Message3IInv ==
  ASSUME IInv, NEW an \in ANonce, NEW rc \in Counter, NEW mic,
         Message3(an, rc, mic) \/ Message3BadKeyData(an, rc, mic)
  PROVE  IInv'
<1> USE FourWayAssumption
<1>1. Message3Verified(an, rc, mic) /\ AcceptCounter(rc)
  BY DEF Message3, Message3BadKeyData
<1>2. /\ tptk # NoPtk /\ tptk \in Ptk /\ mic = tptk
      /\ replay_counter_set => rc > replay_counter
  BY <1>1, Message3Staged
<1>3. /\ replay_counter' \in Nat /\ replay_counter_set' \in BOOLEAN
      /\ accepted' \subseteq Nat /\ replayed' \in BOOLEAN
      /\ CounterBound' /\ NoReplay'
  BY <1>1, <1>2, AcceptCounterLemma
<1>4. CASE Message3(an, rc, mic)
  <2>1. /\ ptk' = tptk /\ tptk' = NoPtk /\ proved' = proved \cup {tptk}
        /\ pending_replay_counter' = NoCounter
        /\ UNCHANGED <<present, anonce, snonce, drawn>>
    BY <1>2, <1>4 DEF Message3
  <2>2. TypeOK'
    BY <1>2, <1>3, <2>1 DEF IInv, TypeOK
  <2>3. Bounded' /\ Staged' /\ PtkProved'
    BY <1>2, <2>1 DEF IInv, TypeOK, Bounded, Staged, PtkProved
  <2> QED BY <1>3, <2>2, <2>3 DEF IInv
<1>5. CASE Message3BadKeyData(an, rc, mic)
  <2>1. /\ pending_replay_counter' = NoCounter
        /\ UNCHANGED <<present, anonce, snonce, ptk, tptk, drawn, proved>>
    BY <1>5 DEF Message3BadKeyData
  <2>2. TypeOK' /\ Bounded' /\ Staged' /\ PtkProved'
    BY <1>3, <2>1 DEF IInv, TypeOK, Bounded, Staged, PtkProved
  <2> QED BY <1>3, <2>2 DEF IInv
<1> QED BY <1>4, <1>5

\* An accepted group frame preserves the invariant: it only consumes a
\* counter.
LEMMA GroupRekeyIInv ==
  ASSUME IInv, NEW rc \in Counter, NEW mic, GroupRekey(rc, mic)
  PROVE  IInv'
<1> USE FourWayAssumption
<1>1. AcceptCounter(rc) /\ (replay_counter_set => rc > replay_counter)
  BY DEF GroupRekey, GroupVerified
<1>2. /\ replay_counter' \in Nat /\ replay_counter_set' \in BOOLEAN
      /\ accepted' \subseteq Nat /\ replayed' \in BOOLEAN
      /\ CounterBound' /\ NoReplay'
  BY <1>1, AcceptCounterLemma
<1>3. TypeOK' /\ Bounded' /\ Staged' /\ PtkProved'
  BY <1>2 DEF IInv, TypeOK, Bounded, Staged, PtkProved, GroupRekey
<1> QED BY <1>2, <1>3 DEF IInv

\* An FT roam installs a PTK with a fresh SNonce and stages none.
LEMMA FtRoamIInv ==
  ASSUME IInv, NEW an \in ANonce, FtRoam(an)
  PROVE  IInv'
<1> USE FourWayAssumption
<1> USE DEF IInv, FtRoam, Draw, NoCounter
<1>1. drawn' = drawn + 1 /\ ptk' = <<an, drawn + 1>> /\ proved' = proved \cup {ptk'}
  OBVIOUS
<1>2. ptk' \in Ptk /\ ptk'[2] = drawn + 1
  BY <1>1 DEF TypeOK, Ptk
<1>a. present' \in BOOLEAN /\ replay_counter_set' \in BOOLEAN
  BY Zenon
<1>3. TypeOK'
  BY <1>1, <1>2, <1>a DEF TypeOK
<1>4. Bounded'
  BY <1>1, <1>2 DEF TypeOK, Bounded, Ptk
<1>5. Staged' /\ CounterBound' /\ PtkProved' /\ NoReplay'
  BY <1>1 DEF Staged, CounterBound, PtkProved, NoReplay
<1> QED BY <1>3, <1>4, <1>5

\* Every step preserves the inductive invariant.
LEMMA NextIInv == IInv /\ [Next]_vars => IInv'
<1> USE FourWayAssumption
<1> SUFFICES ASSUME IInv, [Next]_vars PROVE IInv'
  OBVIOUS
<1>1. ASSUME NEW an \in ANonce, NEW rc \in Counter,
             FirstMessage1(an, rc) \/ NextMessage1(an, rc)
      PROVE  IInv'
  BY <1>1, FirstMessage1IInv, NextMessage1IInv
<1>2. CASE Frame
  BY <1>2, Message3IInv, GroupRekeyIInv DEF Frame
<1>3. ASSUME NEW rc \in Counter, UpdateReplayCounter(rc) PROVE IInv'
  BY <1>3 DEF UpdateReplayCounter, IInv, TypeOK, Bounded, Staged, CounterBound,
              PtkProved, NoReplay
<1>4. ASSUME NEW an \in ANonce, FtRoam(an) PROVE IInv'
  BY <1>4, FtRoamIInv
<1>5. CASE Forget
  <2>1. present' \in BOOLEAN /\ replay_counter_set' \in BOOLEAN
    BY <1>5, Zenon DEF Forget
  <2>2. TypeOK'
    BY <1>5, <2>1 DEF Forget, IInv, TypeOK, NoCounter
  <2> QED BY <1>5, <2>2 DEF Forget, IInv, TypeOK, Bounded, Staged, CounterBound,
                            PtkProved, NoReplay
<1>6. CASE UNCHANGED vars
  BY <1>6 DEF vars, fwFields, IInv, TypeOK, Bounded, Staged, CounterBound,
              PtkProved, NoReplay
<1> QED BY <1>1, <1>2, <1>3, <1>4, <1>5, <1>6 DEF Next

\* The inductive invariant holds in every reachable state.
THEOREM IInvInvariant == Spec => []IInv
  BY InitIInv, NextIInv, PTL DEF Spec

\* FourWayState keeps its types whatever frames arrive.
THEOREM TypeCorrect == Spec => []TypeOK
<1>1. IInv => TypeOK
  BY DEF IInv
<1> QED BY <1>1, IInvInvariant, PTL

\* The live PTK was always vouched for by a Message 3 MIC or an FT exchange.
THEOREM LivePtkProved == Spec => []PtkProved
<1>1. IInv => PtkProved
  BY DEF IInv
<1> QED BY <1>1, IInvInvariant, PTL

\* No PTK is promoted twice, across all the FourWayStates of a run.
THEOREM NeverReinstalls == Spec => []NoReinstall
<1>1. IInv => NoReinstall
  <2> SUFFICES ASSUME IInv, pending_replay_counter # NoCounter
               PROVE  HandshakePtk \notin proved
    BY DEF NoReinstall
  <2>1. tptk = <<anonce, snonce>> /\ anonce \in ANonce
    BY DEF IInv, Staged
  <2>2. tptk # NoPtk
    BY <2>1, FourWayAssumption DEF IInv, TypeOK, Ptk
  <2> QED BY <2>2 DEF IInv, Staged, HandshakePtk
<1> QED BY <1>1, IInvInvariant, PTL

\* No MIC-verified frame is a replay of an earlier one.
THEOREM NeverReplayed == Spec => []NoReplay
<1>1. IInv => NoReplay
  BY DEF IInv
<1> QED BY <1>1, IInvInvariant, PTL

-----------------------------------------------------------------------------

Key == Ptk \cup {NoPtk}

StaFrame == [type : {"m1", "m3", "g1"}, an : ANonce, rc : Counter, mic : Key, gtk : Nat]
ApFrame == [type : {"m2", "m4", "g2"}, rc : Nat, mic : Ptk]
ApState == [phase : {"idle", "m1", "m3", "done", "gone"}, rc : Nat, an : Nat \cup {NoNonce},
            ptk : Key, gtk : Nat, acked : Nat, sent : SUBSET Nat, gsent : SUBSET Nat]
Spending == [assoc : Nat, starts : Nat, rekey : Nat, retry : Nat, group : Nat,
             loss : Nat, fail : Nat]

\* What is on its way along a link, and that its GTKs never decrease.
Frames(s) == {s[i] : i \in DOMAIN s}
GtksGrow(s) == \A i, j \in DOMAIN s : i <= j => s[i].gtk <= s[j].gtk

\* The shape of what the station, the access point and the link hold.
STypeOK ==
    /\ setup \in Setups
    /\ kernel \in [ptk : Key, gtk : Nat]
    /\ toSta \in Seq(StaFrame)
    /\ toAp \in Seq(ApFrame)
    /\ ft_msg1 \in Seq(StaFrame)
    /\ ap \in ApState
    /\ spent \in Spending

\* A handshake is started once for each association and each rekey, so that
\* no counter exceeds what the assumption about Counter allows.
Budget ==
    /\ spent.assoc <= setup.max.assoc /\ spent.rekey <= setup.max.rekey
    /\ spent.retry <= setup.max.retry /\ spent.group <= setup.max.group
    /\ spent.starts <= spent.assoc + spent.rekey
    /\ ap.phase = "idle" /\ state = "Authenticating" => spent.starts < spent.assoc + spent.rekey
    /\ ap.rc <= 2 * spent.starts + spent.retry + spent.group
    /\ ap.phase = "m1" => ap.rc < 2 * spent.starts + spent.retry + spent.group
    /\ ap.phase \notin {"idle", "gone"} => ap.an = spent.starts /\ ap.an > 0

\* The ANonce of a handshake is new, so that no key known before it is the
\* key of the handshake the access point is about to make.
KnownKey(k) ==
    /\ k \in Ptk /\ k[2] <= drawn
    /\ k[1] \in 1..spent.starts
    /\ ap.phase = "m1" => k[1] < ap.an

Nonces ==
    /\ ap.phase \in {"m3", "done"} => ap.ptk # NoPtk
    /\ ap.ptk # NoPtk => KnownKey(ap.ptk)
    /\ \A p \in proved : KnownKey(p)
    /\ \A f \in Frames(toSta) : f.type # "m1" => KnownKey(f.mic)
    /\ \A f \in Frames(toAp) : /\ f.mic[2] <= drawn
                               /\ f.type # "m2" => f.mic \in proved

\* A Message 3 that fits the staged key comes from the handshake the access
\* point is in: those of an earlier association never fit, because the SNonce
\* of the staged key is fresh, and those of an earlier handshake do not,
\* because their keys have been promoted.
StagedIsCurrent ==
    \A f \in Frames(toSta) :
        f.type = "m3" /\ f.mic = tptk =>
            \/ ap.phase = "m3" /\ ap.ptk = tptk
            \/ ap.phase = "gone"

\* The access point ends its handshake on a key that the station has
\* promoted, and a connected station has promoted none after it.
Agreement ==
    /\ ap.phase = "done" => ap.ptk \in proved
    /\ state = "Connected" =>
          /\ present /\ ptk # NoPtk /\ kernel.ptk = ptk
          /\ ap.phase \in {"m3", "done"} /\ ap.ptk \in proved => ptk = ap.ptk

\* GTKs only grow along the link.
GtkOrder ==
    /\ kernel.gtk <= ap.gtk /\ ap.acked <= ap.gtk
    /\ \A f \in Frames(toSta) : kernel.gtk <= f.gtk /\ f.gtk <= ap.gtk
    /\ GtksGrow(toSta)

\* The frames whose acknowledgement the access point waits for carry its
\* latest GTK.
GtkCurrent ==
    /\ \A f \in Frames(toSta) :
          f.mic = ap.ptk /\ f.type # "m1" =>
              /\ f.rc <= ap.rc
              /\ f.type = "g1" /\ f.rc \in ap.gsent => f.gtk = ap.gtk
              /\ f.type = "m3" /\ ap.phase = "m3" => f.gtk = ap.gtk
    /\ \A f \in Frames(toAp) : f.mic = ap.ptk /\ f.type # "m2" => f.rc <= ap.rc

GtkAcked ==
    spent.fail = 0 =>
        /\ kernel.gtk >= ap.acked
        /\ \A f \in Frames(toAp) :
              f.mic = ap.ptk =>
                  /\ f.type = "g2" /\ f.rc \in ap.gsent => kernel.gtk = ap.gtk
                  /\ f.type = "m4" /\ ap.phase = "m3" => kernel.gtk = ap.gtk

SInv ==
    /\ IInv
    /\ STypeOK /\ Budget
    /\ Nonces /\ StagedIsCurrent /\ Agreement
    /\ GtkOrder /\ GtkCurrent /\ GtkAcked

---------------------------------------------------------------------------
\* Reading the frame in front of a link.
LEMMA FramesTail ==
  ASSUME NEW S, NEW s \in Seq(S), s # <<>>
  PROVE  /\ Tail(s) \in Seq(S)
         /\ Head(s) \in Frames(s) /\ Head(s) \in S
         /\ Frames(Tail(s)) \subseteq Frames(s)
         /\ Frames(s) \subseteq S
  BY DEF Frames

\* The frames behind the one in front carry no older GTK.
LEMMA GrowTail ==
  ASSUME NEW s \in Seq(StaFrame), s # <<>>, GtksGrow(s)
  PROVE  /\ GtksGrow(Tail(s))
         /\ \A f \in Frames(Tail(s)) : Head(s).gtk <= f.gtk
<1>1. /\ Len(s) \in Nat /\ Len(s) > 0 /\ DOMAIN s = 1..Len(s) /\ Head(s) = s[1]
      /\ DOMAIN Tail(s) = 1..(Len(s) - 1)
      /\ \A i \in 1..(Len(s) - 1) : Tail(s)[i] = s[i + 1]
  OBVIOUS
<1>2. \A i \in 1..(Len(s) - 1) : i + 1 \in 1..Len(s) /\ 1 <= i + 1 /\ 1 \in 1..Len(s)
  BY <1>1
<1>3. GtksGrow(Tail(s))
  BY <1>1, <1>2 DEF GtksGrow
<1>4. \A f \in Frames(Tail(s)) : Head(s).gtk <= f.gtk
  BY <1>1, <1>2 DEF GtksGrow, Frames
<1> QED BY <1>3, <1>4, Zenon

\* Sending a frame adds it at the end of the link.
LEMMA FramesAppend ==
  ASSUME NEW S, NEW s \in Seq(S), NEW f \in S
  PROVE  Append(s, f) \in Seq(S) /\ Frames(Append(s, f)) = Frames(s) \cup {f}
<1>1. /\ Append(s, f) \in Seq(S) /\ Len(s) \in Nat
      /\ DOMAIN s = 1..Len(s) /\ DOMAIN Append(s, f) = 1..(Len(s) + 1)
      /\ \A i \in 1..Len(s) : Append(s, f)[i] = s[i]
      /\ Append(s, f)[Len(s) + 1] = f
  OBVIOUS
<1>2. 1..(Len(s) + 1) = 1..Len(s) \cup {Len(s) + 1}
  BY <1>1
<1> QED BY <1>1, <1>2 DEF Frames

\* A frame that carries the newest GTK keeps the order.
LEMMA GrowAppend ==
  ASSUME NEW s \in Seq(StaFrame), NEW f \in StaFrame, GtksGrow(s),
         \A g \in Frames(s) : g.gtk <= f.gtk
  PROVE  GtksGrow(Append(s, f))
<1>1. /\ Len(s) \in Nat
      /\ DOMAIN s = 1..Len(s) /\ DOMAIN Append(s, f) = 1..(Len(s) + 1)
      /\ \A i \in 1..Len(s) : Append(s, f)[i] = s[i]
      /\ Append(s, f)[Len(s) + 1] = f
  OBVIOUS
<1>2. f.gtk \in Nat
  BY Zenon DEF StaFrame
<1> SUFFICES ASSUME NEW i \in 1..(Len(s) + 1), NEW j \in 1..(Len(s) + 1), i <= j
             PROVE  Append(s, f)[i].gtk <= Append(s, f)[j].gtk
  BY <1>1, Zenon DEF GtksGrow
<1>3. CASE j \in 1..Len(s)
  BY <1>1, <1>3 DEF GtksGrow
<1>4. CASE j = Len(s) + 1
  <2>1. CASE i \in 1..Len(s)
    BY <1>1, <1>4, <2>1, Zenon DEF Frames
  <2>2. CASE i = Len(s) + 1
    BY <1>1, <1>2, <1>4, <2>2
  <2> QED BY <1>1, <2>1, <2>2
<1> QED BY <1>1, <1>3, <1>4

\* The invariant holds when the first attempt has just begun.
LEMMA InitSInv == SInit => SInv
<1> SUFFICES ASSUME SInit PROVE SInv
  BY Zenon
<1>1. IInv
  BY InitIInv, Zenon DEF SInit
<1>2. setup.max \in [Bounds -> Nat] /\ setup.max.assoc > 0
  BY SupplicantAssumption, Zenon DEF SInit
<1>3. \A b \in Bounds : setup.max[b] \in Nat
  BY <1>2, Zenon
<1>4. /\ setup.max.assoc \in Nat /\ setup.max.rekey \in Nat
      /\ setup.max.retry \in Nat /\ setup.max.group \in Nat
  BY <1>3, Zenon DEF Bounds
<1>5. STypeOK
  BY SMTT(30) DEF SInit, STypeOK, IdleAp, Key, ApState, Spending
<1>6. Budget
  BY <1>2, <1>4, SMTT(30) DEF SInit, Budget, IdleAp
<1>7. Frames(toSta) = {} /\ Frames(toAp) = {} /\ GtksGrow(toSta)
  BY DEF SInit, Frames, GtksGrow
<1>8. Nonces /\ StagedIsCurrent /\ Agreement
  BY <1>7, Zenon DEF SInit, Init, IdleAp, Nonces, StagedIsCurrent, Agreement
<1>9. GtkOrder /\ GtkCurrent /\ GtkAcked
  BY <1>7 DEF SInit, IdleAp, GtkOrder, GtkCurrent, GtkAcked
<1> QED BY <1>1, <1>5, <1>6, <1>8, <1>9, Zenon DEF SInv

---------------------------------------------------------------------------
\* The assumption about the constants: nonces and counters for every handshake
\* and every retransmission.
LEMMA Limits ==
  ASSUME STypeOK
  PROVE  /\ setup.max.assoc \in Nat /\ setup.max.rekey \in Nat
         /\ setup.max.retry \in Nat /\ setup.max.group \in Nat
         /\ \A n \in Nat : 0 < n /\ n <= setup.max.assoc + setup.max.rekey => n \in ANonce
         /\ \A c \in Nat :
               c <= 2 * (setup.max.assoc + setup.max.rekey) + setup.max.retry + setup.max.group
               => c \in Counter
<1>1. /\ setup.max \in [Bounds -> Nat]
      /\ 1..(setup.max.assoc + setup.max.rekey) \subseteq ANonce
      /\ 0..(2 * (setup.max.assoc + setup.max.rekey) + setup.max.retry + setup.max.group)
            \subseteq Counter
  BY SupplicantAssumption, Zenon DEF STypeOK
<1>2. \A b \in Bounds : setup.max[b] \in Nat
  BY <1>1, Zenon
<1>3. /\ setup.max.assoc \in Nat /\ setup.max.rekey \in Nat
      /\ setup.max.retry \in Nat /\ setup.max.group \in Nat
  BY <1>2, Zenon DEF Bounds
<1> QED BY <1>1, <1>3

\* Answering a Message 1 runs process_message_1 or changes no field of the
\* FourWayState.
LEMMA AnswerRefines ==
  ASSUME NEW m \in StaFrame, AnswerMessage1(m)
  PROVE  \/ FirstMessage1(m.an, m.rc)
         \/ NextMessage1(m.an, m.rc)
         \/ UNCHANGED vars
  BY Zenon DEF AnswerMessage1

\* A frame in front of the link is handled by the operations of FourWayState.
LEMMA ReceiveRefines ==
  ASSUME SInv, Receive
  PROVE  [Next]_vars
<1> DEFINE m == Head(toSta)
<1>1. m \in Frames(toSta) /\ m \in StaFrame
  BY FramesTail, Zenon DEF Receive, SInv, STypeOK
<1>2. m.an \in ANonce /\ m.rc \in Counter
  BY <1>1, Zenon DEF StaFrame
<1>3. drawn \in Nat
  BY Zenon DEF SInv, IInv, TypeOK
<1>4. m.type # "m1" => m.mic \in ANonce \X (0..drawn)
  <2>1. m.type # "m1" => m.mic \in Ptk /\ m.mic[2] <= drawn
    BY <1>1, Zenon DEF SInv, Nonces, KnownKey
  <2> QED BY <1>3, <2>1 DEF Ptk
<1> HIDE DEF m
<1>5. CASE HandleMessage1(m)
  <2>1. AnswerMessage1(m) \/ UNCHANGED vars
    BY <1>5, Zenon DEF HandleMessage1, BufferMessage1
  <2> QED BY <2>1, <1>1, <1>2, AnswerRefines, Zenon DEF Next
<1>6. CASE HandleMessage3(m)
  <2>1. \/ Message3(m.an, m.rc, m.mic)
        \/ Message3BadKeyData(m.an, m.rc, m.mic)
        \/ UNCHANGED vars
    BY <1>6, Zenon DEF HandleMessage3
  <2>2. m.type # "m1"
    BY <1>6, Zenon DEF HandleMessage3
  <2> QED BY <2>1, <2>2, <1>2, <1>4, Zenon DEF Next, Frame
<1>7. CASE HandleGroup(m)
  <2>1. GroupRekey(m.rc, m.mic) \/ UNCHANGED vars
    BY <1>7, Zenon DEF HandleGroup
  <2>2. m.type # "m1"
    BY <1>7, Zenon DEF HandleGroup
  <2> QED BY <2>1, <2>2, <1>2, <1>4, Zenon DEF Next, Frame
<1>8. CASE FallbackMessage3(m)
  BY <1>8, Zenon DEF FallbackMessage3, PmksaFallback, SendOutAuthRequest, ResetFourWay, Next
<1>9. CASE UNCHANGED vars
  BY <1>9, Zenon
<1> QED BY <1>5, <1>6, <1>7, <1>8, <1>9, Zenon DEF Receive, m

\* Every step of the supplicant and its access point is a step of FourWay or
\* leaves the FourWayState alone.
LEMMA StepRefines ==
  ASSUME SInv, [SNext]_svars
  PROVE  [Next]_vars
<1>1. CASE Reconnect
  BY <1>1, Zenon DEF Reconnect, SendOutAuthRequest, ResetFourWay, Next
<1>2. CASE AuthTimeout
  BY <1>2, Zenon DEF AuthTimeout, PmksaFallback, SendOutAuthRequest, ResetFourWay, Next
<1>3. CASE Receive
  BY <1>3, ReceiveRefines, Zenon
<1>4. CASE Associated
  <2>1. CASE ft_msg1 # <<>> /\ AnswerMessage1(Head(ft_msg1))
    <3>1. Head(ft_msg1) \in StaFrame
      BY <2>1, FramesTail, Zenon DEF SInv, STypeOK
    <3>2. Head(ft_msg1).an \in ANonce /\ Head(ft_msg1).rc \in Counter
      BY <3>1, Zenon DEF StaFrame
    <3> QED BY <2>1, <3>1, <3>2, AnswerRefines, Zenon DEF Next
  <2>2. CASE UNCHANGED vars
    BY <2>2, Zenon
  <2> QED BY <1>4, <2>1, <2>2, Zenon DEF Associated
<1>5. CASE ApStart \/ ApRekey \/ ApRetry \/ ApGroup
  BY <1>5, Zenon DEF ApStart, ApRekey, ApRetry, ApGroup, staVars
<1>6. CASE ApReceive \/ ApGiveUp \/ Lose
  BY <1>6, Zenon DEF ApReceive, ApGiveUp, Lose, staVars
<1>7. CASE DriverRekey
  <2>1. /\ UpdateReplayCounter(ap'.rc)
        /\ ap' = [ap EXCEPT !.rc = @ + 1, !.gtk = @ + 1, !.acked = ap.gtk + 1]
        /\ ap.phase = "done" /\ spent.group < setup.max.group
    BY <1>7, Zenon DEF DriverRekey, CanSpend
  <2>2. ap'.rc = ap.rc + 1 /\ ap.rc \in Nat /\ spent.group \in Nat
    BY <2>1, Zenon DEF SInv, STypeOK, ApState, Spending
  <2>3. /\ spent.assoc \in Nat /\ spent.rekey \in Nat /\ spent.starts \in Nat
        /\ spent.retry \in Nat /\ setup.max.assoc \in Nat /\ setup.max.rekey \in Nat
        /\ setup.max.retry \in Nat /\ setup.max.group \in Nat
    BY Limits, Zenon DEF SInv, STypeOK, Spending, ApState
  <2>4. ap.rc + 1 <= 2 * (setup.max.assoc + setup.max.rekey) + setup.max.retry
                       + setup.max.group
    BY <2>1, <2>2, <2>3 DEF SInv, Budget
  <2>5. ap'.rc \in Counter
    BY <2>2, <2>4, Limits DEF SInv
  <2> QED BY <2>1, <2>5, Zenon DEF Next
<1>8. CASE UNCHANGED svars
  BY <1>8, Zenon DEF svars
<1> QED BY <1>1, <1>2, <1>3, <1>4, <1>5, <1>6, <1>7, <1>8, Zenon DEF SNext

---------------------------------------------------------------------------
\* What remains of a link once a frame was read or lost.
LEMMA ShorterLink ==
  ASSUME STypeOK, GtksGrow(toSta),
         toSta' = toSta \/ (toSta # <<>> /\ toSta' = Tail(toSta))
  PROVE  /\ toSta' \in Seq(StaFrame) /\ Frames(toSta) \subseteq StaFrame
         /\ Frames(toSta') \subseteq Frames(toSta)
         /\ GtksGrow(toSta')
<1>1. toSta \in Seq(StaFrame)
  BY Zenon DEF STypeOK
<1>2. Frames(toSta) \subseteq StaFrame
  BY <1>1 DEF Frames
<1>3. CASE toSta' = toSta
  BY <1>1, <1>2, <1>3, Zenon
<1>4. CASE toSta # <<>> /\ toSta' = Tail(toSta)
  BY <1>1, <1>4, FramesTail, GrowTail, Zenon
<1> QED BY <1>3, <1>4, Zenon

\* The budget of the steps that are no handshake, rekey or retransmission.
SameBudget ==
    \/ spent' = spent
    \/ spent' = [spent EXCEPT !.fail = @ + 1]
    \/ spent' = [spent EXCEPT !.loss = @ + 1]

\* Such a step keeps the budget and the types that depend on it.
LEMMA SameBudgetFacts ==
  ASSUME STypeOK, SameBudget
  PROVE  /\ spent' \in Spending
         /\ spent'.assoc = spent.assoc /\ spent'.starts = spent.starts
         /\ spent'.rekey = spent.rekey /\ spent'.retry = spent.retry
         /\ spent'.group = spent.group
         /\ spent'.fail = 0 => spent.fail = 0
<1>1. spent \in Spending
  BY Zenon DEF STypeOK
<1>2. CASE spent' = spent
  BY <1>1, <1>2, Zenon
<1>3. CASE spent' = [spent EXCEPT !.fail = @ + 1]
  BY <1>1, <1>3 DEF Spending
<1>4. CASE spent' = [spent EXCEPT !.loss = @ + 1]
  BY <1>1, <1>4 DEF Spending
<1> QED BY <1>2, <1>3, <1>4, Zenon DEF SameBudget

\* A step of the station that neither stages nor promotes nor installs a key
\* and answers nothing preserves the invariant: timeouts, frames that are
\* ignored, rejected or lost, requests that fail.
LEMMA QuietStep ==
  ASSUME SInv, IInv', SameBudget,
         UNCHANGED <<present, ptk, tptk, drawn, proved, kernel, ap, setup>>,
         toSta' = toSta \/ (toSta # <<>> /\ toSta' = Tail(toSta)),
         toAp' = toAp \/ (toAp # <<>> /\ toAp' = Tail(toAp)),
         ft_msg1' \in Seq(StaFrame),
         state' \in {state, "Failed", "FailedAuthentication"}
  PROVE  SInv'
<1>1. /\ toSta' \in Seq(StaFrame) /\ Frames(toSta') \subseteq Frames(toSta)
      /\ GtksGrow(toSta')
  BY ShorterLink, Zenon DEF SInv, GtkOrder
<1>2. toAp' \in Seq(ApFrame) /\ Frames(toAp') \subseteq Frames(toAp)
  <2>1. toAp \in Seq(ApFrame)
    BY Zenon DEF SInv, STypeOK
  <2>2. CASE toAp # <<>> /\ toAp' = Tail(toAp)
    BY <2>1, <2>2, FramesTail, Zenon
  <2> QED BY <2>1, <2>2, Zenon
<1>3. /\ spent' \in Spending
      /\ spent'.assoc = spent.assoc /\ spent'.starts = spent.starts
      /\ spent'.rekey = spent.rekey /\ spent'.retry = spent.retry
      /\ spent'.group = spent.group
      /\ spent'.fail = 0 => spent.fail = 0
  BY SameBudgetFacts, Zenon DEF SInv
<1>4. STypeOK'
  BY <1>1, <1>2, <1>3, Zenon DEF SInv, STypeOK
<1>5. Budget'
  BY <1>3, Zenon DEF SInv, Budget
<1>6. \A k : KnownKey(k) => KnownKey(k)'
  BY <1>3, Zenon DEF KnownKey
<1>7. Nonces'
  BY <1>1, <1>2, <1>6, Zenon DEF SInv, Nonces
<1>8. StagedIsCurrent' /\ Agreement'
  BY <1>1, Zenon DEF SInv, StagedIsCurrent, Agreement
<1>9. GtkOrder' /\ GtkCurrent' /\ GtkAcked'
  BY <1>1, <1>2, <1>3, Zenon DEF SInv, GtkOrder, GtkCurrent, GtkAcked
<1> QED BY <1>4, <1>5, <1>7, <1>8, <1>9, Zenon DEF SInv

\* A new association attempt preserves the invariant: the station forgets its
\* keys and the access point starts over, and no frame that survives has a MIC
\* of the keys to come.
LEMMA SendOutSInv ==
  ASSUME SInv, IInv', NEW cost \in {0, 1}, SendOutAuthRequest(cost), setup' = setup
  PROVE  SInv'
<1>1. PICK refused \in {0, 1} :
        /\ spent.assoc < setup.max.assoc
        /\ spent' = [spent EXCEPT !.assoc = @ + 1, !.fail = @ + cost + refused]
        /\ state' = IF refused = 1 THEN "Failed" ELSE "Authenticating"
  BY Zenon DEF SendOutAuthRequest, CanSpend
<1>2. /\ Forget
      /\ ft_msg1' = <<>> /\ toAp' = <<>>
      /\ kernel' = [ptk |-> NoPtk, gtk |-> 0]
      /\ toSta' \in {<<>>, toSta}
      /\ ap' = [IdleAp EXCEPT !.gtk = ap.gtk]
  BY Zenon DEF SendOutAuthRequest, ResetFourWay
<1>3. /\ ap'.phase = "idle" /\ ap'.rc = 0 /\ ap'.ptk = NoPtk /\ ap'.gtk = ap.gtk
      /\ ap'.acked = 0
  BY <1>2, Zenon DEF IdleAp
<1>4. /\ spent' \in Spending
      /\ spent'.assoc = spent.assoc + 1 /\ spent'.starts = spent.starts
      /\ spent'.rekey = spent.rekey /\ spent'.retry = spent.retry
      /\ spent'.group = spent.group
  <2>1. spent \in Spending
    BY Zenon DEF SInv, STypeOK
  <2>2. cost + refused \in Nat /\ spent.fail + cost + refused \in Nat
    BY <2>1 DEF Spending
  <2>3. spent' = [spent EXCEPT !.assoc = spent.assoc + 1, !.fail = spent.fail + cost + refused]
    BY <1>1, Zenon
  <2>4. spent' = [assoc |-> spent.assoc + 1, starts |-> spent.starts, rekey |-> spent.rekey,
                  retry |-> spent.retry, group |-> spent.group, loss |-> spent.loss,
                  fail |-> spent.fail + cost + refused]
    BY <2>1, <2>3, Zenon DEF Spending
  <2> QED BY <2>1, <2>2, <2>4 DEF Spending
<1>5. /\ toSta' \in Seq(StaFrame) /\ Frames(toSta') \subseteq Frames(toSta)
      /\ GtksGrow(toSta') /\ Frames(toSta) \subseteq StaFrame
  <2>1. toSta \in Seq(StaFrame) /\ GtksGrow(toSta)
    BY Zenon DEF SInv, STypeOK, GtkOrder
  <2>2. Frames(toSta) \subseteq StaFrame
    BY <2>1 DEF Frames
  <2>3. CASE toSta' = <<>>
    BY <2>2, <2>3 DEF Frames, GtksGrow
  <2> QED BY <1>2, <2>1, <2>2, <2>3, Zenon
<1>6. toAp' \in Seq(ApFrame) /\ Frames(toAp') = {}
  BY <1>2 DEF Frames
<1>7. STypeOK'
  <2>1. ap' \in ApState
    BY <1>2, Zenon DEF SInv, STypeOK, IdleAp, Key, ApState
  <2>2. kernel' \in [ptk : Key, gtk : Nat] /\ ft_msg1' \in Seq(StaFrame)
    BY <1>2 DEF Key
  <2> QED BY <1>4, <1>5, <1>6, <2>1, <2>2, Zenon DEF SInv, STypeOK
<1>8. Budget'
  <2>1. /\ spent.assoc \in Nat /\ spent.rekey \in Nat /\ spent.starts \in Nat
        /\ spent.retry \in Nat /\ spent.group \in Nat /\ setup.max.assoc \in Nat
    BY Limits, Zenon DEF SInv, STypeOK, Spending, ApState
  <2> QED BY <1>1, <1>3, <1>4, <2>1 DEF SInv, Budget
<1>9. drawn' = drawn /\ proved' = proved /\ tptk' = NoPtk /\ ptk' = NoPtk
  BY <1>2, Zenon DEF Forget
<1>10. \A k : KnownKey(k) => KnownKey(k)'
  BY <1>3, <1>4, <1>9, Zenon DEF KnownKey
<1>11. \A f \in Frames(toSta') : f.type # "m1" => f.mic # NoPtk
  BY <1>5, FourWayAssumption, Zenon DEF SInv, Nonces, KnownKey
<1>12. Nonces'
  BY <1>3, <1>5, <1>6, <1>9, <1>10, Zenon DEF SInv, Nonces
<1>13. StagedIsCurrent' /\ Agreement'
  BY <1>1, <1>3, <1>9, <1>11, Zenon DEF StagedIsCurrent, Agreement
<1>14. GtkOrder'
  <2>1. kernel'.gtk = 0 /\ ap.gtk \in Nat
    BY <1>2, Zenon DEF SInv, STypeOK, ApState
  <2>2. \A f \in Frames(toSta') : f.gtk \in Nat
    BY <1>5, Zenon DEF StaFrame
  <2> QED BY <1>3, <1>5, <2>1, <2>2 DEF SInv, GtkOrder
<1>15. GtkCurrent' /\ GtkAcked'
  BY <1>2, <1>3, <1>6, <1>11 DEF GtkCurrent, GtkAcked
<1> QED BY <1>7, <1>8, <1>12, <1>13, <1>14, <1>15, Zenon DEF SInv

\* process_message_1 stages a key with a fresh SNonce, or the same key again,
\* and a station that is connected keeps its live key.
LEMMA Message1Stages ==
  ASSUME SInv, NEW m \in StaFrame,
         FirstMessage1(m.an, m.rc) \/ NextMessage1(m.an, m.rc)
  PROVE  /\ drawn \in Nat /\ drawn' \in Nat /\ drawn <= drawn' /\ proved' = proved
         /\ tptk' \in Ptk /\ tptk'[2] <= drawn'
         /\ tptk' = tptk \/ tptk'[2] > drawn
         /\ state = "Connected" => UNCHANGED <<present, ptk>>
<1>1. m.an \in ANonce /\ IInv
  BY Zenon DEF StaFrame, SInv
<1>2. CASE FirstMessage1(m.an, m.rc)
  <2>1. state # "Connected"
    BY <1>2, Zenon DEF FirstMessage1, SInv, Agreement
  <2>2. /\ drawn \in Nat /\ drawn' = drawn + 1 /\ tptk' = <<m.an, drawn'>> /\ proved' = proved
    BY <1>1, <1>2, Zenon DEF FirstMessage1, Draw, IInv, TypeOK
  <2> QED BY <1>1, <2>1, <2>2 DEF Ptk
<1>3. CASE NextMessage1(m.an, m.rc) /\ DuplicateMessage1(m.an, m.rc)
  <2>1. m.rc \in Nat
    BY FourWayAssumption, Zenon DEF StaFrame
  <2>2. pending_replay_counter # NoCounter
    BY <1>3, <2>1 DEF DuplicateMessage1, NoCounter
  <2>3. /\ tptk' = tptk /\ tptk' = <<m.an, snonce>> /\ drawn' = drawn /\ proved' = proved
        /\ UNCHANGED <<present, ptk>>
    BY <1>1, <1>3, <2>2, Zenon DEF NextMessage1, DuplicateMessage1, IInv, Staged
  <2> QED BY <1>1, <2>3 DEF IInv, TypeOK, Bounded, Ptk
<1>4. CASE NextMessage1(m.an, m.rc) /\ ~DuplicateMessage1(m.an, m.rc)
  BY <1>1, <1>4 DEF NextMessage1, Draw, IInv, TypeOK, Ptk
<1> QED BY <1>2, <1>3, <1>4, Zenon

\* Answering a Message 1 preserves the invariant: the staged key is fresh or
\* the same as before, so no Message 3 under way fits a key it should not.
LEMMA AnswerSInv ==
  ASSUME SInv, IInv', NEW m \in StaFrame, AnswerMessage1(m), UNCHANGED <<ap, setup>>,
         toSta' = toSta \/ (toSta # <<>> /\ toSta' = Tail(toSta))
  PROVE  SInv'
<1>1. /\ ft_msg1' \in Seq(StaFrame) /\ kernel' = kernel
      /\ state' \in {state, "Failed", "FailedAuthentication"}
  BY DEF AnswerMessage1, keyVars
<1>2. SameBudget
  BY Zenon DEF AnswerMessage1, Mishap, Spend, SameBudget
<1>3. CASE UNCHANGED <<vars, toAp>>
  <2>1. UNCHANGED <<present, ptk, tptk, drawn, proved, kernel, ap, setup>> /\ toAp' = toAp
    BY <1>1, <1>3, Zenon DEF vars, fwFields
  <2> QED BY <1>1, <1>2, <2>1, QuietStep, Zenon
<1>4. CASE FirstMessage1(m.an, m.rc) \/ NextMessage1(m.an, m.rc)
  <2>1. /\ drawn \in Nat /\ drawn' \in Nat /\ drawn <= drawn' /\ proved' = proved
        /\ tptk' \in Ptk /\ tptk'[2] <= drawn'
        /\ tptk' = tptk \/ tptk'[2] > drawn
        /\ state = "Connected" => UNCHANGED <<present, ptk>>
    BY <1>4, Message1Stages, Zenon
  <2> DEFINE r == [type |-> "m2", rc |-> m.rc, mic |-> tptk']
  <2>2. r \in ApFrame /\ r.type = "m2" /\ r.mic = tptk'
    BY <2>1, FourWayAssumption, Zenon DEF ApFrame, StaFrame
  <2>3. toAp' = toAp \/ toAp' = Append(toAp, r)
    BY <1>4, Zenon DEF AnswerMessage1, Reply, FirstMessage1, NextMessage1
  <2> HIDE DEF r
  <2>4. toAp' \in Seq(ApFrame) /\ Frames(toAp') \subseteq Frames(toAp) \cup {r}
    <3>1. toAp \in Seq(ApFrame)
      BY Zenon DEF SInv, STypeOK
    <3>2. Append(toAp, r) \in Seq(ApFrame) /\ Frames(Append(toAp, r)) = Frames(toAp) \cup {r}
      BY <2>2, <3>1, FramesAppend
    <3> QED BY <2>3, <3>1, <3>2, Zenon
  <2>5. Frames(toAp) \subseteq ApFrame
    BY DEF SInv, STypeOK, Frames
  <2>6. \A f \in Frames(toAp) : f.mic \in Ptk
    BY <2>5, Zenon DEF ApFrame
  <2>7. \A f \in Frames(toAp') : f \in Frames(toAp) \/ (f.type = "m2" /\ f.mic = tptk')
    BY <2>2, <2>4, Zenon
  <2>8. /\ toSta' \in Seq(StaFrame) /\ Frames(toSta') \subseteq Frames(toSta)
        /\ GtksGrow(toSta')
    BY ShorterLink, Zenon DEF SInv, GtkOrder
  <2>9. /\ spent' \in Spending
        /\ spent'.assoc = spent.assoc /\ spent'.starts = spent.starts
        /\ spent'.rekey = spent.rekey /\ spent'.retry = spent.retry
        /\ spent'.group = spent.group
        /\ spent'.fail = 0 => spent.fail = 0
    BY <1>2, SameBudgetFacts, Zenon DEF SInv
  <2>10. STypeOK'
    BY <1>1, <2>4, <2>8, <2>9, Zenon DEF SInv, STypeOK
  <2>11. Budget'
    BY <1>1, <2>9, Zenon DEF SInv, Budget
  <2>12. \A k : KnownKey(k) => KnownKey(k)'
    BY <2>1, <2>9 DEF KnownKey, Ptk
  <2>13. Nonces'
    <3>1. \A f \in Frames(toAp) : f.mic[2] <= drawn'
      BY <2>1, <2>6, SMTT(30) DEF SInv, Nonces, Ptk
    <3> QED BY <2>1, <2>7, <2>8, <2>12, <3>1, Zenon DEF SInv, Nonces
  <2>14. StagedIsCurrent'
    <3>1. \A f \in Frames(toSta') : f.type = "m3" /\ f.mic = tptk' => tptk' = tptk
      BY <2>1, <2>8 DEF SInv, Nonces, KnownKey, Ptk
    <3> QED BY <1>1, <2>8, <3>1, Zenon DEF SInv, StagedIsCurrent
  <2>15. Agreement'
    BY <1>1, <2>1 DEF SInv, Agreement
  <2>16. GtkOrder' /\ GtkCurrent' /\ GtkAcked'
    BY <1>1, <2>7, <2>8, <2>9, Zenon DEF SInv, GtkOrder, GtkCurrent, GtkAcked
  <2> QED BY <2>10, <2>11, <2>13, <2>14, <2>15, <2>16, Zenon DEF SInv
<1> QED BY <1>3, <1>4, Zenon DEF AnswerMessage1

\* A frame m that verifies and is acknowledged by r: what it does to the link,
\* to the keys promoted and to the GTK.  A Message 3 and a group frame differ
\* in what they do to the PTK, which the two lemmas below add.
LEMMA VerifiedFrame ==
  ASSUME SInv, IInv', SameBudget, UNCHANGED <<ap, setup, drawn, ft_msg1>>,
         NEW m, toSta # <<>>, toSta' = Tail(toSta), m = Head(toSta), m.type # "m1",
         NEW r, r = [type |-> IF m.type = "m3" THEN "m4" ELSE "g2", rc |-> m.rc, mic |-> m.mic],
         toAp' = toAp \/ toAp' = Append(toAp, r),
         proved' = proved \cup {m.mic},
         kernel' \in [ptk : Key, gtk : Nat],
         kernel'.gtk \in {kernel.gtk, m.gtk},
         spent'.fail = 0 => kernel'.gtk = m.gtk \/ (kernel' = kernel /\ toAp' = toAp),
         state' = "Authenticating" => state = "Authenticating",
         StagedIsCurrent', Agreement'
  PROVE  SInv'
<1>1. /\ toSta' \in Seq(StaFrame) /\ Frames(toSta') \subseteq Frames(toSta)
      /\ GtksGrow(toSta') /\ Frames(toSta) \subseteq StaFrame
  BY ShorterLink, Zenon DEF SInv, GtkOrder
<1>2. m \in Frames(toSta) /\ m \in StaFrame
  <2>1. toSta \in Seq(StaFrame)
    BY Zenon DEF SInv, STypeOK
  <2> QED BY <2>1, FramesTail, Zenon
<1>3. \A f \in Frames(toSta') : m.gtk <= f.gtk
  BY GrowTail, Zenon DEF SInv, STypeOK, GtkOrder
<1>4. KnownKey(m.mic)
  BY <1>2, Zenon DEF SInv, Nonces
<1>5. /\ r \in ApFrame /\ r.rc = m.rc /\ r.mic = m.mic /\ r.type # "m2"
      /\ (r.type = "m4") <=> (m.type = "m3")
      /\ (r.type = "g2") <=> (m.type = "g1")
  BY <1>2, <1>4, FourWayAssumption, Zenon DEF ApFrame, StaFrame, KnownKey
<1>6. toAp' \in Seq(ApFrame) /\ Frames(toAp') \subseteq Frames(toAp) \cup {r}
  <2>1. toAp \in Seq(ApFrame)
    BY Zenon DEF SInv, STypeOK
  <2>2. Append(toAp, r) \in Seq(ApFrame) /\ Frames(Append(toAp, r)) = Frames(toAp) \cup {r}
    BY <1>5, <2>1, FramesAppend
  <2> QED BY <2>1, <2>2, Zenon
<1>7. /\ spent' \in Spending
      /\ spent'.assoc = spent.assoc /\ spent'.starts = spent.starts
      /\ spent'.rekey = spent.rekey /\ spent'.retry = spent.retry
      /\ spent'.group = spent.group
      /\ spent'.fail = 0 => spent.fail = 0
  BY SameBudgetFacts, Zenon DEF SInv
<1>8. STypeOK'
  BY <1>1, <1>6, <1>7, Zenon DEF SInv, STypeOK
<1>9. Budget'
  BY <1>7, Zenon DEF SInv, Budget
<1>10. \A k : KnownKey(k) => KnownKey(k)'
  BY <1>7, Zenon DEF KnownKey
<1>11. Nonces'
  <2>1. m.mic[2] <= drawn
    BY <1>4, Zenon DEF KnownKey
  <2> QED BY <1>1, <1>4, <1>5, <1>6, <1>10, <2>1, Zenon DEF SInv, Nonces
<1>12. /\ kernel.gtk \in Nat /\ m.gtk \in Nat /\ ap.gtk \in Nat /\ ap.acked \in Nat
       /\ kernel.gtk <= m.gtk /\ m.gtk <= ap.gtk
  BY <1>2, Zenon DEF SInv, STypeOK, ApState, GtkOrder, StaFrame
<1>13. GtkOrder'
  BY <1>1, <1>3, <1>12, Zenon DEF SInv, GtkOrder
<1>14. GtkCurrent'
  BY <1>1, <1>2, <1>5, <1>6 DEF SInv, GtkCurrent
<1>15. GtkAcked'
  <2> SUFFICES ASSUME spent'.fail = 0 PROVE GtkAcked'
    BY Zenon DEF GtkAcked
  <2>1. CASE kernel' = kernel /\ toAp' = toAp
    BY <1>7, <2>1, Zenon DEF SInv, GtkAcked
  <2>2. CASE kernel'.gtk = m.gtk
    <3>1. kernel.gtk >= ap.acked /\ kernel'.gtk = m.gtk
      BY <1>7, <2>2, Zenon DEF SInv, GtkAcked
    <3>2. kernel.gtk = ap.gtk => kernel'.gtk = ap.gtk
      BY <1>12, <3>1
    <3>3. ASSUME NEW f \in Frames(toAp), f.mic = ap.ptk
          PROVE  /\ f.type = "g2" /\ f.rc \in ap.gsent => kernel'.gtk = ap.gtk
                 /\ f.type = "m4" /\ ap.phase = "m3" => kernel'.gtk = ap.gtk
      BY <1>7, <3>2, <3>3, Zenon DEF SInv, GtkAcked
    <3>4. ASSUME r.mic = ap.ptk
          PROVE  /\ r.type = "g2" /\ r.rc \in ap.gsent => kernel'.gtk = ap.gtk
                 /\ r.type = "m4" /\ ap.phase = "m3" => kernel'.gtk = ap.gtk
      BY <1>2, <1>5, <3>1, <3>4, Zenon DEF SInv, GtkCurrent
    <3>5. kernel'.gtk >= ap.acked
      BY <1>12, <3>1
    <3> QED BY <1>6, <3>3, <3>4, <3>5, Zenon DEF GtkAcked
  <2> QED BY <2>1, <2>2, Zenon
<1> QED BY <1>8, <1>9, <1>11, <1>13, <1>14, <1>15, Zenon DEF SInv

\* An accepted Message 3 preserves the invariant: it belongs to the handshake
\* the access point is in, or the access point has given the station up.
LEMMA Message3SInv ==
  ASSUME SInv, IInv', UNCHANGED <<ap, setup, ft_msg1>>,
         NEW m, toSta # <<>>, toSta' = Tail(toSta), m = Head(toSta), m.type = "m3",
         Message3(m.an, m.rc, m.mic), InstallKeys(m)
  PROVE  SInv'
<1>1. m \in Frames(toSta) /\ m \in StaFrame
  <2>1. toSta \in Seq(StaFrame)
    BY Zenon DEF SInv, STypeOK
  <2> QED BY <2>1, FramesTail, Zenon
<1>2. m.an \in ANonce /\ m.rc \in Counter /\ m.gtk \in Nat
  BY <1>1, Zenon DEF StaFrame
<1>3. tptk # NoPtk /\ tptk \in Ptk /\ m.mic = tptk
  BY <1>2, Message3Staged, Zenon DEF Message3, SInv
<1>4. /\ present /\ present' = present /\ ptk' = tptk /\ tptk' = NoPtk
      /\ proved' = proved \cup {m.mic} /\ drawn' = drawn
  BY <1>3, Zenon DEF Message3
<1> DEFINE r == [type |-> IF m.type = "m3" THEN "m4" ELSE "g2", rc |-> m.rc, mic |-> m.mic]
<1>5. toAp' = toAp \/ toAp' = Append(toAp, r)
  BY <1>3, <1>4, Zenon DEF InstallKeys, Reply
<1>6. SameBudget
  BY Zenon DEF InstallKeys, Mishap, Spend, SameBudget
<1>7. /\ kernel' \in [ptk : Key, gtk : Nat]
      /\ kernel'.gtk \in {kernel.gtk, m.gtk}
      /\ state' # "Authenticating"
      /\ state' = "Connected" => kernel'.ptk = ptk'
      /\ spent'.fail = 0 => kernel'.gtk = m.gtk \/ (kernel' = kernel /\ toAp' = toAp)
  <2>1. kernel \in [ptk : Key, gtk : Nat] /\ spent.fail \in Nat /\ spent \in Spending
    BY Zenon DEF SInv, STypeOK, Spending
  <2>2. ptk' \in Key
    BY <1>3, <1>4, Zenon DEF Key
  <2>3. ASSUME Mishap PROVE spent'.fail = spent.fail + 1
    BY <2>1, <2>3, Zenon DEF Mishap, Spend, Spending
  <2>4. CASE Mishap /\ kernel' = kernel /\ state' = "Failed"
    BY <2>1, <2>3, <2>4
  <2>5. CASE Mishap /\ kernel' = [kernel EXCEPT !.ptk = ptk'] /\ state' = "Failed"
    BY <2>1, <2>2, <2>3, <2>5
  <2>6. CASE kernel' = [ptk |-> ptk', gtk |-> m.gtk] /\ state' = "Connected"
    BY <1>2, <2>2, <2>6, Zenon
  <2>7. CASE kernel' = kernel /\ toAp' = toAp /\ state' = "Failed"
    BY <2>1, <2>7
  <2> QED BY <2>4, <2>5, <2>6, <2>7, Zenon DEF InstallKeys, Fail
<1>8. \/ ap.phase = "m3" /\ ap.ptk = tptk
      \/ ap.phase = "gone"
  BY <1>1, <1>3, Zenon DEF SInv, StagedIsCurrent
<1>9. Agreement'
  BY <1>3, <1>4, <1>7, <1>8, Zenon DEF Agreement
<1>10. StagedIsCurrent'
  <2>1. Frames(toSta') \subseteq Frames(toSta)
    BY ShorterLink, Zenon DEF SInv, GtkOrder
  <2>2. \A f \in Frames(toSta) : f.type = "m3" => f.mic # NoPtk
    BY FourWayAssumption, Zenon DEF SInv, Nonces, KnownKey
  <2> QED BY <1>4, <2>1, <2>2, Zenon DEF StagedIsCurrent
<1> HIDE DEF r
<1>11. r = [type |-> IF m.type = "m3" THEN "m4" ELSE "g2", rc |-> m.rc, mic |-> m.mic]
  BY Zenon DEF r
<1> QED BY <1>4, <1>5, <1>6, <1>7, <1>9, <1>10, <1>11, VerifiedFrame, Zenon

\* An accepted group frame preserves the invariant: its MIC is of the live
\* key, which was promoted before.
LEMMA GroupSInv ==
  ASSUME SInv, IInv', UNCHANGED <<state, ap, setup, ft_msg1>>,
         NEW m, toSta # <<>>, toSta' = Tail(toSta), m = Head(toSta), m.type = "g1",
         GroupRekey(m.rc, m.mic), InstallGtk(m)
  PROVE  SInv'
<1>1. m \in Frames(toSta) /\ m \in StaFrame
  <2>1. toSta \in Seq(StaFrame)
    BY Zenon DEF SInv, STypeOK
  <2> QED BY <2>1, FramesTail, Zenon
<1>2. m.gtk \in Nat
  BY <1>1, Zenon DEF StaFrame
<1>3. m.mic = ptk /\ UNCHANGED <<present, ptk, tptk, drawn, proved>>
  BY Zenon DEF GroupRekey, GroupVerified
<1>4. proved' = proved \cup {m.mic}
  BY <1>3, Zenon DEF GroupRekey, GroupVerified, SInv, IInv, PtkProved
<1> DEFINE r == [type |-> IF m.type = "m3" THEN "m4" ELSE "g2", rc |-> m.rc, mic |-> m.mic]
<1>5. toAp' = toAp \/ toAp' = Append(toAp, r)
  BY <1>3, Zenon DEF InstallGtk, Reply
<1>6. SameBudget
  BY Zenon DEF InstallGtk, Mishap, Spend, SameBudget
<1>7. /\ kernel' \in [ptk : Key, gtk : Nat] /\ kernel'.ptk = kernel.ptk
      /\ kernel'.gtk \in {kernel.gtk, m.gtk}
      /\ spent'.fail = 0 => kernel'.gtk = m.gtk \/ (kernel' = kernel /\ toAp' = toAp)
  <2>1. kernel \in [ptk : Key, gtk : Nat] /\ spent.fail \in Nat /\ spent \in Spending
    BY Zenon DEF SInv, STypeOK, Spending
  <2>2. ASSUME Mishap PROVE spent'.fail = spent.fail + 1
    BY <2>1, <2>2, Zenon DEF Mishap, Spend, Spending
  <2>3. CASE Mishap /\ kernel' = kernel
    BY <2>1, <2>2, <2>3
  <2>4. CASE kernel' = [kernel EXCEPT !.gtk = m.gtk]
    BY <1>2, <2>1, <2>4, Zenon
  <2> QED BY <2>3, <2>4, Zenon DEF InstallGtk
<1>8. Agreement'
  BY <1>3, <1>7, Zenon DEF SInv, Agreement
<1>9. StagedIsCurrent'
  <2>1. Frames(toSta') \subseteq Frames(toSta)
    BY ShorterLink, Zenon DEF SInv, GtkOrder
  <2> QED BY <1>3, <2>1, Zenon DEF SInv, StagedIsCurrent
<1> HIDE DEF r
<1>10. r = [type |-> IF m.type = "m3" THEN "m4" ELSE "g2", rc |-> m.rc, mic |-> m.mic]
  BY Zenon DEF r
<1> QED BY <1>3, <1>4, <1>5, <1>6, <1>7, <1>8, <1>9, <1>10, VerifiedFrame, Zenon

\* Whatever frame the station reads, the invariant is preserved.
LEMMA ReceiveSInv ==
  ASSUME SInv, IInv', Receive, setup' = setup
  PROVE  SInv'
<1> DEFINE m == Head(toSta)
<1>1. toSta # <<>>
  BY Zenon DEF Receive
<1>2. m \in StaFrame /\ ft_msg1 \in Seq(StaFrame) /\ <<m>> \in Seq(StaFrame)
  BY <1>1, FramesTail DEF SInv, STypeOK
<1> HIDE DEF m
<1>3. ASSUME toSta' = Tail(toSta), HandleMessage1(m) PROVE SInv'
  <2>1. CASE AnswerMessage1(m)
    BY <1>1, <1>2, <1>3, <2>1, AnswerSInv, Zenon DEF HandleMessage1
  <2>2. CASE BufferMessage1(m)
    <3>1. /\ UNCHANGED <<present, ptk, tptk, drawn, proved, kernel, ap, setup>>
          /\ toAp' = toAp /\ state' = state /\ ft_msg1' \in Seq(StaFrame)
      BY <1>2, <1>3, <2>2, Zenon DEF HandleMessage1, BufferMessage1, keyVars, vars, fwFields
    <3>2. SameBudget
      BY <2>2, Zenon DEF BufferMessage1, SameBudget
    <3> QED BY <1>1, <1>3, <3>1, <3>2, QuietStep, Zenon
  <2> QED BY <1>3, <2>1, <2>2, Zenon DEF HandleMessage1
<1>4. ASSUME toSta' = Tail(toSta), HandleMessage3(m) PROVE SInv'
  <2>1. CASE Message3(m.an, m.rc, m.mic) /\ InstallKeys(m)
    BY <1>1, <1>4, <2>1, Message3SInv, Zenon DEF HandleMessage3, m
  <2>2. CASE ~(Message3(m.an, m.rc, m.mic) /\ InstallKeys(m))
    <3>1. /\ UNCHANGED <<present, ptk, tptk, drawn, proved, kernel, ap, setup>>
          /\ toAp' = toAp /\ ft_msg1' \in Seq(StaFrame)
          /\ state' \in {state, "Failed", "FailedAuthentication"}
      BY <1>2, <1>4, <2>2, Zenon DEF HandleMessage3, Message3BadKeyData, RejectMessage3, Fail,
                              vars, fwFields
    <3>2. SameBudget
      BY <1>4, <2>2, Zenon DEF HandleMessage3, Mishap, Spend, SameBudget
    <3> QED BY <1>1, <1>4, <3>1, <3>2, QuietStep, Zenon
  <2> QED BY <2>1, <2>2, Zenon
<1>5. ASSUME toSta' = Tail(toSta), HandleGroup(m) PROVE SInv'
  <2>1. UNCHANGED <<state, ap, ft_msg1>> /\ m.type = "g1"
    BY <1>5, Zenon DEF HandleGroup, linkVars
  <2>2. CASE GroupRekey(m.rc, m.mic) /\ InstallGtk(m)
    BY <1>1, <1>5, <2>1, <2>2, GroupSInv, Zenon DEF m
  <2>3. CASE UNCHANGED <<vars, keyVars, toAp, spent>>
    <3>1. /\ UNCHANGED <<present, ptk, tptk, drawn, proved, kernel, ap, setup>>
          /\ toAp' = toAp /\ ft_msg1' \in Seq(StaFrame) /\ SameBudget
      BY <1>2, <2>1, <2>3, Zenon DEF keyVars, vars, fwFields, SameBudget
    <3> QED BY <1>1, <1>5, <2>1, <3>1, QuietStep, Zenon
  <2> QED BY <1>5, <2>2, <2>3, Zenon DEF HandleGroup
<1>6. ASSUME FallbackMessage3(m) PROVE SInv'
  <2>1. PICK cost \in {0, 1} : SendOutAuthRequest(cost)
    BY <1>6, Zenon DEF FallbackMessage3, PmksaFallback
  <2> QED BY <2>1, SendOutSInv, Zenon
<1>7. ASSUME toSta' = Tail(toSta),
             UNCHANGED <<vars, state, linkVars, keyVars, toAp, ap, spent>>
      PROVE  SInv'
  <2>1. /\ UNCHANGED <<present, ptk, tptk, drawn, proved, kernel, ap, setup>>
        /\ toAp' = toAp /\ state' = state /\ ft_msg1' \in Seq(StaFrame) /\ SameBudget
    BY <1>2, <1>7, Zenon DEF keyVars, linkVars, vars, fwFields, SameBudget
  <2> QED BY <1>1, <1>7, <2>1, QuietStep, Zenon
<1> QED BY <1>3, <1>4, <1>5, <1>6, <1>7, Zenon DEF Receive, m

\* The association response of an FT association preserves the invariant.
LEMMA AssociatedSInv ==
  ASSUME SInv, IInv', Associated, setup' = setup
  PROVE  SInv'
<1>1. UNCHANGED <<toSta, ap>> /\ ft_msg1 \in Seq(StaFrame)
  BY Zenon DEF Associated, SInv, STypeOK
<1>2. CASE ft_msg1 # <<>> /\ AnswerMessage1(Head(ft_msg1))
  <2>1. Head(ft_msg1) \in StaFrame
    BY <1>1, <1>2, FramesTail, Zenon
  <2> QED BY <1>1, <1>2, <2>1, AnswerSInv, Zenon
<1>3. CASE ~(ft_msg1 # <<>> /\ AnswerMessage1(Head(ft_msg1)))
  <2>1. /\ UNCHANGED <<vars, kernel, ft_msg1, toAp>>
        /\ state' \in {state, "Failed", "FailedAuthentication"}
        /\ SameBudget
    BY <1>3, Zenon DEF Associated, Mishap, Spend, Fail, SameBudget, keyVars
  <2>2. /\ UNCHANGED <<present, ptk, tptk, drawn, proved, kernel, ap, setup>>
        /\ toAp' = toAp /\ toSta' = toSta /\ ft_msg1' \in Seq(StaFrame)
    BY <1>1, <2>1, Zenon DEF vars, fwFields
  <2> QED BY <2>1, <2>2, QuietStep, Zenon
<1> QED BY <1>2, <1>3, Zenon

\* So do the timeout and the retry wait of the station, and the losses of the
\* link.
LEMMA TimeoutSInv ==
  ASSUME SInv, IInv', Reconnect \/ AuthTimeout \/ Lose, setup' = setup
  PROVE  SInv'
<1>1. CASE Reconnect
  BY <1>1, SendOutSInv, Zenon DEF Reconnect
<1>2. CASE AuthTimeout
  <2>1. CASE PmksaFallback(0)
    BY <2>1, SendOutSInv, Zenon DEF PmksaFallback
  <2>2. CASE ~PmksaFallback(0)
    <3>1. /\ UNCHANGED <<vars, kernel, ft_msg1, toSta, toAp, ap, spent>>
          /\ state' \in {state, "Failed", "FailedAuthentication"}
      BY <1>2, <2>2, Zenon DEF AuthTimeout, Fail
    <3>2. /\ UNCHANGED <<present, ptk, tptk, drawn, proved, kernel, ap, setup>>
          /\ toAp' = toAp /\ toSta' = toSta /\ ft_msg1' \in Seq(StaFrame) /\ SameBudget
      BY <3>1, Zenon DEF vars, fwFields, SInv, STypeOK, SameBudget
    <3> QED BY <3>1, <3>2, QuietStep, Zenon
  <2> QED BY <2>1, <2>2, Zenon
<1>3. CASE Lose
  <2>1. /\ UNCHANGED <<vars, state, kernel, ft_msg1, ap>>
        /\ toSta' = toSta \/ (toSta # <<>> /\ toSta' = Tail(toSta))
        /\ toAp' = toAp \/ (toAp # <<>> /\ toAp' = Tail(toAp))
        /\ SameBudget
    BY <1>3, Zenon DEF Lose, Spend, SameBudget, staVars, linkVars, keyVars
  <2>2. /\ UNCHANGED <<present, ptk, tptk, drawn, proved, kernel, ap, setup>>
        /\ state' = state /\ ft_msg1' \in Seq(StaFrame)
    BY <2>1, Zenon DEF vars, fwFields, SInv, STypeOK
  <2> QED BY <2>1, <2>2, QuietStep, Zenon
<1> QED BY <1>1, <1>2, <1>3, Zenon

-----------------------------------------------------------------------------
(***************************************************************************)
(* The access point and the link.                                          *)
(***************************************************************************)

\* The types of what is under way.
LEMMA FrameTypes ==
  ASSUME STypeOK
  PROVE  /\ \A f \in Frames(toSta) : f \in StaFrame /\ f.rc \in Nat /\ f.gtk \in Nat
         /\ \A f \in Frames(toAp) : f \in ApFrame /\ f.rc \in Nat /\ f.mic \in Ptk
<1>1. toSta \in Seq(StaFrame) /\ toAp \in Seq(ApFrame)
  BY Zenon DEF STypeOK
<1>2. Frames(toSta) \subseteq StaFrame /\ Frames(toAp) \subseteq ApFrame
  BY <1>1 DEF Frames
<1> QED BY <1>2, FourWayAssumption, Zenon DEF StaFrame, ApFrame

\* A state the access point may send from, the frame it then sends, and what
\* a step that sends it does besides.
Sendable(next) ==
    /\ next \in ApState /\ next.an \in ANonce /\ next.rc + 1 \in Counter
    /\ ap.gtk <= next.gtk /\ next.acked = ap.acked
SentFrame(type, key, next) ==
    [type |-> type, an |-> next.an, rc |-> next.rc + 1, mic |-> key, gtk |-> next.gtk]
SendsOnly ==
    UNCHANGED <<kernel, ft_msg1, setup>> /\ spent' \in Spending /\ toAp' \in Seq(ApFrame)
ApSent(type, key, next, f) ==
    /\ ap'.phase = next.phase /\ ap'.rc = next.rc + 1 /\ ap'.an = next.an
    /\ ap'.ptk = next.ptk /\ ap'.gtk = next.gtk /\ ap'.acked = next.acked
    /\ ap'.gsent = IF type = "g1" THEN next.gsent \cup {next.rc + 1} ELSE next.gsent
    /\ f.type = type /\ f.rc = next.rc + 1 /\ f.mic = key /\ f.gtk = next.gtk
    /\ Frames(toSta') = Frames(toSta) \cup {f}
    /\ STypeOK' /\ GtkOrder'

\* What sending a frame changes at the access point and on the link.
LEMMA ApSendFacts ==
  ASSUME SInv, NEW type \in {"m1", "m3", "g1"}, NEW key \in Key, NEW next, Sendable(next),
         ApSend(type, key, next), SendsOnly, NEW f, f = SentFrame(type, key, next)
  PROVE  ApSent(type, key, next, f)
<1>0. /\ next \in ApState /\ next.an \in ANonce /\ next.rc + 1 \in Counter
      /\ ap.gtk <= next.gtk /\ next.acked = ap.acked
      /\ UNCHANGED <<kernel, ft_msg1, setup>> /\ spent' \in Spending /\ toAp' \in Seq(ApFrame)
      /\ f = [type |-> type, an |-> next.an, rc |-> next.rc + 1, mic |-> key, gtk |-> next.gtk]
  BY Zenon DEF Sendable, SendsOnly, SentFrame
<1>1. /\ next.rc \in Nat /\ next.rc + 1 \in Nat /\ next.sent \in SUBSET Nat
      /\ next.gsent \in SUBSET Nat /\ next.gtk \in Nat /\ ap.gtk \in Nat /\ ap.acked \in Nat
  BY <1>0 DEF ApState, SInv, STypeOK
<1>2. /\ ap' \in ApState
      /\ ap'.phase = next.phase /\ ap'.rc = next.rc + 1 /\ ap'.an = next.an
      /\ ap'.ptk = next.ptk /\ ap'.gtk = next.gtk /\ ap'.acked = next.acked
      /\ ap'.gsent = IF type = "g1" THEN next.gsent \cup {next.rc + 1} ELSE next.gsent
  <2>1. CASE type = "g1"
    <3>1. ap' = [next EXCEPT !.rc = next.rc + 1, !.gsent = next.gsent \cup {next.rc + 1}]
      BY <1>0, <2>1, Zenon DEF ApSend, ApState
    <3>2. ap' = [phase |-> next.phase, rc |-> next.rc + 1, an |-> next.an, ptk |-> next.ptk,
                 gtk |-> next.gtk, acked |-> next.acked, sent |-> next.sent,
                 gsent |-> next.gsent \cup {next.rc + 1}]
      BY <1>0, <3>1, Zenon DEF ApState
    <3> QED BY <1>0, <1>1, <2>1, <3>2, Zenon DEF ApState
  <2>2. CASE type # "g1"
    <3>1. ap' = [next EXCEPT !.rc = next.rc + 1, !.sent = next.sent \cup {next.rc + 1}]
      BY <1>0, <2>2, Zenon DEF ApSend, ApState
    <3>2. ap' = [phase |-> next.phase, rc |-> next.rc + 1, an |-> next.an, ptk |-> next.ptk,
                 gtk |-> next.gtk, acked |-> next.acked,
                 sent |-> next.sent \cup {next.rc + 1}, gsent |-> next.gsent]
      BY <1>0, <3>1, Zenon DEF ApState
    <3> QED BY <1>0, <1>1, <2>2, <3>2, Zenon DEF ApState
  <2> QED BY <2>1, <2>2, Zenon
<1>3. f \in StaFrame /\ f.gtk = next.gtk
  <2>1. /\ f = [type |-> type, an |-> next.an, rc |-> next.rc + 1, mic |-> key, gtk |-> next.gtk]
        /\ next.an \in ANonce /\ next.rc + 1 \in Counter /\ next.gtk \in Nat
    BY <1>0, <1>1, Zenon
  <2> QED BY <2>1, SMTT(30) DEF StaFrame
<1>4. toSta' = Append(toSta, f)
  BY <1>0, <1>2, Zenon DEF ApSend
<1>5. toSta \in Seq(StaFrame) /\ GtksGrow(toSta) /\ Frames(toSta) \subseteq StaFrame
  BY SMTT(120) DEF SInv, STypeOK, GtkOrder, Frames
<1>6. toSta' \in Seq(StaFrame) /\ Frames(toSta') = Frames(toSta) \cup {f}
  BY <1>3, <1>4, <1>5, FramesAppend, SMTT(120)
<1>7. STypeOK'
  BY <1>0, <1>2, <1>6, Zenon DEF SInv, STypeOK
<1>8. \A g \in Frames(toSta) : g.gtk \in Nat /\ g.gtk <= ap.gtk /\ kernel.gtk <= g.gtk
  BY <1>5, Zenon DEF SInv, GtkOrder, StaFrame
<1>9. GtksGrow(toSta')
  <2>1. f.gtk \in Nat /\ ap.gtk <= f.gtk
    BY <1>0, <1>1, <1>3, Zenon
  <2>2. \A x, y, z \in Nat : x <= y /\ y <= z => x <= z
    OBVIOUS
  <2>3. \A g \in Frames(toSta) : g.gtk <= f.gtk
    BY <1>1, <1>8, <2>1, <2>2, Zenon
  <2> QED BY <1>3, <1>4, <1>5, <2>3, GrowAppend, Zenon
<1>10. kernel.gtk \in Nat /\ kernel.gtk <= ap.gtk /\ ap.acked <= ap.gtk
  BY Zenon DEF SInv, STypeOK, GtkOrder
<1>11. GtkOrder'
  <2>1. \A x, y, z \in Nat : x <= y /\ y <= z => x <= z
    OBVIOUS
  <2>2. next.gtk <= next.gtk
    BY <1>1
  <2>3. kernel.gtk <= next.gtk /\ ap.acked <= next.gtk
    BY <1>0, <1>1, <1>10, <2>1, Zenon
  <2>4. \A g \in Frames(toSta) : kernel.gtk <= g.gtk /\ g.gtk <= next.gtk
    BY <1>0, <1>1, <1>8, <2>1, Zenon
  <2>5. \A g \in Frames(toSta') : kernel.gtk <= g.gtk /\ g.gtk <= next.gtk
    BY <1>3, <1>6, <2>2, <2>3, <2>4, Zenon
  <2>6. kernel' = kernel /\ ap'.gtk = next.gtk /\ ap'.acked = ap.acked
    BY <1>0, <1>2, Zenon
  <2> QED BY <1>9, <2>3, <2>5, <2>6, Zenon DEF GtkOrder
<1>12. f.type = type /\ f.rc = next.rc + 1 /\ f.mic = key /\ f.gtk = next.gtk
  BY <1>0, SMTT(30)
<1> QED BY <1>2, <1>6, <1>7, <1>11, <1>12, Zenon DEF ApSent

\* The first Message 1 of a handshake preserves the invariant: its ANonce is
\* above that of every key known so far.
LEMMA HandshakeSInv ==
  ASSUME SInv, IInv', ApStart \/ ApRekey, setup' = setup
  PROVE  SInv'
<1>1. spent \in Spending /\ ap \in ApState
  BY Zenon DEF SInv, STypeOK
<1>2. /\ spent.assoc \in Nat /\ spent.rekey \in Nat /\ spent.starts \in Nat
      /\ spent.retry \in Nat /\ spent.group \in Nat /\ ap.rc \in Nat /\ spent.fail \in Nat
  BY <1>1, Zenon DEF Spending, ApState
<1>3. /\ ApHandshake /\ UNCHANGED <<vars, state, linkVars, keyVars, toAp>>
      /\ ap.phase = "idle" \/ ap.phase = "done"
  BY Zenon DEF ApStart, ApRekey, staVars
<1>4. /\ UNCHANGED <<present, ptk, tptk, drawn, proved, kernel, ft_msg1, state, toAp, setup>>
      /\ toAp' \in Seq(ApFrame)
  BY <1>3, Zenon DEF vars, fwFields, linkVars, keyVars, SInv, STypeOK
<1>5. /\ spent' \in Spending /\ spent'.assoc = spent.assoc
      /\ spent'.starts = spent.starts + 1 /\ spent'.retry = spent.retry
      /\ spent'.group = spent.group /\ spent'.fail = spent.fail
      /\ spent'.starts <= spent'.assoc + spent'.rekey
      /\ spent'.rekey \in Nat /\ spent'.rekey <= setup.max.rekey
  <2>1. CASE ApStart
    <3>1. spent' = [spent EXCEPT !.starts = spent.starts + 1]
      BY <2>1, Zenon DEF ApStart, Spend
    <3>2. /\ spent' \in Spending /\ spent'.assoc = spent.assoc
          /\ spent'.starts = spent.starts + 1 /\ spent'.retry = spent.retry
          /\ spent'.group = spent.group /\ spent'.fail = spent.fail
          /\ spent'.rekey = spent.rekey
      BY <1>1, <1>2, <3>1 DEF Spending
    <3>3. spent.starts < spent.assoc + spent.rekey /\ spent.rekey <= setup.max.rekey
      BY <2>1, Zenon DEF ApStart, SInv, Budget
    <3> QED BY <1>2, <3>2, <3>3
  <2>2. CASE ApRekey
    <3>1. spent' = [spent EXCEPT !.starts = spent.starts + 1, !.rekey = spent.rekey + 1]
      BY <2>2, Zenon DEF ApRekey
    <3>2. spent' = [assoc |-> spent.assoc, starts |-> spent.starts + 1,
                    rekey |-> spent.rekey + 1, retry |-> spent.retry, group |-> spent.group,
                    loss |-> spent.loss, fail |-> spent.fail]
      BY <1>1, <3>1, Zenon DEF Spending
    <3>3. /\ spent' \in Spending /\ spent'.assoc = spent.assoc
          /\ spent'.starts = spent.starts + 1 /\ spent'.retry = spent.retry
          /\ spent'.group = spent.group /\ spent'.fail = spent.fail
          /\ spent'.rekey = spent.rekey + 1
      BY <1>1, <1>2, <3>2 DEF Spending
    <3>4. spent.rekey < setup.max.rekey /\ setup.max.rekey \in Nat
      BY <2>2, Limits, Zenon DEF ApRekey, CanSpend, SInv
    <3>5. spent.starts <= spent.assoc + spent.rekey
      BY Zenon DEF SInv, Budget
    <3> QED BY <1>2, <3>3, <3>4, <3>5
  <2> QED BY <2>1, <2>2, Zenon
<1> DEFINE next == [ap EXCEPT !.phase = "m1", !.an = spent.starts + 1, !.sent = {}]
<1>6. next = [ap EXCEPT !.phase = "m1", !.an = spent.starts + 1, !.sent = {}]
  BY Zenon
<1>7. ApSend("m1", NoPtk, next)
  BY <1>3, Zenon DEF ApHandshake
<1> HIDE DEF next
<1>8. /\ next \in ApState /\ next.phase = "m1" /\ next.rc = ap.rc /\ next.an = spent.starts + 1
      /\ next.ptk = ap.ptk /\ next.gtk = ap.gtk /\ next.acked = ap.acked
      /\ next.gsent = ap.gsent
  <2>1. PICK n \in Nat : n = spent.starts + 1
    BY <1>2
  <2>2. next = [ap EXCEPT !.phase = "m1", !.an = n, !.sent = {}]
    BY <1>6, <2>1, Zenon
  <2> QED BY <1>1, <2>1, <2>2, Zenon DEF ApState
<1>9. next.an \in ANonce /\ next.rc + 1 \in Counter
  <2>1. /\ setup.max.assoc \in Nat /\ setup.max.rekey \in Nat
        /\ setup.max.retry \in Nat /\ setup.max.group \in Nat
    BY Limits, Zenon DEF SInv
  <2>2. /\ spent.assoc <= setup.max.assoc /\ spent.retry <= setup.max.retry
        /\ spent.group <= setup.max.group
        /\ ap.rc <= 2 * spent.starts + spent.retry + spent.group
    BY Zenon DEF SInv, Budget
  <2>3. spent.starts + 1 <= setup.max.assoc + setup.max.rekey
    BY <1>2, <1>5, <2>1, <2>2, SMTT(30)
  <2>4. ap.rc + 1 <= 2 * (setup.max.assoc + setup.max.rekey) + setup.max.retry + setup.max.group
    BY <1>2, <2>1, <2>2, <2>3
  <2> QED BY <1>2, <1>8, <2>3, <2>4, Limits, SMTT(30) DEF SInv
<1>10. ap.gtk <= next.gtk /\ NoPtk \in Key
  BY <1>1, <1>8 DEF ApState, Key
<1>11. PICK f : f = SentFrame("m1", NoPtk, next)
  BY Zenon
<1>12. /\ ap'.phase = "m1" /\ ap'.rc = ap.rc + 1 /\ ap'.an = spent.starts + 1
       /\ ap'.ptk = ap.ptk /\ ap'.gtk = ap.gtk /\ ap'.acked = ap.acked
       /\ ap'.gsent = ap.gsent /\ f.type = "m1"
       /\ Frames(toSta') = Frames(toSta) \cup {f}
       /\ STypeOK' /\ GtkOrder'
  <2>1. Sendable(next) /\ SendsOnly /\ "m1" \in {"m1", "m3", "g1"}
    BY <1>4, <1>5, <1>8, <1>9, <1>10, Zenon DEF Sendable, SendsOnly
  <2>2. ApSent("m1", NoPtk, next, f)
    BY <1>7, <1>10, <1>11, <2>1, ApSendFacts, Zenon
  <2> QED BY <1>8, <2>2, Zenon DEF ApSent
<1>13. Budget'
  <2>1. ap.rc <= 2 * spent.starts + spent.retry + spent.group
    BY Zenon DEF SInv, Budget
  <2>2. ap'.rc < 2 * spent'.starts + spent'.retry + spent'.group
    BY <1>2, <1>5, <1>12, <2>1, SMTT(30)
  <2>3. /\ spent.assoc <= setup.max.assoc /\ spent.retry <= setup.max.retry
        /\ spent.group <= setup.max.group
    BY Zenon DEF SInv, Budget
  <2>4. ap'.rc \in Nat /\ spent'.starts \in Nat /\ spent'.retry \in Nat /\ spent'.group \in Nat
    BY <1>2, <1>5, <1>12, SMTT(30)
  <2>5. /\ ap'.rc <= 2 * spent'.starts + spent'.retry + spent'.group
        /\ ap'.an = spent'.starts /\ ap'.an > 0
    BY <1>2, <1>5, <1>12, <2>2, <2>4, SMTT(30)
  <2> QED BY <1>4, <1>5, <1>12, <2>2, <2>3, <2>5, Zenon DEF Budget
<1>14. \A k : KnownKey(k) => KnownKey(k)'
  BY <1>2, <1>4, <1>5, <1>12, SMTT(30) DEF KnownKey
<1>15. Nonces'
  BY <1>4, <1>12, <1>14, Zenon DEF SInv, Nonces
<1>16. StagedIsCurrent'
  <2>1. ap.phase = "idle" => state = "Authenticating"
    BY Zenon DEF ApStart, ApRekey
  <2> QED BY <1>3, <1>4, <1>12, <2>1, Zenon DEF SInv, StagedIsCurrent
<1>17. Agreement'
  BY <1>4, <1>12, Zenon DEF SInv, Agreement
<1>18. GtkCurrent' /\ GtkAcked'
  <2>1. \A g \in Frames(toSta) \cup Frames(toAp) : g.rc <= ap.rc => g.rc <= ap.rc + 1
    BY <1>2, FrameTypes DEF SInv
  <2> QED BY <1>4, <1>5, <1>12, <2>1, Zenon DEF SInv, GtkCurrent, GtkAcked
<1> QED BY <1>12, <1>13, <1>15, <1>16, <1>17, <1>18, Zenon DEF SInv

\* A retransmission or a group rekey within the bounds leaves a counter for
\* its frame.
LEMMA SpendFacts ==
  ASSUME SInv, setup' = setup,
         \/ CanSpend("retry") /\ Spend("retry")
         \/ CanSpend("group") /\ Spend("group")
  PROVE  /\ spent \in Spending /\ spent' \in Spending
         /\ spent'.assoc = spent.assoc /\ spent'.rekey = spent.rekey
         /\ spent'.starts = spent.starts /\ spent'.fail = spent.fail
         /\ spent'.retry + spent'.group = spent.retry + spent.group + 1
         /\ spent'.retry <= setup.max.retry /\ spent'.group <= setup.max.group
         /\ ap.rc \in Nat /\ ap.rc + 1 \in Counter
<1>1. spent \in Spending /\ ap.rc \in Nat
  BY Zenon DEF SInv, STypeOK, ApState
<1>2. /\ spent.assoc \in Nat /\ spent.rekey \in Nat /\ spent.starts \in Nat
      /\ spent.retry \in Nat /\ spent.group \in Nat
  BY <1>1, Zenon DEF Spending
<1>3. /\ setup.max.assoc \in Nat /\ setup.max.rekey \in Nat
      /\ setup.max.retry \in Nat /\ setup.max.group \in Nat
  BY Limits, Zenon DEF SInv
<1>4. /\ spent.assoc <= setup.max.assoc /\ spent.rekey <= setup.max.rekey
      /\ spent.retry <= setup.max.retry /\ spent.group <= setup.max.group
      /\ spent.starts <= spent.assoc + spent.rekey
      /\ ap.rc <= 2 * spent.starts + spent.retry + spent.group
  BY Zenon DEF SInv, Budget
<1>5. /\ spent' \in Spending
      /\ spent'.assoc = spent.assoc /\ spent'.rekey = spent.rekey
      /\ spent'.starts = spent.starts /\ spent'.fail = spent.fail
      /\ \/ /\ spent.retry < setup.max.retry
            /\ spent'.retry = spent.retry + 1 /\ spent'.group = spent.group
         \/ /\ spent.group < setup.max.group
            /\ spent'.retry = spent.retry /\ spent'.group = spent.group + 1
  <2>1. CASE spent.retry < setup.max.retry /\ spent' = [spent EXCEPT !.retry = spent.retry + 1]
    BY <1>1, <2>1 DEF Spending
  <2>2. CASE spent.group < setup.max.group /\ spent' = [spent EXCEPT !.group = spent.group + 1]
    BY <1>1, <2>2 DEF Spending
  <2> QED BY <2>1, <2>2, Zenon DEF CanSpend, Spend
<1>6. ap.rc + 1 <= 2 * (setup.max.assoc + setup.max.rekey) + setup.max.retry + setup.max.group
  BY <1>1, <1>2, <1>3, <1>4, <1>5
<1>7. ap.rc + 1 \in Counter
  BY <1>1, <1>6, Limits DEF SInv
<1>8. /\ spent'.retry + spent'.group = spent.retry + spent.group + 1
      /\ spent'.retry <= setup.max.retry /\ spent'.group <= setup.max.group
  BY <1>2, <1>3, <1>4, <1>5
<1> QED BY <1>1, <1>5, <1>7, <1>8, Zenon

\* The budget after a frame of an ongoing handshake or group rekey.
LEMMA SpendBudget ==
  ASSUME SInv, setup' = setup, state' = state,
         \/ CanSpend("retry") /\ Spend("retry")
         \/ CanSpend("group") /\ Spend("group"),
         ap'.phase = ap.phase, ap'.an = ap.an, ap'.rc = ap.rc + 1
  PROVE  Budget'
<1>1. /\ spent'.assoc = spent.assoc /\ spent'.rekey = spent.rekey
      /\ spent'.starts = spent.starts
      /\ spent'.retry + spent'.group = spent.retry + spent.group + 1
      /\ spent'.retry <= setup.max.retry /\ spent'.group <= setup.max.group
      /\ spent \in Spending /\ spent' \in Spending /\ ap.rc \in Nat
  BY SpendFacts, Zenon
<1>2. /\ spent.starts \in Nat /\ spent.retry \in Nat /\ spent.group \in Nat
      /\ spent'.retry \in Nat /\ spent'.group \in Nat
  BY <1>1, Zenon DEF Spending
<1>3. /\ ap'.rc <= 2 * spent'.starts + spent'.retry + spent'.group
      /\ ap.phase = "m1" => ap'.rc < 2 * spent'.starts + spent'.retry + spent'.group
  BY <1>1, <1>2, SMTT(30) DEF SInv, Budget
<1> QED BY <1>1, <1>3, Zenon DEF SInv, Budget

\* A retransmitted Message 1 or Message 3 preserves the invariant.
LEMMA RetrySInv ==
  ASSUME SInv, IInv', ApRetry, setup' = setup
  PROVE  SInv'
<1>1. /\ CanSpend("retry") /\ Spend("retry")
      /\ UNCHANGED <<vars, state, linkVars, keyVars, toAp>>
  BY Zenon DEF ApRetry, staVars
<1>2. /\ UNCHANGED <<present, ptk, tptk, drawn, proved, kernel, ft_msg1, state, toAp, setup>>
      /\ toAp' \in Seq(ApFrame)
  BY <1>1, Zenon DEF vars, fwFields, linkVars, keyVars, SInv, STypeOK
<1>3. /\ spent' \in Spending /\ spent'.starts = spent.starts /\ spent'.fail = spent.fail
      /\ ap.rc \in Nat /\ ap.rc + 1 \in Counter
  BY <1>1, SpendFacts, Zenon
<1>4. PICK type \in {"m1", "m3"}, key \in {NoPtk, ap.ptk} :
        /\ ap.phase = type /\ ApSend(type, key, ap)
        /\ type = "m3" => key = ap.ptk
  BY Zenon DEF ApRetry
<1>5. key \in Key /\ ap \in ApState /\ ap.gtk <= ap.gtk /\ ap.an \in ANonce
  <2>1. ap.an = spent.starts /\ ap.an > 0
    BY <1>4, Zenon DEF SInv, Budget
  <2>2. /\ spent.assoc <= setup.max.assoc /\ spent.rekey <= setup.max.rekey
        /\ spent.starts <= spent.assoc + spent.rekey
    BY Zenon DEF SInv, Budget
  <2>3. /\ spent.assoc \in Nat /\ spent.rekey \in Nat /\ spent.starts \in Nat
        /\ setup.max.assoc \in Nat /\ setup.max.rekey \in Nat
    BY Limits, Zenon DEF SInv, STypeOK, Spending
  <2>4. ap.an \in ANonce
    BY <2>1, <2>2, <2>3, Limits DEF SInv
  <2> QED BY <2>4 DEF SInv, STypeOK, ApState, Key
<1>6. PICK f : f = SentFrame(type, key, ap)
  BY Zenon
<1>7. /\ ap'.phase = ap.phase /\ ap'.rc = ap.rc + 1 /\ ap'.an = ap.an
      /\ ap'.ptk = ap.ptk /\ ap'.gtk = ap.gtk /\ ap'.acked = ap.acked
      /\ ap'.gsent = ap.gsent
      /\ f.type = type /\ f.rc = ap.rc + 1 /\ f.mic = key /\ f.gtk = ap.gtk
      /\ Frames(toSta') = Frames(toSta) \cup {f}
      /\ STypeOK' /\ GtkOrder'
  <2>1. type \in {"m1", "m3", "g1"} /\ type # "g1"
    BY Zenon
  <2>2. Sendable(ap) /\ SendsOnly
    BY <1>2, <1>3, <1>5, Zenon DEF Sendable, SendsOnly
  <2>3. ApSent(type, key, ap, f)
    BY <1>4, <1>5, <1>6, <2>1, <2>2, ApSendFacts, Zenon
  <2> QED BY <2>1, <2>3, Zenon DEF ApSent
<1>8. Budget'
  BY <1>1, <1>2, <1>7, SpendBudget, Zenon
<1>9. \A k : KnownKey(k) => KnownKey(k)'
  BY <1>2, <1>3, <1>7, Zenon DEF KnownKey
<1>10. Nonces'
  BY <1>2, <1>4, <1>7, <1>9, Zenon DEF SInv, Nonces
<1>11. StagedIsCurrent' /\ Agreement'
  BY <1>2, <1>4, <1>7, Zenon DEF SInv, StagedIsCurrent, Agreement
<1>12. GtkCurrent' /\ GtkAcked'
  <2>1. \A g \in Frames(toSta) \cup Frames(toAp) : g.rc <= ap.rc => g.rc <= ap.rc + 1
    BY <1>3, FrameTypes DEF SInv
  <2>2. ap'.rc <= ap'.rc
    BY <1>3, <1>7
  <2> QED BY <1>2, <1>3, <1>4, <1>7, <2>1, <2>2, Zenon DEF SInv, GtkCurrent, GtkAcked
<1> QED BY <1>7, <1>8, <1>10, <1>11, <1>12, Zenon DEF SInv

\* A group rekey preserves the invariant: the counter of its frame is above
\* those of the frames sent before it, so that only this one can acknowledge
\* the new GTK.
LEMMA ApGroupSInv ==
  ASSUME SInv, IInv', ApGroup, setup' = setup
  PROVE  SInv'
<1>1. /\ CanSpend("group") /\ Spend("group")
      /\ UNCHANGED <<vars, state, linkVars, keyVars, toAp>>
      /\ ap.phase \in {"done", "m1"} /\ (ap.phase = "m1" => ap.ptk # NoPtk)
      /\ ApSend("g1", ap.ptk, [ap EXCEPT !.gtk = @ + 1, !.gsent = {}])
  BY Zenon DEF ApGroup, staVars
<1>2. /\ UNCHANGED <<present, ptk, tptk, drawn, proved, kernel, ft_msg1, state, toAp, setup>>
      /\ toAp' \in Seq(ApFrame)
  BY <1>1, Zenon DEF vars, fwFields, linkVars, keyVars, SInv, STypeOK
<1>3. /\ spent' \in Spending /\ spent'.starts = spent.starts /\ spent'.fail = spent.fail
      /\ ap.rc \in Nat /\ ap.rc + 1 \in Counter
  BY <1>1, SpendFacts, Zenon
<1>4. ap \in ApState /\ ap.ptk \in Key /\ ap.an \in ANonce /\ ap.gtk \in Nat
  <2>1. ap.an = spent.starts /\ ap.an > 0
    BY <1>1, Zenon DEF SInv, Budget
  <2>2. /\ spent.assoc <= setup.max.assoc /\ spent.rekey <= setup.max.rekey
        /\ spent.starts <= spent.assoc + spent.rekey
    BY Zenon DEF SInv, Budget
  <2>3. /\ spent.assoc \in Nat /\ spent.rekey \in Nat /\ spent.starts \in Nat
        /\ setup.max.assoc \in Nat /\ setup.max.rekey \in Nat
    BY Limits, Zenon DEF SInv, STypeOK, Spending
  <2>4. ap.an \in ANonce
    BY <2>1, <2>2, <2>3, Limits DEF SInv
  <2> QED BY <2>4, Zenon DEF SInv, STypeOK, ApState
<1>a. PICK key \in Key : key = ap.ptk
  BY <1>4, Zenon
<1> DEFINE next == [ap EXCEPT !.gtk = ap.gtk + 1, !.gsent = {}]
<1>5. next = [ap EXCEPT !.gtk = ap.gtk + 1, !.gsent = {}] /\ ApSend("g1", key, next)
  BY <1>a, <1>1, Zenon
<1> HIDE DEF next
<1>6. /\ next \in ApState /\ next.phase = ap.phase /\ next.rc = ap.rc /\ next.an = ap.an
      /\ next.ptk = ap.ptk /\ next.gtk = ap.gtk + 1 /\ next.acked = ap.acked
      /\ next.gsent = {}
  <2>1. PICK n \in Nat : n = ap.gtk + 1
    BY <1>4
  <2>2. next = [ap EXCEPT !.gtk = n, !.gsent = {}]
    BY <1>5, <2>1, Zenon
  <2> QED BY <1>4, <2>1, <2>2, Zenon DEF ApState
<1>7. PICK f : f = SentFrame("g1", key, next)
  BY Zenon
<1>8. /\ ap'.phase = ap.phase /\ ap'.rc = ap.rc + 1 /\ ap'.an = ap.an
      /\ ap'.ptk = ap.ptk /\ ap'.gtk = ap.gtk + 1 /\ ap'.acked = ap.acked
      /\ ap'.gsent = {ap.rc + 1}
      /\ f.type = "g1" /\ f.rc = ap.rc + 1 /\ f.mic = ap.ptk /\ f.gtk = ap.gtk + 1
      /\ Frames(toSta') = Frames(toSta) \cup {f}
      /\ STypeOK' /\ GtkOrder'
  <2>1. ap.gtk <= next.gtk /\ next.an \in ANonce /\ next.rc + 1 \in Counter
    BY <1>3, <1>4, <1>6
  <2>2. Sendable(next) /\ SendsOnly /\ "g1" \in {"m1", "m3", "g1"}
    BY <1>2, <1>3, <1>4, <1>6, <2>1, Zenon DEF Sendable, SendsOnly
  <2>3. ApSent("g1", key, next, f)
    BY <1>5, <1>7, <2>2, ApSendFacts, Zenon
  <2>4. next.gsent \cup {next.rc + 1} = {ap.rc + 1}
    BY <1>6, Zenon
  <2> QED BY <1>a, <1>6, <2>3, <2>4, Zenon DEF ApSent
<1>9. Budget'
  BY <1>1, <1>2, <1>8, SpendBudget, Zenon
<1>10. \A k : KnownKey(k) => KnownKey(k)'
  BY <1>2, <1>3, <1>8, Zenon DEF KnownKey
<1>11. Nonces'
  BY <1>1, <1>2, <1>8, <1>10, Zenon DEF SInv, Nonces
<1>12. StagedIsCurrent' /\ Agreement'
  BY <1>1, <1>2, <1>8, Zenon DEF SInv, StagedIsCurrent, Agreement
<1>13. GtkCurrent' /\ GtkAcked'
  <2>1. \A g \in Frames(toSta) \cup Frames(toAp) :
            g.rc <= ap.rc => g.rc <= ap.rc + 1 /\ g.rc # ap.rc + 1
    BY <1>3, FrameTypes DEF SInv
  <2>2. ap'.rc <= ap'.rc
    BY <1>3, <1>8
  <2>3. GtkCurrent'
    BY <1>1, <1>2, <1>8, <2>1, <2>2, Zenon DEF SInv, GtkCurrent
  <2>4. \A g \in Frames(toAp) : g.mic = ap.ptk /\ g.type = "g2" => g.rc # ap.rc + 1
    BY <2>1, Zenon DEF SInv, GtkCurrent
  <2> QED BY <1>1, <1>2, <1>3, <1>8, <2>3, <2>4, Zenon DEF SInv, GtkAcked
<1> QED BY <1>8, <1>9, <1>11, <1>12, <1>13, Zenon DEF SInv

\* Message 2 makes the access point derive the key of the handshake, whose
\* ANonce no key known to the station has: nothing under way is taken for a
\* frame of the new key.
LEMMA ApMessage2SInv ==
  ASSUME SInv, IInv', ApReceive, setup' = setup,
         NEW m, m = Head(toAp), ApTakes(m), m.type = "m2"
  PROVE  SInv'
<1>1. toAp # <<>> /\ toAp' = Tail(toAp) /\ UNCHANGED <<vars, state, linkVars, keyVars, spent>>
  BY Zenon DEF ApReceive, staVars
<1>2. /\ UNCHANGED <<present, ptk, tptk, drawn, proved, kernel, ft_msg1, state, spent, setup>>
      /\ spent \in Spending /\ ap \in ApState
  BY <1>1, Zenon DEF vars, fwFields, linkVars, keyVars, SInv, STypeOK
<1>3. toAp' \in Seq(ApFrame) /\ Frames(toAp') \subseteq Frames(toAp) /\ m \in Frames(toAp)
  BY <1>1, FramesTail, Zenon DEF SInv, STypeOK
<1>4. m.mic \in Ptk /\ m.mic[2] <= drawn
  BY <1>3, FrameTypes, Zenon DEF SInv, Nonces
<1>5. ap.phase = "m1" /\ m.mic[1] = ap.an
  BY Zenon DEF ApTakes
<1>6. /\ spent.assoc \in Nat /\ spent.rekey \in Nat /\ spent.starts \in Nat
      /\ spent.retry \in Nat /\ spent.group \in Nat /\ ap.rc \in Nat /\ ap.gtk \in Nat
  BY <1>2, Zenon DEF Spending, ApState
<1>7. /\ ap.an = spent.starts /\ ap.an > 0
      /\ spent.assoc <= setup.max.assoc /\ spent.rekey <= setup.max.rekey
      /\ spent.retry <= setup.max.retry /\ spent.group <= setup.max.group
      /\ spent.starts <= spent.assoc + spent.rekey
      /\ ap.rc < 2 * spent.starts + spent.retry + spent.group
  BY <1>5, Zenon DEF SInv, Budget
<1>8. ap.an \in ANonce /\ ap.rc + 1 \in Counter
  <2>1. /\ setup.max.assoc \in Nat /\ setup.max.rekey \in Nat
        /\ setup.max.retry \in Nat /\ setup.max.group \in Nat
    BY Limits, Zenon DEF SInv
  <2>2. ap.rc + 1 <= 2 * (setup.max.assoc + setup.max.rekey) + setup.max.retry + setup.max.group
    BY <1>6, <1>7, <2>1
  <2> QED BY <1>6, <1>7, <2>1, <2>2, Limits, SMTT(30) DEF SInv
<1>9. PICK key \in Key : key = m.mic /\ key \in Ptk
  BY <1>4, Zenon DEF Key
<1> DEFINE next == [ap EXCEPT !.phase = "m3", !.ptk = key, !.sent = {}]
<1>10. next = [ap EXCEPT !.phase = "m3", !.ptk = key, !.sent = {}] /\ ApSend("m3", key, next)
  BY <1>9, Zenon DEF ApReceive
<1> HIDE DEF next
<1>11. /\ next \in ApState /\ next.phase = "m3" /\ next.rc = ap.rc /\ next.an = ap.an
       /\ next.ptk = key /\ next.gtk = ap.gtk /\ next.acked = ap.acked
       /\ next.gsent = ap.gsent
  BY <1>2, <1>10, Zenon DEF ApState
<1>12. PICK f : f = SentFrame("m3", key, next)
  BY Zenon
<1>13. /\ ap'.phase = "m3" /\ ap'.rc = ap.rc + 1 /\ ap'.an = ap.an
       /\ ap'.ptk = key /\ ap'.gtk = ap.gtk /\ ap'.acked = ap.acked
       /\ ap'.gsent = ap.gsent
       /\ f.type = "m3" /\ f.rc = ap.rc + 1 /\ f.mic = key /\ f.gtk = ap.gtk
       /\ Frames(toSta') = Frames(toSta) \cup {f}
       /\ STypeOK' /\ GtkOrder'
  <2>1. ap.gtk <= next.gtk /\ next.an \in ANonce /\ next.rc + 1 \in Counter
    BY <1>6, <1>8, <1>11
  <2>2. Sendable(next) /\ SendsOnly /\ "m3" \in {"m1", "m3", "g1"}
    BY <1>2, <1>3, <1>11, <2>1, Zenon DEF Sendable, SendsOnly
  <2>3. ApSent("m3", key, next, f)
    BY <1>10, <1>12, <2>2, ApSendFacts, Zenon
  <2> QED BY <1>11, <2>3, Zenon DEF ApSent
<1>14. Budget'
  <2>1. ap'.rc <= 2 * spent'.starts + spent'.retry + spent'.group
    BY <1>2, <1>6, <1>7, <1>13, SMTT(30)
  <2> QED BY <1>2, <1>7, <1>13, <2>1, Zenon DEF Budget
<1>15. \A k : KnownKey(k) => KnownKey(k)' /\ k # key
  BY <1>2, <1>5, <1>7, <1>6, <1>9, <1>13, SMTT(90) DEF KnownKey
<1>16. KnownKey(key)'
  BY <1>2, <1>4, <1>5, <1>6, <1>7, <1>9, <1>13, SMTT(90) DEF KnownKey
<1>17. Nonces'
  <2>1. key # NoPtk
    BY <1>9, FourWayAssumption, Zenon
  <2> QED BY <1>2, <1>3, <1>13, <1>15, <1>16, <2>1, Zenon DEF SInv, Nonces
<1>18. StagedIsCurrent'
  BY <1>2, <1>5, <1>13, Zenon DEF SInv, StagedIsCurrent
<1>19. Agreement'
  <2>1. key \notin proved
    BY <1>15, Zenon DEF SInv, Nonces
  <2> QED BY <1>2, <1>13, <2>1, Zenon DEF SInv, Agreement
<1>20. \A g \in Frames(toSta) : g.type # "m1" => g.mic # key
  BY <1>15, Zenon DEF SInv, Nonces
<1>21. \A g \in Frames(toAp') : g.type # "m2" => g.mic # key
  BY <1>3, <1>15, Zenon DEF SInv, Nonces
<1>22. GtkCurrent'
  <2>1. ap'.rc <= ap'.rc
    BY <1>6, <1>13, SMTT(30)
  <2> QED BY <1>13, <1>20, <1>21, <2>1, Zenon DEF GtkCurrent
<1>23. GtkAcked'
  BY <1>2, <1>13, <1>21, Zenon DEF SInv, GtkAcked
<1> QED BY <1>13, <1>14, <1>17, <1>18, <1>19, <1>22, <1>23, Zenon DEF SInv

\* Message 4 and the acknowledgement of a GTK preserve the invariant: both
\* come from a station that has the key promoted and the GTK installed.
LEMMA ApAckSInv ==
  ASSUME SInv, IInv', ApReceive, setup' = setup,
         NEW m, m = Head(toAp), ApTakes(m), m.type = "m4" \/ m.type = "g2"
  PROVE  SInv'
<1>1. /\ toAp # <<>> /\ toAp' = Tail(toAp)
      /\ UNCHANGED <<vars, state, linkVars, keyVars, toSta, spent>>
  BY Zenon DEF ApReceive, staVars
<1>2. /\ UNCHANGED <<present, ptk, tptk, drawn, proved, kernel, ft_msg1, state, toSta, spent,
                     setup>>
      /\ ap \in ApState
  BY <1>1, Zenon DEF vars, fwFields, linkVars, keyVars, SInv, STypeOK
<1>3. toAp' \in Seq(ApFrame) /\ Frames(toAp') \subseteq Frames(toAp) /\ m \in Frames(toAp)
  BY <1>1, FramesTail, Zenon DEF SInv, STypeOK
<1>4. m.mic = ap.ptk /\ m.mic \in proved
  BY <1>3, Zenon DEF ApTakes, SInv, Nonces
<1>5. /\ ap' \in ApState
      /\ ap'.rc = ap.rc /\ ap'.an = ap.an /\ ap'.ptk = ap.ptk /\ ap'.gtk = ap.gtk
      /\ ap'.acked = ap.gtk /\ ap'.gsent \subseteq ap.gsent
      /\ \/ m.type = "m4" /\ ap.phase = "m3" /\ ap'.phase = "done"
         \/ m.type = "g2" /\ m.rc \in ap.gsent /\ ap'.phase = ap.phase
  <2>1. ap.gtk \in Nat /\ {} \in SUBSET Nat
    BY <1>2, Zenon DEF ApState
  <2>2. CASE m.type = "m4"
    <3>1. ap.phase = "m3" /\ ap' = [ap EXCEPT !.phase = "done", !.sent = {}, !.acked = ap.gtk]
      BY <2>2, Zenon DEF ApTakes, ApReceive
    <3> QED BY <1>2, <2>1, <2>2, <3>1, Zenon DEF ApState
  <2>3. CASE m.type = "g2"
    <3>1. m.rc \in ap.gsent /\ ap' = [ap EXCEPT !.gsent = {}, !.acked = ap.gtk]
      BY <2>3, Zenon DEF ApTakes, ApReceive
    <3> QED BY <1>2, <2>1, <2>3, <3>1, Zenon DEF ApState
  <2> QED BY <2>2, <2>3, Zenon
<1>6. STypeOK'
  BY <1>2, <1>3, <1>5, Zenon DEF SInv, STypeOK
<1>7. Budget'
  BY <1>2, <1>5, SMTT(90) DEF SInv, Budget
<1>8. \A k : KnownKey(k) => KnownKey(k)'
  BY <1>2, <1>5, SMTT(90) DEF KnownKey
<1>9. Nonces'
  BY <1>2, <1>3, <1>5, <1>8, Zenon DEF SInv, Nonces
<1>10. StagedIsCurrent'
  <2>1. m.type = "m4" => ap.ptk # tptk \/ tptk = NoPtk
    BY <1>4, Zenon DEF SInv, IInv, Staged
  <2>2. \A g \in Frames(toSta) : g.type = "m3" => g.mic # NoPtk
    BY FourWayAssumption, Zenon DEF SInv, Nonces, KnownKey
  <2> QED BY <1>2, <1>5, <2>1, <2>2, SMTT(90) DEF SInv, StagedIsCurrent
<1>11. Agreement'
  BY <1>2, <1>4, <1>5, Zenon DEF SInv, Agreement
<1>12. ap.gtk \in Nat
  BY <1>2, SMTT(30) DEF ApState
<1>13. GtkOrder' /\ GtkCurrent'
  BY <1>2, <1>3, <1>5, <1>12, SMTT(90) DEF SInv, GtkOrder, GtkCurrent
<1>14. GtkAcked'
  <2>1. spent.fail = 0 => kernel.gtk = ap.gtk
    BY <1>3, <1>4, <1>5, Zenon DEF SInv, GtkAcked
  <2> QED BY <1>2, <1>5, <1>12, <2>1, SMTT(90) DEF GtkAcked
<1> QED BY <1>6, <1>7, <1>9, <1>10, <1>11, <1>13, <1>14, Zenon DEF SInv

\* Whatever reply the access point reads, the invariant is preserved.
LEMMA ApReceiveSInv ==
  ASSUME SInv, IInv', ApReceive, setup' = setup
  PROVE  SInv'
<1> DEFINE m == Head(toAp)
<1>1. toAp # <<>> /\ m \in ApFrame
  BY FramesTail, Zenon DEF ApReceive, SInv, STypeOK
<1>2. m.type \in {"m2", "m4", "g2"}
  BY <1>1, Zenon DEF ApFrame
<1>3. CASE ApTakes(m)
  BY <1>2, <1>3, ApMessage2SInv, ApAckSInv, Zenon
<1>4. CASE ~ApTakes(m)
  <2>1. /\ UNCHANGED <<vars, state, linkVars, keyVars, toSta, ap, spent>>
        /\ toAp' = Tail(toAp)
    BY <1>4, Zenon DEF ApReceive, staVars
  <2>2. /\ UNCHANGED <<present, ptk, tptk, drawn, proved, kernel, ap, setup>>
        /\ toSta' = toSta /\ state' = state /\ ft_msg1' \in Seq(StaFrame) /\ SameBudget
    BY <2>1, Zenon DEF vars, fwFields, linkVars, keyVars, SInv, STypeOK, SameBudget
  <2> QED BY <1>1, <2>1, <2>2, QuietStep, Zenon
<1> QED BY <1>3, <1>4, Zenon

\* An access point that gives up the handshake preserves the invariant.
LEMMA GiveUpSInv ==
  ASSUME SInv, IInv', ApGiveUp, setup' = setup
  PROVE  SInv'
<1>1. /\ UNCHANGED <<vars, kernel, ft_msg1, toSta, toAp, spent>>
      /\ ap' = [IdleAp EXCEPT !.phase = "gone", !.gtk = ap.gtk] /\ state' # "Connected"
  BY Zenon DEF ApGiveUp, HandleApDisconnect, Fail
<1>2. UNCHANGED <<present, ptk, tptk, drawn, proved, kernel, ft_msg1, toSta, toAp, spent, setup>>
  BY <1>1, Zenon DEF vars, fwFields
<1>3. /\ ap' \in ApState /\ ap'.phase = "gone" /\ ap'.rc = 0 /\ ap'.ptk = NoPtk
      /\ ap'.gtk = ap.gtk /\ ap'.acked = 0 /\ ap.gtk \in Nat /\ kernel.gtk \in Nat
  BY <1>1, Zenon DEF SInv, STypeOK, ApState, IdleAp, Key
<1>4. STypeOK'
  BY <1>2, <1>3, Zenon DEF SInv, STypeOK
<1>5. Budget'
  <2>1. /\ spent.starts \in Nat /\ spent.retry \in Nat /\ spent.group \in Nat
    BY Zenon DEF SInv, STypeOK, Spending
  <2> QED BY <1>1, <1>2, <1>3, <2>1 DEF SInv, Budget
<1>6. \A k : KnownKey(k) => KnownKey(k)'
  BY <1>2, <1>3, Zenon DEF KnownKey
<1>7. Nonces'
  BY <1>2, <1>3, <1>6, Zenon DEF SInv, Nonces
<1>8. StagedIsCurrent' /\ Agreement'
  BY <1>1, <1>2, <1>3, Zenon DEF StagedIsCurrent, Agreement
<1>9. GtkOrder'
  BY <1>2, <1>3, SMTT(30) DEF SInv, GtkOrder
<1>10. GtkCurrent' /\ GtkAcked'
  <2>1. \A g \in Frames(toSta) : g.type # "m1" => g.mic # NoPtk
    BY FourWayAssumption, Zenon DEF SInv, Nonces, KnownKey
  <2>2. \A g \in Frames(toAp) : g.mic # NoPtk
    BY FourWayAssumption, FrameTypes, Zenon DEF SInv
  <2> QED BY <1>2, <1>3, <2>1, <2>2, SMTT(90) DEF GtkCurrent, GtkAcked
<1> QED BY <1>4, <1>5, <1>7, <1>8, <1>9, <1>10, Zenon DEF SInv

\* A GTK rekey done by the driver preserves the invariant.
LEMMA DriverSInv ==
  ASSUME SInv, IInv', DriverRekey, setup' = setup
  PROVE  SInv'
<1>1. /\ CanSpend("group") /\ Spend("group") /\ ap.phase = "done"
      /\ toSta = <<>> /\ toAp = <<>>
      /\ ap' = [ap EXCEPT !.rc = ap.rc + 1, !.gtk = ap.gtk + 1, !.acked = ap.gtk + 1]
      /\ kernel' = [kernel EXCEPT !.gtk = ap.gtk + 1]
      /\ UNCHANGED <<present, ptk, tptk, drawn, proved, state, ft_msg1, toSta, toAp, setup>>
  BY Zenon DEF DriverRekey, UpdateReplayCounter, linkVars
<1>2. ap \in ApState /\ ap.gtk \in Nat /\ ap.rc \in Nat /\ kernel \in [ptk : Key, gtk : Nat]
  BY Zenon DEF SInv, STypeOK, ApState
<1>3. /\ ap' \in ApState /\ ap'.phase = ap.phase /\ ap'.rc = ap.rc + 1 /\ ap'.an = ap.an
      /\ ap'.ptk = ap.ptk /\ ap'.gtk = ap.gtk + 1 /\ ap'.acked = ap.gtk + 1
  <2>1. PICK n \in Nat, c \in Nat : n = ap.gtk + 1 /\ c = ap.rc + 1
    BY <1>2
  <2>2. ap' = [ap EXCEPT !.rc = c, !.gtk = n, !.acked = n]
    BY <1>1, <2>1, Zenon
  <2> QED BY <1>2, <2>1, <2>2, Zenon DEF ApState
<1>4. /\ kernel' \in [ptk : Key, gtk : Nat] /\ kernel'.ptk = kernel.ptk
      /\ kernel'.gtk = ap.gtk + 1
  BY <1>1, <1>2
<1>5. spent' \in Spending /\ spent'.starts = spent.starts
  BY <1>1, SpendFacts, Zenon
<1>6. Frames(toSta) = {} /\ Frames(toAp) = {} /\ GtksGrow(toSta)
  BY <1>1 DEF Frames, GtksGrow
<1>7. STypeOK'
  BY <1>1, <1>3, <1>4, <1>5, Zenon DEF SInv, STypeOK
<1>8. Budget'
  BY <1>1, <1>3, SpendBudget, Zenon
<1>9. \A k : KnownKey(k) => KnownKey(k)'
  BY <1>1, <1>3, <1>5, Zenon DEF KnownKey
<1>10. Nonces'
  BY <1>1, <1>3, <1>6, <1>9, Zenon DEF SInv, Nonces
<1>11. StagedIsCurrent' /\ Agreement'
  BY <1>1, <1>3, <1>4, <1>6 DEF SInv, StagedIsCurrent, Agreement
<1>12. GtkOrder' /\ GtkCurrent' /\ GtkAcked'
  BY <1>1, <1>2, <1>3, <1>4, <1>6 DEF GtkOrder, GtkCurrent, GtkAcked
<1> QED BY <1>7, <1>8, <1>10, <1>11, <1>12, Zenon DEF SInv

---------------------------------------------------------------------------
\* Every step of the system preserves the invariant.
LEMMA NextSInv == SInv /\ [SNext]_svars => SInv'
<1> SUFFICES ASSUME SInv, [SNext]_svars PROVE SInv'
  BY Zenon
<1>1. IInv'
  BY StepRefines, NextIInv, Zenon DEF SInv
<1>2. CASE SNext
  <2>1. setup' = setup
    BY <1>2, Zenon DEF SNext
  <2> QED BY <1>1, <1>2, <2>1, TimeoutSInv, ReceiveSInv, AssociatedSInv, HandshakeSInv,
             RetrySInv, ApGroupSInv, ApReceiveSInv, GiveUpSInv, DriverSInv, Zenon DEF SNext
<1>3. CASE UNCHANGED svars
  <2>1. /\ UNCHANGED <<vars, state, linkVars, keyVars, toSta, toAp, ap, spent, setup>>
    BY <1>3, Zenon DEF svars
  <2>2. /\ UNCHANGED <<present, ptk, tptk, drawn, proved, kernel, ap, setup>>
        /\ toSta' = toSta /\ toAp' = toAp /\ state' = state
        /\ ft_msg1' \in Seq(StaFrame) /\ SameBudget
    BY <2>1, Zenon DEF vars, fwFields, linkVars, keyVars, SInv, STypeOK, SameBudget
  <2> QED BY <1>1, <2>2, QuietStep, Zenon
<1> QED BY <1>2, <1>3, Zenon

\* The inductive invariant of the supplicant holds in every reachable state.
THEOREM SInvInvariant == SSpec => []SInv
  BY InitSInv, NextSInv, PTL DEF SSpec

\* The handler runs FourWayState only through its operations: the supplicant
\* and its access point implement the abstract handshake, whatever the
\* network, the link and the number of retries.
THEOREM SupplicantImplementsFourWay == SSpec => ImplementsFourWay
<1>1. SInit => Init
  BY Zenon DEF SInit
<1>2. SInv /\ [SNext]_svars => [Next]_vars
  BY StepRefines, Zenon
<1> QED BY <1>1, <1>2, SInvInvariant, PTL DEF SSpec, Spec, ImplementsFourWay

\* What holds of every FourWayState holds under the handler: a key is live
\* only after a valid Message 3, and is never installed a second time.
THEOREM NoKeyReinstalled == SSpec => [](PtkProved /\ NoReinstall /\ NoReplay)
  BY SupplicantImplementsFourWay, LivePtkProved, NeverReinstalls, NeverReplayed, PTL
     DEF ImplementsFourWay

\* A connected station encrypts with its live PTK, which is the one of the
\* access point once the handshake is over for both.
THEOREM PtkAlwaysAgreed == SSpec => []PtkAgreed
<1>1. SInv => PtkAgreed
  BY Zenon DEF SInv, Agreement, PtkAgreed
<1> QED BY <1>1, SInvInvariant, PTL

\* The kernel has every GTK that the access point saw acknowledged, unless a
\* request to the kernel failed.
THEOREM GtkAlwaysAgreed == SSpec => []GtkAgreed
<1>1. SInv => GtkAgreed
  BY Zenon DEF SInv, GtkAcked, GtkAgreed
<1> QED BY <1>1, SInvInvariant, PTL
=============================================================================
