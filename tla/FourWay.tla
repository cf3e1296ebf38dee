------------------------------ MODULE FourWay ------------------------------
(***************************************************************************)
(* The supplicant side of the WPA 4-way and group key handshakes, as kept  *)
(* in FourWayState (wifi/crypto/handshake4.rs).  A pairwise transient key  *)
(* (PTK) is abstracted to the pair of nonces it is derived from: the PMK   *)
(* and the two MAC addresses are fixed for one FourWayState, so two PTKs   *)
(* are equal exactly when their nonces are.  A MIC is abstracted to the    *)
(* PTK whose KCK computed it.  An SNonce drawn from the RNG is a number    *)
(* never drawn before.                                                     *)
(*                                                                         *)
(* The environment is unconstrained: every action takes any frame.  The    *)
(* honest access point and the handler that calls these operations are in  *)
(* Supplicant, whose specification is shown to implement this one.         *)
(***************************************************************************)
EXTENDS Integers

CONSTANTS
    ANonce,     \* nonces an authenticator may send
    Counter,    \* EAPOL-Key replay counters (all of u64 in the code)
    NoNonce,    \* anonce: None
    NoPtk,      \* ptk / tptk: None
    MaxDraw     \* bound on the SNonces drawn

\* A PTK is <<anonce, snonce>>.
Ptk == ANonce \X Nat

ASSUME FourWayAssumption ==
    /\ Counter \subseteq Nat
    /\ MaxDraw \in Nat
    /\ NoNonce \notin ANonce
    /\ NoPtk \notin Ptk

\* pending_replay_counter: None
NoCounter == -1

VARIABLES
    present,                \* link.fourway.is_some()
    anonce,                 \* the fields of FourWayState
    snonce,
    ptk,
    tptk,
    replay_counter,
    replay_counter_set,
    pending_replay_counter,
    drawn,                  \* how many SNonces the RNG has produced
    proved,                 \* history: PTKs a verified Message 3 (or FT) vouched for
    accepted,               \* history: counters of the MIC-verified frames of this
                            \* state since the counter was last overwritten
    replayed                \* history: a MIC-verified frame did not have a counter
                            \* above all those accepted before it

fwFields == <<anonce, snonce, ptk, tptk, replay_counter, replay_counter_set,
              pending_replay_counter>>
vars == <<present, fwFields, drawn, proved, accepted, replayed>>

TypeOK ==
    /\ present \in BOOLEAN
    /\ anonce \in ANonce \cup {NoNonce}
    /\ snonce \in Nat
    /\ ptk \in Ptk \cup {NoPtk}
    /\ tptk \in Ptk \cup {NoPtk}
    /\ replay_counter \in Nat
    /\ replay_counter_set \in BOOLEAN
    /\ pending_replay_counter \in Nat \cup {NoCounter}
    /\ drawn \in Nat
    /\ proved \subseteq Ptk
    /\ accepted \subseteq Nat
    /\ replayed \in BOOLEAN

Init ==
    /\ present = FALSE
    /\ anonce = NoNonce
    /\ snonce = 0
    /\ ptk = NoPtk
    /\ tptk = NoPtk
    /\ replay_counter = 0
    /\ replay_counter_set = FALSE
    /\ pending_replay_counter = NoCounter
    /\ drawn = 0
    /\ proved = {}
    /\ accepted = {}
    /\ replayed = FALSE

---------------------------------------------------------------------------
\* getrandom::fill(&mut snonce)
Draw ==
    /\ drawn < MaxDraw
    /\ drawn' = drawn + 1

\* handshake_ptk: the key that verifies a 4-way frame; the committed PTK
\* (ptk) verifies group frames.
HandshakePtk == IF tptk # NoPtk THEN tptk ELSE ptk

DuplicateMessage1(an, rc) ==
    pending_replay_counter = rc /\ anonce = an

\* The two early returns of process_message_1.
Message1Accepted(an, rc) ==
    /\ replay_counter_set => rc > replay_counter
    /\ pending_replay_counter = rc => DuplicateMessage1(an, rc)

\* The first Message 1 of an association: handle_control_port_frame builds
\* the FourWayState and process_message_1, which cannot fail on it, runs.
FirstMessage1(an, rc) ==
    /\ ~present
    /\ present' = TRUE
    /\ Draw
    /\ anonce' = an
    /\ snonce' = drawn'
    /\ tptk' = <<an, snonce'>>
    /\ pending_replay_counter' = rc
    /\ ptk' = NoPtk
    /\ replay_counter' = 0
    /\ replay_counter_set' = FALSE
    /\ accepted' = {}
    /\ UNCHANGED <<proved, replayed>>

\* BUG: the PTK of an unauthenticated Message 1 goes live at once.
BugNextMessage1(an, rc) ==
    /\ present
    /\ Message1Accepted(an, rc)
    /\ Draw
    /\ snonce' = drawn'
    /\ anonce' = an
    /\ pending_replay_counter' = rc
    /\ ptk' = <<an, snonce'>>
    /\ UNCHANGED <<present, tptk, replay_counter, replay_counter_set, proved,
                   accepted, replayed>>

\* process_message_1 on an existing state: a Message 1 retransmission (same
\* counter and ANonce) keeps the SNonce, any other starts a new handshake.
\* The new PTK is only staged.
NextMessage1(an, rc) ==
    /\ present
    /\ Message1Accepted(an, rc)
    /\ IF DuplicateMessage1(an, rc)
          THEN UNCHANGED <<drawn, snonce>>
          ELSE Draw /\ snonce' = drawn'
    /\ anonce' = an
    /\ pending_replay_counter' = rc
    /\ tptk' = <<an, snonce'>>
    /\ UNCHANGED <<present, ptk, replay_counter, replay_counter_set, proved,
                   accepted, replayed>>

---------------------------------------------------------------------------
\* What process_message_3 verifies before it commits anything.  mic is the
\* PTK whose KCK the sender used.
Message3Fresh(rc) ==
    /\ pending_replay_counter # NoCounter
    /\ rc >= pending_replay_counter
    /\ replay_counter_set => rc > replay_counter

Message3Verified(an, rc, mic) ==
    /\ Message3Fresh(rc)
    /\ anonce = an
    /\ HandshakePtk # NoPtk
    /\ mic = HandshakePtk

\* The counter of a MIC-verified frame is consumed at once.
AcceptCounter(rc) ==
    /\ replay_counter' = rc
    /\ replay_counter_set' = TRUE
    /\ accepted' = accepted \cup {rc}
    /\ replayed' = (replayed \/ \E c \in accepted : rc <= c)

\* BUG: an accepted Message 3 does not end the exchange.
BugMessage3(an, rc, mic) ==
    /\ present
    /\ Message3Verified(an, rc, mic)
    /\ AcceptCounter(rc)
    /\ proved' = proved \cup {mic}
    /\ ptk' = tptk
    /\ UNCHANGED <<present, anonce, snonce, tptk, pending_replay_counter, drawn>>

\* process_message_3 succeeds: the staged PTK becomes the live one.
Message3(an, rc, mic) ==
    /\ present
    /\ Message3Verified(an, rc, mic)
    /\ AcceptCounter(rc)
    /\ pending_replay_counter' = NoCounter
    /\ proved' = proved \cup {mic}
    /\ ptk' = IF tptk # NoPtk THEN tptk ELSE ptk
    /\ tptk' = NoPtk
    /\ UNCHANGED <<present, anonce, snonce, drawn>>

\* The MIC verifies and the key data does not (not encrypted, not unwrapped,
\* wrong OCI, Key ID, RSNE or RSNXE): the counter is consumed and the PTK
\* stays staged.
Message3BadKeyData(an, rc, mic) ==
    /\ present
    /\ Message3Verified(an, rc, mic)
    /\ AcceptCounter(rc)
    /\ pending_replay_counter' = NoCounter
    /\ UNCHANGED <<present, anonce, snonce, ptk, tptk, drawn, proved>>

GroupVerified(rc, mic) ==
    /\ rc > replay_counter
    /\ ptk # NoPtk
    /\ mic = ptk

\* process_group_rekey from its MIC check on.  Bad key data changes the same
\* fields: only the GTK, which FourWayState merely stores, differs.
GroupRekey(rc, mic) ==
    /\ present
    /\ GroupVerified(rc, mic)
    /\ AcceptCounter(rc)
    /\ UNCHANGED <<present, anonce, snonce, ptk, tptk, pending_replay_counter,
                   drawn, proved>>

---------------------------------------------------------------------------
\* update_replay_counter: the driver reports the counter of a GTK rekey it
\* did itself.  It is believed as it stands.
UpdateReplayCounter(rc) ==
    /\ present
    /\ replay_counter' = rc
    /\ replay_counter_set' = TRUE
    /\ accepted' = {}
    /\ UNCHANGED <<present, anonce, snonce, ptk, tptk, pending_replay_counter,
                   drawn, proved, replayed>>

\* An FT roam: new_ft followed by set_ptk with the PTK of the FT exchange,
\* whose nonces are fresh.
FtRoam(an) ==
    /\ present' = TRUE
    /\ Draw
    /\ ptk' = <<an, drawn'>>
    /\ proved' = proved \cup {ptk'}
    /\ anonce' = NoNonce
    /\ snonce' = 0
    /\ tptk' = NoPtk
    /\ replay_counter' = 0
    /\ replay_counter_set' = FALSE
    /\ pending_replay_counter' = NoCounter
    /\ accepted' = {}
    /\ UNCHANGED replayed

\* BUG: the state outlives the association, only its counter is reset.
BugForget ==
    /\ replay_counter' = 0
    /\ replay_counter_set' = FALSE
    /\ UNCHANGED <<present, anonce, snonce, ptk, tptk, pending_replay_counter,
                   drawn, proved, accepted, replayed>>

\* link.fourway = None (send_out_auth_request, reset_for_update).
Forget ==
    /\ present' = FALSE
    /\ anonce' = NoNonce
    /\ snonce' = 0
    /\ ptk' = NoPtk
    /\ tptk' = NoPtk
    /\ replay_counter' = 0
    /\ replay_counter_set' = FALSE
    /\ pending_replay_counter' = NoCounter
    /\ accepted' = {}
    /\ UNCHANGED <<drawn, proved, replayed>>

\* A frame's MIC is computed with the KCK of some PTK.  A frame whose checks
\* fail changes no field.
Frame ==
    \E an \in ANonce, rc \in Counter, mic \in ANonce \X (0..drawn) :
        \/ Message3(an, rc, mic)
        \/ Message3BadKeyData(an, rc, mic)
        \/ GroupRekey(rc, mic)

Next ==
    \/ \E an \in ANonce, rc \in Counter :
          FirstMessage1(an, rc) \/ NextMessage1(an, rc)
    \/ Frame
    \/ \E rc \in Counter : UpdateReplayCounter(rc)
    \/ \E an \in ANonce : FtRoam(an)
    \/ Forget

Spec == Init /\ [][Next]_vars

---------------------------------------------------------------------------
\* The live PTK is one that a Message 3 with a valid MIC (or the FT exchange)
\* vouched for, whatever Message 1s arrive: process_message_1 only stages
\* the key it derives and process_message_3 promotes it.
PtkProved == ptk # NoPtk => ptk \in proved

\* No PTK is ever promoted twice, in this or an earlier FourWayState: while
\* a Message 3 can still be accepted, the key it would promote has never
\* been the live one.  Promoting it again would reinstall the key in the
\* kernel and restart its packet numbers.
NoReinstall == pending_replay_counter # NoCounter => HandshakePtk \notin proved

\* Between two reports of the driver, the frames whose MIC was verified
\* (Message 3s and group frames together) had strictly increasing replay
\* counters, whatever the interleaving of the two handshakes.
NoReplay == ~replayed
=============================================================================
