----------------------------- MODULE Connection -----------------------------
(***************************************************************************)
(* What a WiFi interface promises those who watch its state: how it may     *)
(* come to be connected, and how it may cease to be.  The state that run()  *)
(* reports is abstracted to a status and the BSS it is about.  A scan that  *)
(* a connected interface makes to find a better BSS does not show.          *)
(*                                                                         *)
(* An interface comes up only on the BSS of its last attempt, and while it  *)
(* is up the BSS does not change.                                           *)
(***************************************************************************)
CONSTANTS Bss, None

VARIABLES
    status,   \* "searching", "joining", "up", "failed" or "rejected"
    bss       \* the BSS of the last attempt

cvars == <<status, bss>>

Down == {"searching", "failed", "rejected"}

CInit == status = "searching" /\ bss = None

\* A scan begins or ends without a result, an attempt ends or cannot even
\* begin, the link ends, the wait after a failure is over.
Fall ==
    /\ status' \in Down
    /\ bss' \in Bss \cup {None}

\* An attempt begins: after a scan, after a failure with the next BSS, or
\* from the link itself when it moves by FT.
Join(b) ==
    /\ status' = "joining"
    /\ bss' = b

\* The attempt succeeds, if need be after it was given up: the answers of
\* an access point can be late.
ComeUp ==
    /\ status # "up" /\ bss # None
    /\ status' = "up"
    /\ UNCHANGED bss

CNext == Fall \/ (\E b \in Bss : Join(b)) \/ ComeUp

CSpec == CInit /\ [][CNext]_cvars
=============================================================================
