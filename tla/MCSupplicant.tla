---------------------------- MODULE MCSupplicant ----------------------------
(* Instances of Supplicant for TLC. *)
EXTENDS Supplicant

\* Above every counter the AP reaches within the bounds.
MCCounter == 0..14

MCANonce == 1..6

\* WPA3 over nl80211 with GTK rekey offload: frames may outlive the attempt
\* that they belong to.
Slow == [security |-> "sae", raw_port |-> FALSE, offload |-> TRUE, any_outstanding |-> TRUE,
         group_during_ptk |-> TRUE, prompt |-> FALSE,
         max |-> [assoc |-> 2, rekey |-> 1, retry |-> 1, group |-> 1, loss |-> 1, fail |-> 1]]

\* Fast transition over a packet socket: enough attempts for every mishap.
Fast == [security |-> "ft", raw_port |-> TRUE, offload |-> FALSE, any_outstanding |-> TRUE,
         group_during_ptk |-> FALSE, prompt |-> TRUE,
         max |-> [assoc |-> 5, rekey |-> 1, retry |-> 1, group |-> 1, loss |-> 1, fail |-> 1]]

\* One retransmission, and an AP that takes the reply to its last frame only.
Strict == [security |-> "sae", raw_port |-> FALSE, offload |-> FALSE, any_outstanding |-> FALSE,
           group_during_ptk |-> FALSE, prompt |-> TRUE,
           max |-> [assoc |-> 2, rekey |-> 0, retry |-> 1, group |-> 0, loss |-> 1, fail |-> 0]]

MCSetups == {Slow, Fast}
MCStrict == {Strict}
=============================================================================
