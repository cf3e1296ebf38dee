------------------------------- MODULE MCEap -------------------------------
(* The wired 802.1X port with flights of up to two fragments.                *)
EXTENDS Eap
=============================================================================
