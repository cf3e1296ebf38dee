------------------------------- MODULE MCMka --------------------------------
(* Small instances of Mka for TLC. *)
EXTENDS Mka

MCPriority == [n \in Node |-> 0]
=============================================================================
