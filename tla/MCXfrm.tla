------------------------------- MODULE MCXfrm -------------------------------
(* Instances of Xfrm for TLC. *)
EXTENDS Xfrm

\* A gateway in tunnel mode and a host-to-host connection in transport mode.
MCConn == {"gw", "host"}
MCGateway == {"gw"}
=============================================================================
