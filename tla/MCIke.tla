------------------------------- MODULE MCIke -------------------------------
(* Two hosts that run one IPsec connection.                                  *)
EXTENDS Ike

CONSTANTS a, b   \* the hosts
=============================================================================
