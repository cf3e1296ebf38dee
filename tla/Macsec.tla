------------------------------- MODULE Macsec -------------------------------
(***************************************************************************)
(* The kernel MACsec netdev as src/wired/macsec.rs drives it.              *)
(*                                                                         *)
(* MacsecDevice keeps the desired SA configuration and applies it as a     *)
(* whole after every change, so its state is the SAs the kernel holds:     *)
(*   tx  - the transmit SAs, at most one per association number;           *)
(*   rx  - the receive SAs, each under the secure channel of one SCI;      *)
(*   enc - the association number the netdev encodes with.                 *)
(* SAs carry the Key Identifier, never the key: two SAs hold the same key  *)
(* exactly when their identifiers agree.                                   *)
(***************************************************************************)
EXTENDS Naturals

AN == 0..3

\* create: a new netdev, or a reused one whose stale SAs are cleared.
MacsecCreate == [tx |-> {}, rx |-> {}, enc |-> 0]

\* clear_sas: every TX and RX SA goes, the netdev and its encoding SA stay.
ClearSas(d) == [d EXCEPT !.tx = {}, !.rx = {}]

\* remove_rx_sc, for each SCI of a set: the whole receive channel goes.
RemoveRxScs(d, scis) == [d EXCEPT !.rx = {sa \in @ : sa.sci \notin scis}]

\* install_tx_sa(.., active = false): the same key on the same number is left
\* alone (its packet number must not be reset), any other key is replaced.
InstallTxSa(d, an, ki) ==
    IF \E sa \in d.tx : sa.an = an /\ sa.ki = ki
    THEN d
    ELSE [d EXCEPT !.tx = {sa \in @ : sa.an # an}
                          \union {[an |-> an, ki |-> ki, active |-> FALSE]}]

\* set_tx_sa_active: activate the SA if it is there, and select it either way.
BugSetTxSaActive(d, an) ==
    [d EXCEPT !.tx = {IF sa.an = an THEN [sa EXCEPT !.active = TRUE] ELSE sa
                      : sa \in @}]
SetTxSaActive(d, an) ==
    [d EXCEPT !.tx = {IF sa.an = an THEN [sa EXCEPT !.active = TRUE] ELSE sa
                      : sa \in @},
              !.enc = an]

\* install_rx_sa, for each SCI of a set.
BugInstallNoRxSas(d, scis, an, ki) == d
InstallRxSas(d, scis, an, ki) ==
    [d EXCEPT !.rx = {sa \in @ : ~(sa.sci \in scis /\ sa.an = an)}
                     \union {[sci |-> sci, an |-> an, ki |-> ki] : sci \in scis}]

\* The SA the netdev transmits with: the active one at the encoding number.
TxKeys(d) == {sa.ki : sa \in {t \in d.tx : t.active /\ t.an = d.enc}}
=============================================================================
