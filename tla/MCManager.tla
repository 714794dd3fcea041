------------------------------ MODULE MCManager ------------------------------
(***************************************************************************)
(* Two contracts on one chain that a caller and the monitor read.          *)
(***************************************************************************)
EXTENDS ContractManager

CONSTANTS k1, k2, c1, w1

MCChains == {[k \in Keys |-> v] : v \in Values}
==============================================================================
