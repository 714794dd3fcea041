------------------------------- MODULE MCShared -------------------------------
(***************************************************************************)
(* Two swaps paid over Lightning whose server legs share one observed      *)
(* contract, ended by the statuses the server pushes.                      *)
(***************************************************************************)
EXTENDS TrackerLiveness

CONSTANTS s1, s2

EvmLock == [rail |-> "Evm", timelock |-> [kind |-> "Timestamp", at |-> 6]]
Shows(state, n) == [state |-> state, point |-> [height |-> n, timestamp |-> n]]

MCContracts == [s \in Swaps |-> [client |-> NoLeg, server |-> EvmLock]]
MCWatchKeys == [s \in Swaps |-> {"shared"}]

MCOptions == {[autoClaim |-> FALSE, autoCctp |-> FALSE,
               collaborativeRefundAvailable |-> FALSE, bridge |-> "None"]}

MCViews == {[client |-> NoObservation, server |-> Shows("Absent", 1), stored |-> "Pending"]}
==============================================================================
