---------------------------- MODULE MCActionInputs ----------------------------
(***************************************************************************)
(* Clocks of 0 .. 7 around timelocks whose margins and grace fit, touch    *)
(* and overflow the largest value.                                         *)
(***************************************************************************)
EXTENDS ActionInputs

MCClientRefs == {NoLeg,
                 [rail |-> "Arkade", timelock |-> [kind |-> "MedianTime", at |-> 4]],
                 [rail |-> "Bitcoin", timelock |-> [kind |-> "Height", at |-> 6]]}

MCServerRefs == {NoLeg,
                 [rail |-> "Evm", timelock |-> [kind |-> "Timestamp", at |-> 6]],
                 [rail |-> "Bitcoin", timelock |-> [kind |-> "Height", at |-> 7]]}

MCPoints == {NoPoint} \union {[height |-> t, timestamp |-> t] : t \in {1, 4, 6, 7}}

MCBridges == {"None", "CctpAttested", "OutboundFailed"}

MCStatuses == {"ServerWontFund", "ClientFunded"}
==============================================================================
