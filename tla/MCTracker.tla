------------------------------ MODULE MCTracker ------------------------------
(***************************************************************************)
(* A swap paid over Lightning and claimed on an EVM chain, and one funded  *)
(* from an EVM chain through CCTP and claimed on Bitcoin, in which both    *)
(* automatic actions arise.                                                *)
(***************************************************************************)
EXTENDS TrackerLiveness

CONSTANTS s1

EvmLock == [rail |-> "Evm", timelock |-> [kind |-> "Timestamp", at |-> 6]]
BitcoinLock == [rail |-> "Bitcoin", timelock |-> [kind |-> "Height", at |-> 4]]

At(n) == [height |-> n, timestamp |-> n]
Shows(state, n) == [state |-> state, point |-> At(n)]

MCWatchKeys == [s \in Swaps |-> {"client", "server"}]

Option(claim, cctp, bridge) == [autoClaim |-> claim, autoCctp |-> cctp,
                                collaborativeRefundAvailable |-> FALSE, bridge |-> bridge]

LightningToEvm == [s \in Swaps |-> [client |-> NoLeg, server |-> EvmLock]]
AutoClaim == {Option(TRUE, FALSE, "None")}

LightningView(server) == [client |-> NoObservation, server |-> server, stored |-> "Pending"]
ClaimViews == {LightningView(Shows("Confirmed", 2)), LightningView(Shows("SpentClaim", 3))}

EvmToBitcoin == [s \in Swaps |-> [client |-> EvmLock, server |-> BitcoinLock]]
CctpOptions == {Option(TRUE, TRUE, "CctpAttested"), Option(TRUE, FALSE, "CctpAttested")}

Both(state, n) == [client |-> Shows(state, n), server |-> Shows(state, n), stored |-> "Pending"]
CctpViews == {Both("Absent", 1), Both("Confirmed", 2)}
==============================================================================
