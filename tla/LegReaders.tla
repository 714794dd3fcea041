---------------------------- MODULE LegReaders ----------------------------
(***************************************************************************)
(* What the TypeScript swap client makes of one leg's contract on chain:    *)
(* the readers (Esplora or Electrum, an EVM node, the Ark indexer) reduce   *)
(* what is there to an observation, which the leg's contract manager keeps  *)
(* (ts-sdk/packages/swap/src/contracts, tracker/from-swap.ts).              *)
(*                                                                         *)
(* The address or hash is public: several deposits may carry it.  A deposit *)
(* pays 1 (dust), 2 (what the server may lower its payout to) or 3 (the     *)
(* quote); depth 0 is the mempool.                                          *)
(***************************************************************************)
EXTENDS Naturals, Sequences, FiniteSets, SequencesExt

CONSTANTS
    Traded,         \* the directions swapped
    MaxDeposits,    \* deposits that may carry the leg's address or hash
    MaxDepth        \* blocks a deposit may be deep

ASSUME ReaderAssumption == MaxDeposits \in Nat /\ MaxDepth \in Nat \ {0}

VARIABLES
    leg,        \* what swapToTracked expects of the leg
    paid,       \* the deposits, in the chain's order
    required,   \* confirmations the reader's policy asks for
    observed,   \* the manager's observation
    secret      \* the preimage the manager recovered

readerVars == <<leg, paid, required, observed, secret>>

-----------------------------------------------------------------------------
(* swapToTracked: the legs of a direction; floor is the least amount that   *)
(* counts as funded, depth the confirmations pinned (0: the policy's).      *)

ArkadeLeg(floor) == [ledger |-> "arkade", floor |-> floor, depth |-> 0, tuple |-> FALSE, exact |-> 0]
BitcoinLeg(floor, depth) ==
    [ledger |-> "bitcoin", floor |-> floor, depth |-> depth, tuple |-> FALSE, exact |-> 0]
\* tuple: the response names the whole tuple isActive hashes, exact its amount.
EvmLeg(floor, tuple) == [ledger |-> "evm", floor |-> floor, depth |-> 0, tuple |-> tuple, exact |-> 3]

CLIENT_FUNDING_MIN_CONFIRMATIONS == 1
MinServerPayout == 2

ArkadeToEvm == {ArkadeLeg(3), EvmLeg(3, TRUE)}
EvmToArkade == {EvmLeg(0, TRUE), EvmLeg(0, FALSE), ArkadeLeg(MinServerPayout)}
BitcoinToEvm == {BitcoinLeg(3, CLIENT_FUNDING_MIN_CONFIRMATIONS), EvmLeg(3, TRUE)}
EvmToBitcoin == {EvmLeg(0, TRUE), BitcoinLeg(MinServerPayout, 0)}
BtcToArkade == {BitcoinLeg(3, CLIENT_FUNDING_MIN_CONFIRMATIONS), ArkadeLeg(3)}
LightningToEvm == {EvmLeg(3, TRUE)}
LightningToArkade == {ArkadeLeg(3)}
EvmToLightning == {EvmLeg(3, TRUE)}
ArkadeToLightning == {ArkadeLeg(3)}
LightningToBitcoin == {BitcoinLeg(3, 0)}
BitcoinToLightning == {BitcoinLeg(3, CLIENT_FUNDING_MIN_CONFIRMATIONS)}

SwapToTracked ==
    [arkade_to_evm |-> ArkadeToEvm, evm_to_arkade |-> EvmToArkade, bitcoin_to_evm |-> BitcoinToEvm,
     evm_to_bitcoin |-> EvmToBitcoin, btc_to_arkade |-> BtcToArkade,
     lightning_to_evm |-> LightningToEvm, lightning_to_arkade |-> LightningToArkade,
     evm_to_lightning |-> EvmToLightning, arkade_to_lightning |-> ArkadeToLightning,
     lightning_to_bitcoin |-> LightningToBitcoin, bitcoin_to_lightning |-> BitcoinToLightning]

ASSUME TradedAssumption == Traded \subseteq DOMAIN SwapToTracked

-----------------------------------------------------------------------------
(* Bitcoin.                                                                *)

Utxo == [pays : 1..3, depth : 0..MaxDepth, ended : {"open", "claim", "refund"}]
Places == DOMAIN paid
Ended == {d \in Places : paid[d].ended # "open"}

\* The deposit that pays most, the first of several.
LargestUtxo == CHOOSE d \in Places : \A e \in Places :
    paid[e].pays < paid[d].pays \/ (paid[e].pays = paid[d].pays /\ d <= e)

Required == IF leg.depth > 0 THEN leg.depth ELSE required
DeepEnough(d) == paid[d].depth >= Required

Facts(funding, sats, spend) == [funding |-> funding, sats |-> sats, spend |-> spend]
FundingFacts ==
    IF paid = <<>> THEN Facts("absent", 0, "none")
    ELSE Facts(IF DeepEnough(LargestUtxo) THEN "confirmed" ELSE "mempool", paid[LargestUtxo].pays, "none")

\* Esplora: a transaction that spends any output at the address resolves it; the
\* newest is listed first.
HtlcFactsFromEsploraTxs ==
    IF Ended = {} THEN FundingFacts
    ELSE {Facts("confirmed", 0, paid[d].ended) : d \in Ended}

\* Electrum: one that spends an output of the largest deposit does.
GetHtlcFactsElectrum ==
    IF paid = <<>> \/ paid[LargestUtxo].ended = "open" THEN FundingFacts
    ELSE Facts("confirmed", 0, paid[LargestUtxo].ended)

\* A witness with the preimage is a claim's, any other a refund's.
ClassifyBitcoinSpend(spend) == IF spend = "claim" THEN "spent_claim" ELSE "spent_refund"

\* Mistake: the amount paid is not compared with the quote.
BitcoinObservationUnpriced(facts) ==
    IF facts.spend # "none" THEN ClassifyBitcoinSpend(facts.spend) ELSE facts.funding

BitcoinObservation(facts) ==
    CASE facts.spend # "none" -> ClassifyBitcoinSpend(facts.spend)
      [] facts.spend = "none" /\ facts.funding = "confirmed" /\ facts.sats < leg.floor -> "invalid"
      [] OTHER -> facts.funding

-----------------------------------------------------------------------------
(* Arkade and EVM.                                                         *)

\* The first vtxo that was spent tells how, once the indexer has the spend.
ArkadeObservations(indexed) ==
    IF Ended # {} /\ indexed
    THEN {ClassifyBitcoinSpend(paid[CHOOSE d \in Ended : \A e \in Ended : d <= e].ended)}
    ELSE LET open == {d \in Places : paid[d].ended = "open"}
             total == FoldLeft(LAMBDA sum, d : IF d.ended = "open" THEN sum + d.pays ELSE sum, 0, paid)
         IN IF open = {} THEN {"absent"} ELSE IF total >= leg.floor THEN {"confirmed"} ELSE {"invalid"}

\* isActive hashes the whole tuple: one open lock of exactly the expected terms.
IsActive == leg.tuple /\ \E d \in Places : paid[d].pays = leg.exact /\ paid[d].ended = "open"

\* The events under the hash; a settlement names no lock of several that share it.
EvmObservation ==
    IF \E d \in Places : paid[d].ended = "claim" THEN "spent_claim"
    ELSE IF Ended # {} THEN "spent_refund"
    ELSE IF paid = <<>> THEN "absent"
    ELSE IF paid[1].pays >= leg.floor THEN "confirmed" ELSE "invalid"

EvmReconciled(callsWork) == IF callsWork /\ IsActive THEN "confirmed" ELSE EvmObservation

\* What a read may return: by any reader, whether or not a call or the index fails.
Observations ==
    CASE leg.ledger = "bitcoin" ->
            {BitcoinObservation(GetHtlcFactsElectrum)} \cup
            (IF Ended = {} THEN {BitcoinObservation(HtlcFactsFromEsploraTxs)}
             ELSE {BitcoinObservation(f) : f \in HtlcFactsFromEsploraTxs})
      [] leg.ledger = "arkade" -> UNION {ArkadeObservations(b) : b \in BOOLEAN}
      [] leg.ledger = "evm" -> {EvmReconciled(b) : b \in BOOLEAN}

-----------------------------------------------------------------------------
SpentStates == {"spent_claim", "spent_refund"}

\* The managers' #set: a spend is never undone by a later read.
SetObservation(observation) ==
    observed' = IF observed \in SpentStates /\ observation \notin SpentStates THEN observed ELSE observation

\* A leg latched on a spend is not read again on EVM.
Reconcile ==
    /\ leg.ledger = "evm" => observed \notin SpentStates
    /\ \E observation \in Observations :
            /\ SetObservation(observation)
            /\ secret' = (secret \/ observation = "spent_claim")
    /\ UNCHANGED <<leg, paid, required>>

\* setBitcoinMinConfirmations, on a live client.
SetMinConfirmations ==
    /\ leg.ledger = "bitcoin"
    /\ \E n \in 0..MaxDepth : required' = n
    /\ UNCHANGED <<leg, paid, observed, secret>>

Unregister == observed # "unseen" /\ observed' = "unseen" /\ secret' = FALSE /\ UNCHANGED <<leg, paid, required>>

Paid(d) ==
    /\ Len(paid) < MaxDeposits
    /\ paid' = Append(paid, [pays |-> d, depth |-> IF leg.ledger = "bitcoin" THEN 0 ELSE MaxDepth,
                             ended |-> "open"])
    /\ UNCHANGED <<leg, required, observed, secret>>

Deepens(d) ==
    /\ paid[d].depth < MaxDepth /\ paid' = [paid EXCEPT ![d].depth = @ + 1]
    /\ UNCHANGED <<leg, required, observed, secret>>

LegEnds(d) ==
    /\ paid[d].ended = "open"
    /\ \E as \in {"claim", "refund"} : paid' = [paid EXCEPT ![d].ended = as]
    /\ UNCHANGED <<leg, required, observed, secret>>

ReaderInit ==
    /\ leg \in UNION {SwapToTracked[direction] : direction \in Traded}
    /\ paid = <<>> /\ required = 0 /\ observed = "unseen" /\ secret = FALSE

ReaderNext ==
    \/ Reconcile \/ SetMinConfirmations \/ Unregister
    \/ \E d \in 1..3 : Paid(d)
    \/ \E d \in Places : Deepens(d) \/ LegEnds(d)

ReaderSpec == ReaderInit /\ [][ReaderNext]_readerVars

-----------------------------------------------------------------------------
ReaderTypeOK ==
    /\ leg \in UNION {SwapToTracked[direction] : direction \in Traded}
    /\ paid \in Seq(Utxo) /\ required \in 0..MaxDepth
    /\ observed \in {"unseen", "absent", "mempool", "confirmed", "invalid"} \cup SpentStates
    /\ secret \in BOOLEAN

\* A leg reads as funded only while an open deposit is there that pays what the swap
\* needs, as deep as the policy asks: by Electrum or Esplora, by isActive or from the
\* logs (contracts/bitcoin.ts, evm-manager.ts, arkade.ts).  A claim reveals the
\* preimage against it.
FundedIsPayable ==
    "confirmed" \in Observations =>
        LET open == {d \in Places : paid[d].ended = "open" /\ (leg.ledger = "bitcoin" => DeepEnough(d))}
        IN IF leg.ledger = "arkade"
           THEN FoldLeft(LAMBDA sum, d : IF d.ended = "open" THEN sum + d.pays ELSE sum, 0, paid) >= leg.floor
           ELSE \E d \in open : paid[d].pays >= leg.floor
=============================================================================
