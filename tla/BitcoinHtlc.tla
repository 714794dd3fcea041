---------------------------- MODULE BitcoinHtlc ----------------------------
(***************************************************************************)
(* The on-chain Taproot HTLC of one swap, claimed or refunded by the        *)
(* TypeScript client (ts-pure-sdk/src/client.ts, refund/onchain.ts,         *)
(* esplora.ts, electrum-ws.ts).                                             *)
(*                                                                         *)
(* Anyone may pay the HTLC's address.  The client finds an output through   *)
(* its own Electrum server, when it has one, and public explorers; each     *)
(* learns of an output in its own time, and any request may fail.  An       *)
(* output is named by its value.                                            *)
(***************************************************************************)
EXTENDS Naturals, FiniteSets

CONSTANTS
    Outputs,        \* values of the outputs that may be paid to the address
    SpendFee,       \* fee of a claim or refund transaction
    Retries,        \* attempts a claim's broadcast is repeated
    Backends,       \* {"esplora"} or {"electrum", "esplora"}
    BtcFaults       \* of "crash", "rpc"

ASSUME BtcAssumption ==
    /\ IsFiniteSet(Outputs) /\ Outputs \subseteq Nat \ {0}
    /\ SpendFee \in Nat /\ Retries \in Nat
    /\ "esplora" \in Backends /\ Backends \subseteq {"electrum", "esplora"}

VARIABLES
    role,       \* "claim" with the preimage, "refund" after the locktime
    script,     \* whether the stored terms rebuild the server's address
    coin,       \* each output: absent, unspent, ours, theirs
    knows,      \* the outputs each backend has heard of
    named,      \* the funding output the server names, 0 while it names none
    mtp,        \* whether the chain's median time is past the locktime
    run,        \* the client call that runs
    said        \* what the last call said, with the outputs it could have seen

btcVars == <<role, script, coin, knows, named, mtp, run, said>>

Quiet == [at |-> "idle", out |-> 0, saw |-> {}, left |-> 0]
Silent == [is |-> "none", saw |-> {}]

Running(step) == run.at = step
Says(is, saw) == said' = [is |-> is, saw |-> saw] /\ run' = Quiet
\* Every explorer tried in order, and the Electrum server, fails (withFallback).
BtcOutage == "rpc" \in BtcFaults

\* verifyHtlcAddress: the stored terms rebuild the address the server gave.
VerifyHtlcAddress == script = "match"

\* The outputs a backend lists as unspent.
Listed(b) == {o \in knows[b] : coin[o] = "unspent"}

\* Mistake: the first output of a list sorted the other way.
Smallest(set) == CHOOSE o \in set : \A p \in set : o <= p

Largest(set) == CHOOSE o \in set : \A p \in set : p <= o

\* findOutputByAddress and electrumFindOutputByAddress: the largest, so that dust paid to
\* the public address shadows no deposit.
OutputByAddress(b) == IF Listed(b) = {} THEN 0 ELSE Largest(Listed(b))

\* fetchTransactionOutputs and electrumFetchTransactionOutputs: the named output, spent or
\* not, of a transaction the backend knows.
NamedOutput(b) == IF named \in knows[b] THEN named ELSE 0

\* findOnchainHtlcOutput asks for the named output, then for the address; a transaction
\* lookup that fails reads as a transaction nobody knows.
FoundBy(b) ==
    IF NamedOutput(b) = 0 THEN {OutputByAddress(b)}
    ELSE {NamedOutput(b)} \cup (IF BtcOutage THEN {OutputByAddress(b)} ELSE {})

BtcFound(o, saw) ==
    run' = [run EXCEPT !.at = "build", !.out = o, !.saw = saw]

-----------------------------------------------------------------------------
(* Claiming.                                                               *)

\* claimOnchainBtc verifies the address before it waits for the output.
ClaimOnchainBtc ==
    /\ role = "claim" /\ Running("idle")
    /\ IF VerifyHtlcAddress
       THEN /\ run' = [Quiet EXCEPT !.left = Retries,
                         !.at = IF "electrum" \in Backends THEN "watch" ELSE "poll"]
            /\ UNCHANGED said
       ELSE Says("mismatch", {})
    /\ UNCHANGED <<role, script, coin, knows, named, mtp>>

\* electrumWaitForOutputByAddress: each notification looks the address up again.
WatchFinds ==
    /\ Running("watch")
    /\ OutputByAddress("electrum") # 0
    /\ BtcFound(OutputByAddress("electrum"), Listed("electrum"))
    /\ UNCHANGED <<role, script, coin, knows, named, mtp, said>>

\* The wait ends without one, and Esplora is asked once; a subscription that fails leaves
\* the rest of the time to polling.
WatchEnds ==
    /\ Running("watch")
    /\ \/ /\ Listed("electrum") = {}
          /\ run' = [run EXCEPT !.at = "ask"]
       \/ /\ BtcOutage
          /\ run' = [run EXCEPT !.at = "poll"]
    /\ UNCHANGED <<role, script, coin, knows, named, mtp, said>>

\* findOnchainHtlcOutputEsplora, once or in waitForOnchainHtlcOutput's loop.
EsploraFinds ==
    /\ run.at \in {"ask", "poll"}
    /\ \E o \in FoundBy("esplora") \ {0} : BtcFound(o, Listed("esplora"))
    /\ UNCHANGED <<role, script, coin, knows, named, mtp, said>>

\* The deadline passes; explorers that all failed count as not found.
NotFound ==
    /\ run.at \in {"ask", "poll"}
    /\ \/ 0 \in FoundBy("esplora") /\ Says("notFound", Listed("esplora"))
       \/ BtcOutage /\ Says("unreachable", {})
    /\ UNCHANGED <<role, script, coin, knows, named, mtp>>

-----------------------------------------------------------------------------
(* Refunding.                                                              *)

\* buildOnchainRefund compares the locktime with the chain's median time, then verifies
\* the address.
BuildOnchainRefund ==
    /\ role = "refund" /\ Running("idle")
    /\ IF mtp /\ VerifyHtlcAddress
       THEN /\ run' = [Quiet EXCEPT !.at = IF "electrum" \in Backends THEN "lookup" ELSE "ask"]
            /\ UNCHANGED said
       ELSE Says(IF mtp THEN "mismatch" ELSE "early", {})
    /\ UNCHANGED <<role, script, coin, knows, named, mtp>>

\* findOnchainHtlcOutput with the Electrum server; a miss or an error consults Esplora.
LookUpElectrum ==
    /\ Running("lookup")
    /\ \/ \E o \in FoundBy("electrum") \ {0} : BtcFound(o, Listed("electrum"))
       \/ /\ BtcOutage \/ 0 \in FoundBy("electrum")
          /\ run' = [run EXCEPT !.at = "ask"]
    /\ UNCHANGED <<role, script, coin, knows, named, mtp, said>>

-----------------------------------------------------------------------------
(* Building and broadcasting.                                              *)

\* An output the fee eats up is refused.
Build ==
    /\ Running("build")
    /\ IF run.out <= SpendFee
       THEN Says("tooSmall", run.saw)
       ELSE run' = [run EXCEPT !.at = "broadcast"] /\ UNCHANGED said
    /\ UNCHANGED <<role, script, coin, knows, named, mtp>>

\* The hash leaf, with the preimage and a signature; the timelock leaf, with a signature
\* and the locktime.
BuildOnchainClaimTransaction == role = "claim" /\ Build
BuildOnchainRefundTransaction == role = "refund" /\ Build

\* broadcastBtcTx: accepted by a node that has the output unspent.
Broadcast ==
    /\ Running("broadcast")
    /\ coin[run.out] = "unspent"
    /\ \E b \in Backends : run.out \in knows[b]
    /\ coin' = [coin EXCEPT ![run.out] = "ours"]
    /\ \/ Says("sent", run.saw)
       \/ BtcOutage /\ run' = [run EXCEPT !.at = "resend"] /\ UNCHANGED said
    /\ UNCHANGED <<role, script, knows, named, mtp>>

\* A spent input, a funding the node has not seen and an unreachable node all read as
\* transient.
IsTransientBroadcastError == coin[run.out] # "unspent" \/ BtcOutage

\* broadcastTransactionWithRetry repeats those, for a claim only.
BroadcastFails ==
    /\ run.at \in {"broadcast", "resend"}
    /\ IsTransientBroadcastError
    /\ IF run.left > 0
       THEN run' = [run EXCEPT !.at = "broadcast", !.left = @ - 1] /\ UNCHANGED said
       ELSE Says("unsent", run.saw)
    /\ UNCHANGED <<role, script, coin, knows, named, mtp>>

BtcCrash ==
    /\ "crash" \in BtcFaults
    /\ ~Running("idle")
    /\ run' = Quiet
    /\ UNCHANGED <<role, script, coin, knows, named, mtp, said>>

-----------------------------------------------------------------------------
(* The chain and the backends.                                             *)

Pay(o) ==
    /\ coin[o] = "absent"
    /\ coin' = [coin EXCEPT ![o] = "unspent"]
    /\ UNCHANGED <<role, script, knows, named, mtp, run, said>>

Hears(b, o) ==
    /\ coin[o] # "absent" /\ o \notin knows[b]
    /\ knows' = [knows EXCEPT ![b] = @ \cup {o}]
    /\ UNCHANGED <<role, script, coin, named, mtp, run, said>>

\* The server names the first deposit it sees, never dust.
ServerNames(o) ==
    /\ named = 0 /\ coin[o] # "absent" /\ o > SpendFee
    /\ named' = o
    /\ UNCHANGED <<role, script, coin, knows, mtp, run, said>>

\* The other side claims with the preimage, or refunds after the locktime.
TheySpend(o) ==
    /\ coin[o] = "unspent"
    /\ role = "claim" => mtp
    /\ coin' = [coin EXCEPT ![o] = "theirs"]
    /\ UNCHANGED <<role, script, knows, named, mtp, run, said>>

MtpPasses ==
    /\ ~mtp
    /\ mtp' = TRUE
    /\ UNCHANGED <<role, script, coin, knows, named, run, said>>

-----------------------------------------------------------------------------
BtcInit ==
    /\ role \in {"claim", "refund"} /\ script \in {"match", "other"}
    /\ coin = [o \in Outputs |-> "absent"]
    /\ knows = [b \in Backends |-> {}]
    /\ named = 0 /\ mtp = FALSE
    /\ run = Quiet /\ said = Silent

BtcNext ==
    \/ ClaimOnchainBtc \/ WatchFinds \/ WatchEnds \/ EsploraFinds \/ NotFound
    \/ BuildOnchainRefund \/ LookUpElectrum
    \/ BuildOnchainClaimTransaction \/ BuildOnchainRefundTransaction
    \/ Broadcast \/ BroadcastFails \/ BtcCrash
    \/ \E o \in Outputs : Pay(o) \/ ServerNames(o) \/ TheySpend(o)
    \/ \E b \in Backends, o \in Outputs : Hears(b, o)
    \/ MtpPasses

BtcSpec == BtcInit /\ [][BtcNext]_btcVars

-----------------------------------------------------------------------------
BtcTypeOK ==
    /\ role \in {"claim", "refund"} /\ script \in {"match", "other"}
    /\ coin \in [Outputs -> {"absent", "unspent", "ours", "theirs"}]
    /\ knows \in [Backends -> SUBSET Outputs]
    /\ named \in Outputs \cup {0} /\ mtp \in BOOLEAN
    /\ run.out \in Outputs \cup {0} /\ run.saw \subseteq Outputs /\ run.left \in 0..Retries
    /\ said.is \in {"none", "mismatch", "early", "notFound", "unreachable", "tooSmall",
                    "sent", "unsent"}

\* No call gives up with an output worth spending in the list it was given: dust at the
\* public address makes no claim or refund too small to build, and a call that finds
\* nothing looked where the output was (findOutputByAddress, findOnchainHtlcOutput,
\* waitForOnchainHtlcOutput).
DustShadowsNothing ==
    said.is \in {"tooSmall", "notFound"} => \A o \in said.saw : o <= SpendFee
==============================================================================
