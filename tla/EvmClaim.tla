------------------------------- MODULE EvmClaim -------------------------------
(***************************************************************************)
(* Claiming the EVM leg in the TypeScript client: by a sponsored UserOp,    *)
(* through the server's relay, from the user's wallet, or through the RIF   *)
(* Relay (ts-pure-sdk/src/client.ts claim, claimViaGasless,                 *)
(* claimEvmWithSigner; redeem/).                                           *)
(*                                                                         *)
(* The background worker and the user claim at the same time.  Every        *)
(* transaction that carries the claim is in `sent`; the first to be mined   *)
(* takes the lock and the others revert.                                   *)
(***************************************************************************)
EXTENDS Naturals, Sequences

CONSTANTS
    Claimants,      \* calls that claim: "worker" cannot sign with the user's wallet
    ClaimKinds,     \* the swaps claimed, of ClaimSwap
    MaxSent,        \* transactions that may carry the claim (bounds the model)
    ClaimFaults     \* of "rpc", "crash"

Hub(s) == s.chain = "arbitrum" /\ s.bridge # "oft"
Native(s) == s.chain = "rootstock"

ClaimSwap ==
    {s \in [chain : {"arbitrum", "polygon", "rootstock"}, rif : BOOLEAN, dex : BOOLEAN,
            bridge : {"none", "cctp", "oft"}, aa : BOOLEAN] :
        /\ s.rif => Native(s)
        /\ Native(s) => ~s.dex /\ s.bridge = "none"}

ASSUME ClaimAssumption ==
    /\ ClaimKinds \subseteq ClaimSwap /\ MaxSent \in Nat
    /\ ClaimFaults \subseteq {"rpc", "crash"}

VARIABLES
    swap,       \* how #classifyEvmClaim sees the swap
    lock,       \* the HTLC: "locked", "claimed", "refunded"
    relay,      \* the server's view: "funded", "redeeming", "redeemed"
    sent,       \* the transactions: by, whether they claim, state, and what replaced them
    task,       \* where each claimant's call is, and the transaction it waits for
    ended       \* how its last call ended

claimVars == <<swap, lock, relay, sent, task, ended>>

NoClaim == [at |-> "idle", tx |-> 0]
Stands(a, step) == task[a].at = step
GoesTo(a, step) == task' = [task EXCEPT ![a].at = step] /\ UNCHANGED ended
EndsWith(a, outcome) ==
    task' = [task EXCEPT ![a] = NoClaim] /\ ended' = [ended EXCEPT ![a] = outcome]
Rpc == "rpc" \in ClaimFaults

\* What a step of a call leaves alone when it sends nothing.
Chain == <<swap, lock, relay, sent>>

Carrying(by, claims) == [by |-> by, claims |-> claims, state |-> "pending", next |-> 0]
Carries(a, by, step) ==
    /\ Len(sent) < MaxSent
    /\ sent' = Append(sent, Carrying(by, TRUE))
    /\ task' = [task EXCEPT ![a] = [at |-> step, tx |-> Len(sent) + 1]]

-----------------------------------------------------------------------------
(* claimViaGasless.                                                        *)

\* Only the wallet claims a native lock; what needs the sponsor and has none fails.
ClaimViaGasless(a) ==
    /\ Stands(a, "idle")
    /\ \/ Rpc /\ EndsWith(a, "failed")
       \/ CASE Native(swap) -> EndsWith(a, "walletRequired")
            [] Hub(swap) /\ swap.dex /\ ~swap.aa -> EndsWith(a, "failed")
            [] Hub(swap) /\ swap.aa -> GoesTo(a, "calls")
            [] OTHER -> GoesTo(a, "calldata")
    /\ UNCHANGED Chain

\* The coordinator's calls are fetched only for a DEX leg.
FetchArbitrumHubCalls(a) ==
    /\ task[a].at \in {"calls", "walletCalls"}
    /\ \/ swap.dex /\ Rpc /\ EndsWith(a, "failed")
       \/ GoesTo(a, IF Stands(a, "calls") THEN "publish" ELSE "simulate")
    /\ UNCHANGED Chain

\* The bundler simulates, so it takes the operation only while the lock is there.
ClaimViaUserOp(a) ==
    /\ Stands(a, "publish")
    /\ lock = "locked"
    /\ Carries(a, "userop", "receipt")
    /\ UNCHANGED <<swap, lock, relay, ended>>

OpFailed(a) ==
    \/ Stands(a, "publish") /\ (Rpc \/ lock # "locked")
    \/ Stands(a, "receipt") /\ (Rpc \/ sent[task[a].tx].state = "reverted")

Degrades(a) == IF swap.dex THEN EndsWith(a, "failed") ELSE GoesTo(a, "calldata")

UserOpFails(a) == OpFailed(a) /\ Degrades(a) /\ UNCHANGED Chain

UserOpIncluded(a) ==
    /\ Stands(a, "receipt") /\ sent[task[a].tx].state = "success"
    /\ EndsWith(a, "redeemed")
    /\ UNCHANGED Chain

FetchRedeemCalldata(a) ==
    /\ Stands(a, "calldata")
    /\ (Rpc /\ EndsWith(a, "failed")) \/ GoesTo(a, "post")
    /\ UNCHANGED Chain

\* A claim the server is relaying or has seen is refused, and that refusal is an answer.
AlreadyClaimed(a) ==
    /\ Stands(a, "post") /\ relay # "funded"
    /\ EndsWith(a, "already")
    /\ UNCHANGED Chain

\* The server relays; its answer may be lost.
PostClaim(a) ==
    /\ Stands(a, "post") /\ relay = "funded" /\ lock = "locked"
    /\ Len(sent) < MaxSent
    /\ sent' = Append(sent, Carrying("relay", TRUE))
    /\ relay' = "redeeming"
    /\ EndsWith(a, "relayed") \/ (Rpc /\ EndsWith(a, "failed"))
    /\ UNCHANGED <<swap, lock>>

PostFails(a) ==
    /\ Stands(a, "post") /\ (Rpc \/ lock # "locked")
    /\ EndsWith(a, "failed")
    /\ UNCHANGED Chain

-----------------------------------------------------------------------------
(* claimEvmWithSigner.                                                     *)

ClaimEvmWithSigner(a) ==
    /\ Stands(a, "idle") /\ a # "worker"
    /\ \/ Rpc /\ EndsWith(a, "failed")
       \/ CASE swap.rif -> GoesTo(a, "estimate")
            [] Native(swap) /\ ~swap.rif -> GoesTo(a, "simulate")
            [] Hub(swap) -> GoesTo(a, "walletCalls")
            [] OTHER -> EndsWith(a, "failed")
    /\ UNCHANGED Chain

\* chain-info and estimate: the relay must be ready and its fee below the amount.
RifEstimate(a) ==
    /\ Stands(a, "estimate")
    /\ (Rpc /\ EndsWith(a, "failed")) \/ (lock = "locked" /\ GoesTo(a, "relay"))
       \/ (lock # "locked" /\ EndsWith(a, "failed"))
    /\ UNCHANGED Chain

ClaimNativeViaRifRelay(a) ==
    /\ Stands(a, "relay")
    /\ Carries(a, "rif", "relayed")
    /\ UNCHANGED <<swap, lock, relay, ended>>

RifMined(a) ==
    /\ Stands(a, "relayed") /\ sent[task[a].tx].state \in {"success", "reverted"}
    /\ EndsWith(a, IF sent[task[a].tx].state = "success" THEN "redeemed" ELSE "failed")
    /\ UNCHANGED Chain

SimulateClaim(a) ==
    /\ Stands(a, "simulate")
    /\ IF lock = "locked" THEN GoesTo(a, "send") ELSE EndsWith(a, "failed")
    /\ UNCHANGED Chain

ClaimViaSigner(a) ==
    /\ Stands(a, "send")
    /\ Carries(a, "wallet", "wait")
    /\ UNCHANGED <<swap, lock, relay, ended>>

\* The user declines to sign.
Declines(a) ==
    /\ task[a].at \in {"send", "relay"}
    /\ EndsWith(a, "failed")
    /\ UNCHANGED Chain

\* waitForReceipt answers for whatever took the transaction's place.
Followed[i \in Nat] == IF sent[i].next = 0 THEN i ELSE Followed[sent[i].next]

\* Mistake: whatever was mined in the claim's place counts as the claim.
ClaimMinedUnseen(a) ==
    /\ Stands(a, "wait")
    /\ \E mined \in {i \in DOMAIN sent : i = Followed[task[a].tx]} :
        /\ sent[mined].state \in {"success", "reverted"}
        /\ EndsWith(a, IF sent[mined].state = "success" THEN "redeemed" ELSE "failed")
    /\ UNCHANGED Chain

ClaimMined(a) ==
    /\ Stands(a, "wait")
    /\ \E mined \in {i \in DOMAIN sent : i = Followed[task[a].tx]} :
        \/ sent[mined].state = "reverted" /\ EndsWith(a, "failed")
        \/ /\ sent[mined].state = "success" /\ Native(swap) /\ mined # task[a].tx
           /\ task' = [task EXCEPT ![a] = [at |-> "identify", tx |-> mined]]
           /\ UNCHANGED ended
        \/ /\ sent[mined].state = "success" /\ (~Native(swap) \/ mined = task[a].tx)
           /\ EndsWith(a, "redeemed")
    /\ UNCHANGED Chain

\* A replacement of a native claim is read back; a node that lags has no answer.
IdentifyClaim(a) ==
    /\ Stands(a, "identify")
    /\ \/ Rpc /\ EndsWith(a, "unverified")
       \/ EndsWith(a, IF sent[task[a].tx].claims THEN "redeemed" ELSE "notSubmitted")
    /\ UNCHANGED Chain

ReceiptFails(a) ==
    /\ Rpc /\ task[a].at \in {"wait", "relayed"}
    /\ EndsWith(a, "failed")
    /\ UNCHANGED Chain

Restarts ==
    /\ "crash" \in ClaimFaults
    /\ task' = [a \in Claimants |-> NoClaim]
    /\ UNCHANGED <<Chain, ended>>

-----------------------------------------------------------------------------
(* The chain, the wallet and the server.                                   *)

MineClaim(i) ==
    /\ sent[i].state = "pending"
    /\ LET succeeds == sent[i].claims => lock = "locked" IN
       /\ sent' = [sent EXCEPT ![i].state = IF succeeds THEN "success" ELSE "reverted"]
       /\ lock' = IF succeeds /\ sent[i].claims THEN "claimed" ELSE lock
       /\ relay' = IF sent[i].by = "relay" /\ ~succeeds THEN "funded" ELSE relay
    /\ UNCHANGED <<swap, task, ended>>

\* A speed-up sends the same claim again, a cancellation sends nothing.
ReplaceClaim(i) ==
    /\ sent[i].state = "pending" /\ sent[i].by = "wallet" /\ sent[i].claims
    /\ Len(sent) < MaxSent
    /\ \E claims \in BOOLEAN :
        sent' = Append([sent EXCEPT ![i].state = "replaced", ![i].next = Len(sent) + 1],
                       Carrying("wallet", claims))
    /\ UNCHANGED <<swap, lock, relay, task, ended>>

ServerNotices ==
    /\ lock = "claimed" /\ relay # "redeemed" /\ relay' = "redeemed"
    /\ UNCHANGED <<swap, lock, sent, task, ended>>

ServerRefundsLock ==
    /\ lock = "locked" /\ lock' = "refunded"
    /\ UNCHANGED <<swap, relay, sent, task, ended>>

-----------------------------------------------------------------------------
ClaimInit ==
    /\ swap \in ClaimKinds
    /\ lock = "locked" /\ relay = "funded" /\ sent = <<>>
    /\ task = [a \in Claimants |-> NoClaim]
    /\ ended = [a \in Claimants |-> "nothing"]

ClaimNext ==
    \/ \E a \in Claimants :
        \/ ClaimViaGasless(a) \/ FetchArbitrumHubCalls(a) \/ ClaimViaUserOp(a)
        \/ UserOpFails(a) \/ UserOpIncluded(a) \/ FetchRedeemCalldata(a)
        \/ AlreadyClaimed(a) \/ PostClaim(a) \/ PostFails(a)
        \/ ClaimEvmWithSigner(a) \/ RifEstimate(a) \/ ClaimNativeViaRifRelay(a) \/ RifMined(a)
        \/ SimulateClaim(a) \/ ClaimViaSigner(a) \/ Declines(a) \/ ClaimMined(a)
        \/ IdentifyClaim(a) \/ ReceiptFails(a)
    \/ Restarts
    \/ \E i \in DOMAIN sent : MineClaim(i) \/ ReplaceClaim(i)
    \/ ServerNotices \/ ServerRefundsLock

ClaimSpec == ClaimInit /\ [][ClaimNext]_claimVars

-----------------------------------------------------------------------------
(* Properties.                                                             *)

\* Every variable has its type.
ClaimTypeOK ==
    /\ swap \in ClaimKinds
    /\ lock \in {"locked", "claimed", "refunded"} /\ relay \in {"funded", "redeeming", "redeemed"}
    /\ Len(sent) <= MaxSent
    /\ \A a \in Claimants : task[a].tx \in 0..Len(sent)

\* What a call says of its claim is true.  One that ends in "clientredeemed" has the coin,
\* by its own claim or the one its wallet sent in its place; a wallet's cancellation of an
\* ERC-20 claim is not told apart.  "Neither report success nor invite a new claim without
\* verification": one that tells the user to try again has no claim that may still be
\* mined (redeem/signer-claim.ts, userop-claim.ts, rif-relay.ts).
OutcomeIsTrue ==
    \A a \in Claimants :
        /\ ended[a] = "redeemed" =>
              lock = "claimed" \/ (~Native(swap) /\ \E i \in DOMAIN sent : ~sent[i].claims)
        /\ ended[a] = "notSubmitted" =>
              \E i \in DOMAIN sent : ~sent[i].claims /\ sent[i].state = "success"
==============================================================================
