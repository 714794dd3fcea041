---------------------------- MODULE VhtlcSpend ----------------------------
(***************************************************************************)
(* The Arkade VHTLC of one swap, spent by the TypeScript client: claimed    *)
(* with the preimage when the user is its receiver, refunded when the user  *)
(* is its sender (ts-pure-sdk/src/client.ts, redeem/arkade.ts,              *)
(* refund/arkade.ts, refund/collab-arkade-evm.ts, delegate.ts).             *)
(*                                                                         *)
(* An offchain spend is submitted and then finalized; between the two its   *)
(* inputs look spent.  A VTXO whose batch expired is settled through the    *)
(* backend's delegate instead.                                             *)
(***************************************************************************)
EXTENDS FiniteSets

CONSTANTS
    Deposits,       \* VTXOs that may be paid to the VHTLC address
    Sides,          \* "claim": the user receives, "refund": the user sent
    ArkadeFaults    \* of "crash", "rpc"

ASSUME ArkadeAssumption ==
    /\ IsFiniteSet(Deposits)
    /\ Sides \subseteq {"claim", "refund"}
    /\ ArkadeFaults \subseteq {"crash", "rpc"}

VARIABLES
    side,       \* which end of the VHTLC the user holds
    terms,      \* whether the stored terms rebuild the VHTLC's address
    vtxo,       \* each deposit as the Arkade server holds it
    late,       \* the refund locktime has passed
    revealed,   \* the preimage has left the client
    spend,      \* the client call that runs
    answer      \* what the last call that found nothing to spend told the caller

arkadeVars == <<side, terms, vtxo, late, revealed, spend, answer>>

Resting == [at |-> "idle", takes |-> {}, saw |-> {}, collab |-> FALSE]
NoAnswer == [is |-> "none", saw |-> {}, because |-> "none"]

InState(states) == {d \in Deposits : vtxo[d] \in states}
Funded == {d \in Deposits : vtxo[d] # "none"}
Unspent == InState({"live", "stale"})
Pending == InState({"pending"})

\* getVhtlcAmounts: a spendable VTXO whose batch expired counts as recoverable, and one
\* consumed by a submitted transaction as spent.
VtxoStatus ==
    CASE Funded = {} -> "not_funded"
      [] InState({"live"}) # {} /\ InState({"stale"}) # {} -> "mixed"
      [] InState({"live"}) # {} -> "spendable"
      [] InState({"stale"}) # {} -> "recoverable"
      [] OTHER -> "spent"

TermsMatch == terms = "match"

AtStep(step) == spend.at = step
ToStep(step) == spend' = [spend EXCEPT !.at = step]
Resets == spend' = Resting
Outage == "rpc" \in ArkadeFaults

MovesTo(set, state) == vtxo' = [d \in Deposits |-> IF d \in set THEN state ELSE vtxo[d]]

Answers(is, because) == answer' = [is |-> is, saw |-> spend.saw, because |-> because]

-----------------------------------------------------------------------------
(* Claiming.                                                               *)

\* claimArkade, up to the status that decides the way; waitForVtxoStatus gives up on an
\* address that stays unfunded.
ClaimArkade ==
    /\ side = "claim" /\ AtStep("idle")
    /\ \/ /\ VtxoStatus = "not_funded"
          /\ answer' = [NoAnswer EXCEPT !.is = "not_funded"]
          /\ UNCHANGED spend
       \/ /\ VtxoStatus # "not_funded"
          /\ spend' = [Resting EXCEPT !.saw = Funded,
                                      !.at = CASE VtxoStatus = "spent" -> "continue"
                                               [] VtxoStatus = "spendable" -> "resume"
                                               [] OTHER -> "delegate"]
          /\ answer' = NoAnswer
    /\ UNCHANGED <<side, terms, vtxo, late, revealed>>

\* continueArkadeClaim finds the server's pending transactions of these VTXOs.
PendingFound == TermsMatch /\ Pending # {}

\* Mistake: spent VTXOs are reported without asking for pending transactions.
ContinueSpentUnasked ==
    /\ AtStep("continue")
    /\ Answers("spent", "noPending") /\ Resets
    /\ UNCHANGED <<side, terms, vtxo, late, revealed>>

\* claimArkade on spent VTXOs: continueArkadeClaimSwap first; whatever it fails with, the
\* caller is told all VTXOs have been spent.
ContinueSpent ==
    /\ AtStep("continue")
    /\ \/ /\ PendingFound
          /\ spend' = [spend EXCEPT !.at = "finalizeSpent", !.takes = Pending]
          /\ UNCHANGED answer
       \/ /\ TermsMatch /\ Pending = {}
          /\ Answers("spent", "noPending") /\ Resets
       \/ /\ ~TermsMatch \/ Outage
          /\ Answers("spent", "failed") /\ Resets
    /\ UNCHANGED <<side, terms, vtxo, late, revealed>>

\* continueArkadeClaimSwap called by the application itself.
ContinueArkadeClaimSwap ==
    /\ side = "claim" /\ AtStep("idle")
    /\ PendingFound
    /\ spend' = [Resting EXCEPT !.at = "finalize", !.takes = Pending]
    /\ UNCHANGED <<side, terms, vtxo, late, revealed, answer>>

\* buildArkadeClaim finalizes what an earlier attempt submitted, and that ends the call;
\* only the answer that there is none lets it go on to a new claim.
ResumePending ==
    /\ AtStep("resume")
    /\ TermsMatch
    /\ spend' = IF Pending # {} THEN [spend EXCEPT !.at = "finalize", !.takes = Pending]
                                ELSE [spend EXCEPT !.at = "build"]
    /\ UNCHANGED <<side, terms, vtxo, late, revealed, answer>>

\* It then takes every VTXO the indexer lists as spendable, expired batches included.
BuildArkadeClaim ==
    /\ side = "claim" /\ AtStep("build")
    /\ TermsMatch
    /\ IF Unspent = {} THEN Resets
       ELSE spend' = [spend EXCEPT !.at = "submit", !.takes = Unspent]
    /\ UNCHANGED <<side, terms, vtxo, late, revealed, answer>>

\* submitTx: all inputs at once, or none.
Submittable == \A d \in spend.takes : vtxo[d] = "live"

Submit(next) ==
    IF Submittable
    THEN /\ MovesTo(spend.takes, "pending")
         /\ spend' = next \/ (Outage /\ Resets)
    ELSE UNCHANGED vtxo /\ Resets

\* claimArkadeOffchain's submission carries the preimage on every input.
SubmitClaim ==
    /\ side = "claim" /\ AtStep("submit")
    /\ revealed' = TRUE
    /\ Submit([spend EXCEPT !.at = "finalize"])
    /\ UNCHANGED <<side, terms, late, answer>>

\* finalizeTx of the transactions the call submitted or found pending.
FinalizeTx ==
    /\ spend.at \in {"finalize", "finalizeSpent"}
    /\ MovesTo(spend.takes, "taken")
    /\ Resets
    /\ UNCHANGED <<side, terms, late, revealed, answer>>

FinalizeFails ==
    /\ Outage
    /\ spend.at \in {"finalize", "finalizeSpent"}
    /\ IF AtStep("finalizeSpent") THEN Answers("spent", "failed") ELSE UNCHANGED answer
    /\ Resets
    /\ UNCHANGED <<side, terms, vtxo, late, revealed>>

-----------------------------------------------------------------------------
(* Settling through the delegate.                                          *)

\* settleDelegate signs an intent and forfeits over every VTXO not marked spent.
SettleDelegate ==
    /\ AtStep("delegate")
    /\ TermsMatch
    /\ IF Unspent = {} THEN Resets
       ELSE spend' = [spend EXCEPT !.at = "settle", !.takes = Unspent]
    /\ UNCHANGED <<side, terms, vtxo, late, revealed, answer>>

SettleAll == IF spend.takes \subseteq Unspent THEN MovesTo(spend.takes, "taken") ELSE UNCHANGED vtxo

\* delegateClaim posts the preimage with it; the batch takes all of them or none.
DelegateClaim ==
    /\ side = "claim" /\ AtStep("settle")
    /\ revealed' = TRUE
    /\ SettleAll
    /\ Resets
    /\ UNCHANGED <<side, terms, late, answer>>

-----------------------------------------------------------------------------
(* Refunding.                                                              *)

\* buildArkadeRefund: together with the server first, whatever the locktime.
RefundSwap ==
    /\ side = "refund" /\ AtStep("idle")
    /\ IF VtxoStatus \in {"not_funded", "spent"}
       THEN /\ answer' = [is |-> VtxoStatus, saw |-> Funded, because |-> "status"]
            /\ UNCHANGED spend
       ELSE /\ spend' = [Resting EXCEPT !.collab = TRUE, !.saw = Funded,
                            !.at = IF VtxoStatus = "spendable" THEN "buildRefund" ELSE "delegate"]
            /\ answer' = NoAnswer
    /\ UNCHANGED <<side, terms, vtxo, late, revealed>>

\* collabRefundArkadeToEvmOffchain gathers the spendable VTXOs for the 3-of-3 leaf.
BuildCollabRefund ==
    /\ AtStep("buildRefund") /\ spend.collab
    /\ TermsMatch /\ Unspent # {}
    /\ spend' = [spend EXCEPT !.at = "cosign", !.takes = Unspent]
    /\ UNCHANGED <<side, terms, vtxo, late, revealed, answer>>

\* buildArkadeRefund gathers them for the sender's leaf.
BuildRefund ==
    /\ AtStep("buildRefund") /\ ~spend.collab
    /\ TermsMatch /\ Unspent # {}
    /\ spend' = [spend EXCEPT !.at = "submitRefund", !.takes = Unspent]
    /\ UNCHANGED <<side, terms, vtxo, late, revealed, answer>>

\* The server cosigns as the receiver, or refuses.
Cosigned ==
    /\ AtStep("cosign")
    /\ ToStep("submitRefund")
    /\ UNCHANGED <<side, terms, vtxo, late, revealed, answer>>

\* Anything that fails while refunding together falls back to the sender's own leaf,
\* once the locktime has passed.
FallBack ==
    /\ spend.collab
    /\ spend.at \in {"buildRefund", "cosign", "submitRefund", "finalize", "delegate", "settle"}
    /\ IF late
       THEN spend' = [spend EXCEPT !.collab = FALSE, !.takes = {},
                                   !.at = IF spend.at \in {"delegate", "settle"}
                                          THEN "delegate" ELSE "buildRefund"]
       ELSE Resets
    /\ UNCHANGED <<side, terms, vtxo, late, revealed, answer>>

\* The submission itself, cosigned.
SubmitCollabRefund ==
    /\ AtStep("submitRefund") /\ spend.collab
    /\ Submit([spend EXCEPT !.at = "finalize"])
    /\ UNCHANGED <<side, terms, late, revealed, answer>>

\* On the sender's leaf the Arkade server takes it after the locktime only.
SubmitRefund ==
    /\ AtStep("submitRefund") /\ ~spend.collab
    /\ late
    /\ Submit([spend EXCEPT !.at = "finalize"])
    /\ UNCHANGED <<side, terms, late, revealed, answer>>

\* collabRefundArkadeToEvmDelegate: the server cosigns and the delegate settles.
CollabDelegateRefund ==
    /\ side = "refund" /\ AtStep("settle") /\ spend.collab
    /\ SettleAll
    /\ Resets
    /\ UNCHANGED <<side, terms, late, revealed, answer>>

\* delegateRefund on the sender's leaf.
DelegateRefund ==
    /\ side = "refund" /\ AtStep("settle") /\ ~spend.collab
    /\ late
    /\ SettleAll
    /\ Resets
    /\ UNCHANGED <<side, terms, late, revealed, answer>>

\* claimArkadeOffchain and claimArkadeDelegate return what failed to the caller.
ClaimFails ==
    /\ side = "claim"
    /\ spend.at \in {"resume", "build", "delegate", "settle"}
    /\ Resets
    /\ UNCHANGED <<side, terms, vtxo, late, revealed, answer>>

\* refundArkadeOffchain and refundArkadeDelegate do so once nothing is left to try.
RefundFails ==
    /\ side = "refund" /\ ~spend.collab
    /\ spend.at \in {"delegate", "settle", "buildRefund", "submitRefund"}
    /\ Resets
    /\ UNCHANGED <<side, terms, vtxo, late, revealed, answer>>

ArkadeCrash ==
    /\ "crash" \in ArkadeFaults
    /\ ~AtStep("idle")
    /\ Resets
    /\ UNCHANGED <<side, terms, vtxo, late, revealed, answer>>

-----------------------------------------------------------------------------
(* The depositor, time and the server at the other end.                    *)

Deposit(d) ==
    /\ vtxo[d] = "none"
    /\ MovesTo({d}, "live")
    /\ UNCHANGED <<side, terms, late, revealed, spend, answer>>

BatchExpires(d) ==
    /\ vtxo[d] = "live"
    /\ MovesTo({d}, "stale")
    /\ UNCHANGED <<side, terms, late, revealed, spend, answer>>

LocktimePasses ==
    /\ ~late
    /\ late' = TRUE
    /\ UNCHANGED <<side, terms, vtxo, revealed, spend, answer>>

\* As the sender the server takes its deposit back after the locktime, as the receiver it
\* claims with the preimage at any time.
ServerTakes(d) ==
    /\ vtxo[d] \in {"live", "stale"}
    /\ side = "claim" => late
    /\ MovesTo({d}, "lost")
    /\ UNCHANGED <<side, terms, late, revealed, spend, answer>>

-----------------------------------------------------------------------------
ArkadeInit ==
    /\ side \in Sides
    /\ terms \in {"match", "other"}
    /\ vtxo = [d \in Deposits |-> "none"]
    /\ late = FALSE /\ revealed = FALSE
    /\ spend = Resting
    /\ answer = NoAnswer

ArkadeNext ==
    \/ ClaimArkade \/ ContinueSpent \/ ContinueArkadeClaimSwap \/ ResumePending
    \/ BuildArkadeClaim \/ SubmitClaim \/ FinalizeTx \/ FinalizeFails
    \/ SettleDelegate \/ DelegateClaim
    \/ RefundSwap \/ BuildCollabRefund \/ BuildRefund \/ Cosigned \/ FallBack
    \/ SubmitCollabRefund \/ SubmitRefund \/ CollabDelegateRefund \/ DelegateRefund
    \/ ClaimFails \/ RefundFails \/ ArkadeCrash
    \/ \E d \in Deposits : Deposit(d) \/ BatchExpires(d) \/ ServerTakes(d)
    \/ LocktimePasses

ArkadeSpec == ArkadeInit /\ [][ArkadeNext]_arkadeVars

-----------------------------------------------------------------------------
ArkadeTypeOK ==
    /\ side \in Sides /\ terms \in {"match", "other"}
    /\ vtxo \in [Deposits -> {"none", "live", "stale", "pending", "taken", "lost"}]
    /\ late \in BOOLEAN /\ revealed \in BOOLEAN
    /\ spend.takes \subseteq Deposits /\ spend.saw \subseteq Deposits
    /\ answer.is \in {"none", "not_funded", "spent"} /\ answer.saw \subseteq Deposits

\* A claim told that its VTXOs are spent, because no transaction of theirs is pending, left
\* none of those it saw unclaimed: no crash between submitting and finalizing, and no
\* deposit spent under the call, hides money from the caller (claimArkade).
SpentIsFinal ==
    answer.is = "spent" /\ answer.because = "noPending" =>
        \A d \in answer.saw : vtxo[d] \notin {"live", "stale", "pending"}
==============================================================================
