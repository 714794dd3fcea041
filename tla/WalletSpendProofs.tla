-------------------------- MODULE WalletSpendProofs --------------------------
(***************************************************************************)
(* What the TypeScript wallet says of the spends it made, proved for every   *)
(* value of the constants: of VTXOs, of the EVM lock, of the outputs of the *)
(* Bitcoin HTLC; what its readers report as funded; and whose lock it is    *)
(* that it refunds.                                                        *)
(***************************************************************************)
EXTENDS VhtlcSpend, EvmClaim, BitcoinHtlc, LegReaders, EvmAuthority, FiniteSetTheorems,
        WellFoundedInduction, TLAPS

-----------------------------------------------------------------------------
(* Arkade.  A VTXO moves one way: once submitted it is never spendable      *)
(* again, once taken or lost it is never pending.                          *)

VtxoStates == {"none", "live", "stale", "pending", "taken", "lost"}

\* Where a call goes without a claim about what it takes.
ArkadeSteps ==
    {"idle", "resume", "delegate", "build", "submit", "settle", "buildRefund", "cosign",
     "submitRefund"}
FinalizeSteps == {"finalize", "finalizeSpent"}

ArkadeCallOK ==
    /\ spend \in [at : ArkadeSteps \cup FinalizeSteps \cup {"continue"}, takes : SUBSET Deposits,
                  saw : SUBSET Deposits, collab : BOOLEAN]
    /\ spend.at = "continue" => \A d \in spend.saw : vtxo[d] \in {"pending", "taken", "lost"}
    /\ spend.at \in FinalizeSteps => \A d \in spend.takes : vtxo[d] \in {"pending", "taken", "lost"}

ArkadeAnswerOK ==
    /\ answer \in [is : {"none", "not_funded", "spent"}, saw : SUBSET Deposits,
                   because : {"none", "noPending", "failed", "status"}]
    /\ answer.is = "spent" /\ answer.because = "noPending" =>
          \A d \in answer.saw : vtxo[d] \in {"taken", "lost"}

\* A call that is about to report its VTXOs spent saw none that is not submitted, taken or
\* lost, one that finalizes takes none either, and what was reported spent is gone.
ArkadeInv == vtxo \in [Deposits -> VtxoStates] /\ ArkadeCallOK /\ ArkadeAnswerOK

\* What was submitted never becomes spendable again, nor what is gone anything else.
VtxosSettle ==
    /\ vtxo' \in [Deposits -> VtxoStates]
    /\ \A d \in Deposits :
          vtxo[d] \in {"pending", "taken", "lost"} => vtxo'[d] \in {"pending", "taken", "lost"}
    /\ \A d \in Deposits : vtxo[d] \in {"taken", "lost"} => vtxo'[d] \in {"taken", "lost"}

\* What was said of VTXOs that are gone stays true while they stay gone.
LEMMA ArkadeAnswerLasts ==
  ASSUME ArkadeInv, VtxosSettle, answer' = answer
  PROVE  ArkadeAnswerOK'
  BY DEF ArkadeInv, ArkadeAnswerOK, VtxosSettle

\* A call that ends claims nothing.
LEMMA ArkadeCallRests ==
  ASSUME Resets
  PROVE  ArkadeCallOK'
  BY DEF Resets, Resting, ArkadeCallOK, ArkadeSteps, FinalizeSteps

\* A call that waits still takes only what was submitted.
LEMMA ArkadeCallLasts ==
  ASSUME ArkadeInv, VtxosSettle, spend' = spend
  PROVE  ArkadeCallOK'
  BY DEF ArkadeInv, ArkadeCallOK, VtxosSettle

\* A call that goes on to build, submit or settle claims nothing yet.
LEMMA ArkadeCallGoesOn ==
  ASSUME ArkadeInv, NEW step \in ArkadeSteps, NEW T \in SUBSET Deposits, NEW c \in BOOLEAN,
         spend' = [spend EXCEPT !.at = step, !.takes = T, !.collab = c]
  PROVE  ArkadeCallOK'
  BY DEF ArkadeInv, ArkadeCallOK, ArkadeSteps, FinalizeSteps

\* A call that goes on to finalize takes only what was submitted.
LEMMA ArkadeCallFinalizes ==
  ASSUME ArkadeInv, NEW step \in FinalizeSteps, NEW T \in SUBSET Deposits,
         \/ spend' = [spend EXCEPT !.at = step, !.takes = T]
         \/ spend' = [Resting EXCEPT !.at = step, !.takes = T],
         \A d \in T : vtxo'[d] \in {"pending", "taken", "lost"}
  PROVE  ArkadeCallOK'
  <1>1. spend'.at = step /\ spend'.takes = T
    BY DEF ArkadeInv, ArkadeCallOK, Resting
  <1>2. spend' \in [at : ArkadeSteps \cup FinalizeSteps \cup {"continue"}, takes : SUBSET Deposits,
                    saw : SUBSET Deposits, collab : BOOLEAN]
    BY DEF ArkadeInv, ArkadeCallOK, Resting
  <1> QED
    BY <1>1, <1>2 DEF ArkadeCallOK, FinalizeSteps

\* A submission takes live VTXOs, all of them, or fails and the call ends.
LEMMA ArkadeCallSubmits ==
  ASSUME ArkadeInv, Submit([spend EXCEPT !.at = "finalize"])
  PROVE  VtxosSettle /\ ArkadeCallOK'
  <1>1. CASE Submittable
    <2>1. MovesTo(spend.takes, "pending")
      BY <1>1 DEF Submit
    <2>2. \A d \in spend.takes : d \in Deposits /\ vtxo[d] = "live"
      BY <1>1 DEF Submittable, ArkadeInv, ArkadeCallOK
    <2>3. VtxosSettle
      BY <2>1, <2>2 DEF MovesTo, VtxosSettle, ArkadeInv, VtxoStates
    <2>4. \A d \in spend.takes : vtxo'[d] = "pending"
      BY <2>1, <2>2 DEF MovesTo
    <2>5. CASE spend' = [spend EXCEPT !.at = "finalize"]
      <3>1. spend' = [spend EXCEPT !.at = "finalize", !.takes = spend.takes]
        BY <2>5 DEF ArkadeInv, ArkadeCallOK
      <3> QED
        BY <2>3, <2>4, <3>1, ArkadeCallFinalizes DEF ArkadeInv, ArkadeCallOK, FinalizeSteps
    <2>6. CASE Resets
      BY <2>3, <2>6, ArkadeCallRests
    <2> QED
      BY <1>1, <2>5, <2>6 DEF Submit
  <1>2. CASE ~Submittable
    BY <1>2, ArkadeCallRests DEF Submit, VtxosSettle, ArkadeInv
  <1> QED
    BY <1>1, <1>2

\* A batch settles what nothing has spent.
LEMMA ArkadeCallSettles ==
  ASSUME ArkadeInv, SettleAll
  PROVE  VtxosSettle
  BY DEF SettleAll, MovesTo, Unspent, InState, VtxosSettle, ArkadeInv, ArkadeCallOK, VtxoStates

\* The invariant is inductive, one step of the proof per action.
LEMMA ArkadeStep == ArkadeInv /\ [ArkadeNext]_arkadeVars => ArkadeInv'
  <1> SUFFICES ASSUME ArkadeInv, [ArkadeNext]_arkadeVars PROVE ArkadeInv'
    OBVIOUS
  <1>a. UNCHANGED vtxo => VtxosSettle
    BY DEF VtxosSettle, ArkadeInv
  <1>b. VtxosSettle => vtxo' \in [Deposits -> VtxoStates]
    BY DEF VtxosSettle
  <1>c. Unspent \subseteq Deposits /\ Pending \subseteq Deposits /\ \A d \in Pending : vtxo[d] = "pending"
    BY DEF Unspent, Pending, InState
  <1>d. spend.saw \subseteq Deposits /\ spend.takes \subseteq Deposits
    BY DEF ArkadeInv, ArkadeCallOK
  <1> USE ArkadeAnswerLasts, ArkadeCallRests, ArkadeCallLasts DEF ArkadeInv
  <1>1. CASE ClaimArkade
    <2>1. UNCHANGED vtxo /\ VtxosSettle
      BY <1>1, <1>a DEF ClaimArkade
    <2>2. ArkadeAnswerOK'
      BY <1>1 DEF ClaimArkade, NoAnswer, ArkadeAnswerOK
    <2>3. CASE VtxoStatus = "not_funded"
      BY <1>1, <2>1, <2>2, <2>3 DEF ClaimArkade
    <2>4. CASE VtxoStatus # "not_funded"
      <3>1. PICK step \in {"continue", "resume", "delegate"} :
               /\ spend' = [Resting EXCEPT !.saw = Funded, !.at = step]
               /\ step = "continue" => VtxoStatus = "spent"
        BY <1>1, <2>4 DEF ClaimArkade
      <3>2. VtxoStatus = "spent" => \A d \in Funded : vtxo[d] \in {"pending", "taken", "lost"}
        BY DEF VtxoStatus, Funded, InState, VtxoStates
      <3>3. Funded \subseteq Deposits
        BY DEF Funded
      <3>4. ArkadeCallOK'
        BY <2>1, <3>1, <3>2, <3>3 DEF ArkadeCallOK, Resting, ArkadeSteps, FinalizeSteps
      <3> QED
        BY <2>1, <2>2, <3>4
    <2> QED
      BY <2>3, <2>4
  <1>2. CASE ContinueSpent
    <2>1. UNCHANGED vtxo /\ VtxosSettle
      BY <1>2, <1>a DEF ContinueSpent
    <2>2. CASE spend' = [spend EXCEPT !.at = "finalizeSpent", !.takes = Pending] /\ UNCHANGED answer
      BY <2>1, <2>2, <1>c, ArkadeCallFinalizes DEF FinalizeSteps
    <2>3. CASE Pending = {} /\ Answers("spent", "noPending") /\ Resets
      <3>1. \A d \in spend.saw : vtxo[d] \in {"taken", "lost"}
        BY <1>2, <2>3, <1>d DEF ContinueSpent, AtStep, ArkadeCallOK, Pending, InState
      <3> QED
        BY <2>1, <2>3, <3>1, <1>d DEF Answers, ArkadeAnswerOK
    <2>4. CASE Answers("spent", "failed") /\ Resets
      BY <2>1, <2>4, <1>d DEF Answers, ArkadeAnswerOK
    <2> QED
      BY <1>2, <2>2, <2>3, <2>4 DEF ContinueSpent
  <1>3. CASE ContinueArkadeClaimSwap
    <2>1. UNCHANGED <<vtxo, answer>> /\ VtxosSettle
      BY <1>3, <1>a DEF ContinueArkadeClaimSwap
    <2>2. spend' = [Resting EXCEPT !.at = "finalize", !.takes = Pending]
      BY <1>3 DEF ContinueArkadeClaimSwap
    <2> QED
      BY <2>1, <2>2, <1>c, ArkadeCallFinalizes DEF FinalizeSteps
  <1>4. CASE ResumePending
    <2>1. UNCHANGED <<vtxo, answer>> /\ VtxosSettle
      BY <1>4, <1>a DEF ResumePending
    <2>2. CASE spend' = [spend EXCEPT !.at = "finalize", !.takes = Pending]
      BY <2>1, <2>2, <1>c, ArkadeCallFinalizes DEF FinalizeSteps
    <2>3. CASE spend' = [spend EXCEPT !.at = "build"]
      <3>1. spend' = [spend EXCEPT !.at = "build", !.takes = spend.takes, !.collab = spend.collab]
        BY <2>3 DEF ArkadeCallOK
      <3> QED
        BY <2>1, <3>1, <1>d, ArkadeCallGoesOn DEF ArkadeSteps, ArkadeCallOK
    <2> QED
      BY <1>4, <2>2, <2>3 DEF ResumePending
  <1>5. CASE BuildArkadeClaim \/ SettleDelegate \/ BuildCollabRefund \/ BuildRefund
    <2>1. UNCHANGED <<vtxo, answer>> /\ VtxosSettle
      BY <1>5, <1>a DEF BuildArkadeClaim, SettleDelegate, BuildCollabRefund, BuildRefund
    <2>2. \/ Resets
          \/ \E step \in {"submit", "settle", "cosign", "submitRefund"} :
                spend' = [spend EXCEPT !.at = step, !.takes = Unspent]
      BY <1>5 DEF BuildArkadeClaim, SettleDelegate, BuildCollabRefund, BuildRefund
    <2>3. ASSUME NEW step \in {"submit", "settle", "cosign", "submitRefund"},
                 spend' = [spend EXCEPT !.at = step, !.takes = Unspent]
          PROVE  ArkadeCallOK'
      <3>1. spend' = [spend EXCEPT !.at = step, !.takes = Unspent, !.collab = spend.collab]
        BY <2>3 DEF ArkadeCallOK
      <3> QED
        BY <3>1, <1>c, ArkadeCallGoesOn DEF ArkadeSteps, ArkadeCallOK
    <2> QED
      BY <2>1, <2>2, <2>3
  <1>6. CASE SubmitClaim \/ SubmitCollabRefund \/ SubmitRefund
    BY <1>6, ArkadeCallSubmits, <1>b DEF SubmitClaim, SubmitCollabRefund, SubmitRefund
  <1>7. CASE FinalizeTx
    <2>1. \A d \in spend.takes : vtxo[d] \in {"pending", "taken", "lost"}
      BY <1>7 DEF FinalizeTx, ArkadeCallOK, FinalizeSteps
    <2>2. VtxosSettle
      BY <1>7, <2>1, <1>d DEF FinalizeTx, MovesTo, VtxosSettle, VtxoStates
    <2> QED
      BY <1>7, <2>2, <1>b DEF FinalizeTx
  <1>8. CASE FinalizeFails
    <2>1. UNCHANGED vtxo /\ VtxosSettle /\ Resets
      BY <1>8, <1>a DEF FinalizeFails
    <2>2. CASE UNCHANGED answer
      BY <2>1, <2>2
    <2>3. CASE Answers("spent", "failed")
      BY <2>1, <2>3, <1>d DEF Answers, ArkadeAnswerOK
    <2> QED
      BY <1>8, <2>2, <2>3 DEF FinalizeFails
  <1>9. CASE DelegateClaim \/ CollabDelegateRefund \/ DelegateRefund
    BY <1>9, <1>b, ArkadeCallSettles DEF DelegateClaim, CollabDelegateRefund, DelegateRefund
  <1>10. CASE RefundSwap
    <2>1. UNCHANGED vtxo /\ VtxosSettle
      BY <1>10, <1>a DEF RefundSwap
    <2>2. Funded \subseteq Deposits
      BY DEF Funded
    <2>3. CASE VtxoStatus \in {"not_funded", "spent"}
      BY <1>10, <2>1, <2>2, <2>3 DEF RefundSwap, ArkadeAnswerOK
    <2>4. CASE VtxoStatus \notin {"not_funded", "spent"}
      <3>1. PICK step \in {"buildRefund", "delegate"} :
               spend' = [Resting EXCEPT !.collab = TRUE, !.saw = Funded, !.at = step]
        BY <1>10, <2>4 DEF RefundSwap
      <3>2. ArkadeCallOK'
        BY <2>2, <3>1 DEF ArkadeCallOK, Resting, ArkadeSteps, FinalizeSteps
      <3> QED
        BY <1>10, <2>1, <2>4, <3>2 DEF RefundSwap, NoAnswer, ArkadeAnswerOK
    <2> QED
      BY <2>3, <2>4
  <1>11. CASE Cosigned
    <2>1. UNCHANGED <<vtxo, answer>> /\ VtxosSettle
      BY <1>11, <1>a DEF Cosigned
    <2>2. spend' = [spend EXCEPT !.at = "submitRefund", !.takes = spend.takes, !.collab = spend.collab]
      BY <1>11 DEF Cosigned, ToStep, ArkadeCallOK
    <2> QED
      BY <2>1, <2>2, <1>d, ArkadeCallGoesOn DEF ArkadeSteps, ArkadeCallOK
  <1>12. CASE FallBack
    <2>1. UNCHANGED <<vtxo, answer>> /\ VtxosSettle
      BY <1>12, <1>a DEF FallBack
    <2>2. CASE late
      <3>1. PICK step \in {"delegate", "buildRefund"} :
               spend' = [spend EXCEPT !.collab = FALSE, !.takes = {}, !.at = step]
        BY <1>12, <2>2 DEF FallBack
      <3>2. ArkadeCallOK'
        BY <3>1 DEF ArkadeCallOK, ArkadeSteps, FinalizeSteps
      <3> QED
        BY <2>1, <3>2
    <2>3. CASE ~late
      <3>1. Resets
        BY <1>12, <2>3 DEF FallBack
      <3> QED
        BY <2>1, <3>1
    <2> QED
      BY <2>2, <2>3
  <1>13. CASE ClaimFails \/ RefundFails \/ ArkadeCrash
    <2>1. UNCHANGED <<vtxo, answer>> /\ VtxosSettle /\ Resets
      BY <1>13, <1>a DEF ClaimFails, RefundFails, ArkadeCrash
    <2> QED
      BY <2>1
  <1>14. ASSUME NEW d \in Deposits, Deposit(d) \/ BatchExpires(d) \/ ServerTakes(d)
         PROVE  ArkadeInv'
    <2>1. VtxosSettle /\ UNCHANGED <<spend, answer>>
      BY <1>14 DEF Deposit, BatchExpires, ServerTakes, MovesTo, VtxosSettle, VtxoStates
    <2> QED
      BY <2>1, <1>b
  <1>15. CASE LocktimePasses \/ UNCHANGED arkadeVars
    <2>1. UNCHANGED <<vtxo, spend, answer>> /\ VtxosSettle
      BY <1>15, <1>a DEF LocktimePasses, arkadeVars
    <2> QED
      BY <2>1
  <1> QED
    BY <1>1, <1>2, <1>3, <1>4, <1>5, <1>6, <1>7, <1>8, <1>9, <1>10, <1>11, <1>12, <1>13, <1>14,
       <1>15 DEF ArkadeNext

\* What a claim or a refund reports spent because it found nothing pending left is gone: no
\* VTXO it saw is spendable or waits for its last signature (arkade.ts
\* continueArkadeClaimSwap, arkade-refund.ts).
THEOREM ArkadeSpentIsFinal == ArkadeSpec => []SpentIsFinal
  <1>1. ArkadeInit => ArkadeInv
    BY DEF ArkadeInit, ArkadeInv, ArkadeCallOK, ArkadeAnswerOK, VtxoStates, ArkadeSteps,
           FinalizeSteps, Resting, NoAnswer
  <1>2. ArkadeInv => SpentIsFinal
    BY DEF ArkadeInv, ArkadeAnswerOK, SpentIsFinal
  <1> QED
    BY <1>1, <1>2, ArkadeStep, PTL DEF ArkadeSpec

\* Which end the user holds and whether the terms match never change; late and revealed are
\* truths.
ArkadeShape ==
    /\ side \in Sides /\ terms \in {"match", "other"}
    /\ late \in BOOLEAN /\ revealed \in BOOLEAN

LEMMA ArkadeShapeStep == ArkadeShape /\ [ArkadeNext]_arkadeVars => ArkadeShape'
  <1> SUFFICES ASSUME ArkadeShape, [ArkadeNext]_arkadeVars PROVE ArkadeShape'
    OBVIOUS
  <1>1. UNCHANGED <<side, terms>> /\ (late' = late \/ late' = TRUE) /\ (revealed' = revealed \/ revealed' = TRUE)
    <2>1. CASE \/ ClaimArkade \/ ContinueSpent \/ ContinueArkadeClaimSwap \/ ResumePending
               \/ BuildArkadeClaim \/ FinalizeTx \/ FinalizeFails \/ SettleDelegate
      BY <2>1 DEF ClaimArkade, ContinueSpent, ContinueArkadeClaimSwap, ResumePending, BuildArkadeClaim,
         FinalizeTx, FinalizeFails, SettleDelegate
    <2>2. CASE SubmitClaim \/ DelegateClaim
      BY <2>2 DEF SubmitClaim, DelegateClaim
    <2>3. CASE RefundSwap \/ BuildCollabRefund \/ BuildRefund \/ Cosigned \/ FallBack
      BY <2>3 DEF RefundSwap, BuildCollabRefund, BuildRefund, Cosigned, FallBack
    <2>4. CASE \/ SubmitCollabRefund \/ SubmitRefund \/ CollabDelegateRefund \/ DelegateRefund
               \/ ClaimFails \/ RefundFails \/ ArkadeCrash
      BY <2>4 DEF SubmitCollabRefund, SubmitRefund, CollabDelegateRefund, DelegateRefund, ClaimFails, RefundFails,
         ArkadeCrash
    <2>5. CASE (\E d \in Deposits : Deposit(d) \/ BatchExpires(d) \/ ServerTakes(d)) \/ LocktimePasses
      BY <2>5 DEF Deposit, BatchExpires, ServerTakes, LocktimePasses
    <2>6. CASE UNCHANGED arkadeVars
      BY <2>6 DEF arkadeVars
    <2> QED
      BY <2>1, <2>2, <2>3, <2>4, <2>5, <2>6 DEF ArkadeNext
  <1> QED
    BY <1>1 DEF ArkadeShape

\* The variables of the Arkade VHTLC keep their types.
THEOREM ArkadeTypes == ArkadeSpec => []ArkadeTypeOK
  <1>1. ArkadeInit => ArkadeShape /\ ArkadeInv
    <2>1. ArkadeInit => ArkadeShape
      BY DEF ArkadeInit, ArkadeShape
    <2>2. ArkadeInit => ArkadeInv
      BY DEF ArkadeInit, ArkadeInv, ArkadeCallOK, ArkadeAnswerOK, VtxoStates, ArkadeSteps, FinalizeSteps, Resting,
         NoAnswer
    <2> QED
      BY <2>1, <2>2
  <1>2. ArkadeShape /\ ArkadeInv => ArkadeTypeOK
    BY DEF ArkadeShape, ArkadeInv, ArkadeCallOK, ArkadeAnswerOK, ArkadeTypeOK, VtxoStates
  <1> QED
    BY <1>1, <1>2, ArkadeStep, ArkadeShapeStep, PTL DEF ArkadeSpec

-----------------------------------------------------------------------------
(* The EVM lock.  A claim that succeeded took it, and nothing gives it back. *)

ClaimTx ==
    [by : {"userop", "relay", "rif", "wallet"}, claims : BOOLEAN,
     state : {"pending", "success", "reverted", "replaced"}, next : Nat]

\* Steps that await a transaction of this call, that look one up, and the others.
AwaitsTx == {"receipt", "relayed", "wait"}
AwaitsNothing ==
    {"idle", "calls", "walletCalls", "publish", "simulate", "calldata", "post", "estimate",
     "relay", "send"}
ClaimTask == [at : AwaitsNothing \cup AwaitsTx \cup {"identify"}, tx : Nat]

ProvesNothing == {"nothing", "failed", "walletRequired", "already", "relayed", "unverified"}
ClaimOutcome == ProvesNothing \cup {"redeemed", "notSubmitted"}

LockOK ==
    /\ lock \in {"locked", "claimed", "refunded"}
    /\ sent \in Seq(ClaimTx)
    /\ \A i \in DOMAIN sent : sent[i].claims /\ sent[i].state = "success" => lock = "claimed"

ClaimTasksOK ==
    /\ task \in [Claimants -> ClaimTask]
    /\ \A a \in Claimants :
          /\ task[a].at \in AwaitsTx => task[a].tx \in DOMAIN sent /\ sent[task[a].tx].claims
          /\ task[a].at = "identify" =>
                task[a].tx \in DOMAIN sent /\ sent[task[a].tx].state = "success"

\* A claim that succeeded took the lock; a call awaits a claim of its own, and reads back a
\* transaction that succeeded.
ClaimInv ==
    LockOK /\ ClaimTasksOK /\ ended \in [Claimants -> ClaimOutcome] /\ OutcomeIsTrue

\* What no step takes back: the lock taken, and what was sent and mined.
ClaimChainLasts ==
    /\ swap' = swap
    /\ lock = "claimed" => lock' = "claimed"
    /\ DOMAIN sent \subseteq DOMAIN sent'
    /\ \A i \in DOMAIN sent :
          sent'[i].claims = sent[i].claims /\ (sent[i].state = "success" => sent'[i].state = "success")

\* A call goes somewhere without a transaction, or to one it may be about.
LEMMA ClaimTaskMoves ==
  ASSUME ClaimInv, ClaimChainLasts, NEW a \in Claimants, NEW t \in ClaimTask,
         task' = [task EXCEPT ![a] = t],
         t.at \in AwaitsTx => t.tx \in DOMAIN sent' /\ sent'[t.tx].claims,
         t.at = "identify" => t.tx \in DOMAIN sent' /\ sent'[t.tx].state = "success"
  PROVE  ClaimTasksOK'
  BY DEF ClaimInv, ClaimTasksOK, ClaimChainLasts

LEMMA ClaimTaskLasts ==
  ASSUME ClaimInv, ClaimChainLasts, task' = task
  PROVE  ClaimTasksOK'
  BY DEF ClaimInv, ClaimTasksOK, ClaimChainLasts

\* An outcome that was true stays true.
LEMMA ClaimOutcomeLasts ==
  ASSUME ClaimInv, ClaimChainLasts, ended' = ended
  PROVE  OutcomeIsTrue' /\ ended' \in [Claimants -> ClaimOutcome]
  BY DEF ClaimInv, ClaimChainLasts, OutcomeIsTrue

\* A call ends, and what it says is true.
LEMMA ClaimCallEnds ==
  ASSUME ClaimInv, ClaimChainLasts, NEW a \in Claimants, NEW o \in ClaimOutcome, EndsWith(a, o),
         o = "redeemed" =>
            lock' = "claimed" \/ (~Native(swap) /\ \E i \in DOMAIN sent' : ~sent'[i].claims),
         o = "notSubmitted" =>
            \E i \in DOMAIN sent' : ~sent'[i].claims /\ sent'[i].state = "success"
  PROVE  ClaimTasksOK' /\ OutcomeIsTrue' /\ ended' \in [Claimants -> ClaimOutcome]
  <1>1. ClaimTasksOK'
    <2>1. task' = [task EXCEPT ![a] = NoClaim]
      BY DEF EndsWith
    <2>2. NoClaim \in ClaimTask /\ NoClaim.at = "idle"
      BY DEF NoClaim, ClaimTask, AwaitsNothing
    <2> QED
      BY <2>1, <2>2, ClaimTaskMoves DEF AwaitsTx
  <1>2. ended' = [ended EXCEPT ![a] = o]
    BY DEF EndsWith
  <1>3. ended' \in [Claimants -> ClaimOutcome]
    BY <1>2 DEF ClaimInv
  <1>4. ASSUME NEW b \in Claimants, ended'[b] = "redeemed"
        PROVE  lock' = "claimed" \/ (~Native(swap) /\ \E i \in DOMAIN sent' : ~sent'[i].claims)
    <2>1. CASE b = a
      BY <1>2, <1>4, <2>1 DEF ClaimInv
    <2>2. CASE b # a
      <3>1. ended[b] = "redeemed"
        BY <1>2, <1>4, <2>2 DEF ClaimInv
      <3> QED
        BY <3>1 DEF ClaimInv, ClaimChainLasts, OutcomeIsTrue
    <2> QED
      BY <2>1, <2>2
  <1>5. ASSUME NEW b \in Claimants, ended'[b] = "notSubmitted"
        PROVE  \E i \in DOMAIN sent' : ~sent'[i].claims /\ sent'[i].state = "success"
    <2>1. CASE b = a
      BY <1>2, <1>5, <2>1 DEF ClaimInv
    <2>2. CASE b # a
      <3>1. ended[b] = "notSubmitted"
        BY <1>2, <1>5, <2>2 DEF ClaimInv
      <3> QED
        BY <3>1 DEF ClaimInv, ClaimChainLasts, OutcomeIsTrue
    <2> QED
      BY <2>1, <2>2
  <1>6. Native(swap') = Native(swap)
    BY DEF ClaimChainLasts
  <1> QED
    BY <1>1, <1>3, <1>4, <1>5, <1>6 DEF OutcomeIsTrue

\* A step of a call that leaves the chain alone and goes on, or ends with nothing proved.
LEMMA ClaimCallStep ==
  ASSUME ClaimInv, UNCHANGED Chain, NEW a \in Claimants,
         \/ \E step \in AwaitsNothing : GoesTo(a, step)
         \/ \E outcome \in ProvesNothing : EndsWith(a, outcome)
  PROVE  ClaimInv'
  <1>1. LockOK' /\ ClaimChainLasts
    BY DEF ClaimInv, LockOK, ClaimChainLasts, Chain
  <1>2. ASSUME NEW step \in AwaitsNothing, GoesTo(a, step)
        PROVE  ClaimInv'
    <2>0. task[a] \in ClaimTask /\ task \in [Claimants -> ClaimTask]
      BY DEF ClaimInv, ClaimTasksOK
    <2>1. task' = [task EXCEPT ![a] = [at |-> step, tx |-> task[a].tx]] /\ ended' = ended
      <3>1. [task[a] EXCEPT !.at = step] = [at |-> step, tx |-> task[a].tx]
        BY <2>0 DEF ClaimTask
      <3>2. task' = [task EXCEPT ![a] = [task[a] EXCEPT !.at = step]] /\ ended' = ended
        BY <1>2, <2>0 DEF GoesTo
      <3> QED
        BY <3>1, <3>2
    <2>2. [at |-> step, tx |-> task[a].tx] \in ClaimTask
      BY DEF ClaimInv, ClaimTasksOK, ClaimTask
    <2>3. ClaimTasksOK'
      BY <1>1, <2>1, <2>2, ClaimTaskMoves DEF AwaitsNothing, AwaitsTx
    <2> QED
      BY <1>1, <2>1, <2>3, ClaimOutcomeLasts DEF ClaimInv
  <1>3. ASSUME NEW outcome \in ProvesNothing, EndsWith(a, outcome)
        PROVE  ClaimInv'
    BY <1>1, <1>3, ClaimCallEnds DEF ClaimInv, ProvesNothing, ClaimOutcome
  <1> QED
    BY <1>2, <1>3

\* A transaction that joins the others.
LEMMA ClaimTxJoins ==
  ASSUME ClaimInv, NEW tx \in ClaimTx, tx.state = "pending", sent' = Append(sent, tx),
         UNCHANGED <<swap, lock>>
  PROVE  /\ LockOK' /\ ClaimChainLasts
         /\ Len(sent) \in Nat
         /\ Len(sent) + 1 \in DOMAIN sent' /\ sent'[Len(sent) + 1] = tx
  <1>1. /\ sent' \in Seq(ClaimTx) /\ DOMAIN sent' = 1..(Len(sent) + 1) /\ DOMAIN sent = 1..Len(sent)
        /\ Len(sent) \in Nat /\ \A i \in 1..Len(sent) : sent'[i] = sent[i]
        /\ sent'[Len(sent) + 1] = tx
    BY DEF ClaimInv, LockOK
  <1>2. \A i \in DOMAIN sent' : i \in DOMAIN sent \/ i = Len(sent) + 1
    BY <1>1
  <1>3. LockOK'
    BY <1>1, <1>2 DEF ClaimInv, LockOK
  <1> QED
    BY <1>1, <1>3 DEF ClaimChainLasts

\* A transaction whose fate is decided is the same transaction.
LEMMA ClaimTxDecided ==
  ASSUME NEW tx \in ClaimTx, NEW s \in {"pending", "success", "reverted", "replaced"}, NEW n \in Nat
  PROVE  /\ [tx EXCEPT !.state = s] = [by |-> tx.by, claims |-> tx.claims, state |-> s, next |-> tx.next]
         /\ [tx EXCEPT !.state = s, !.next = n]
               = [by |-> tx.by, claims |-> tx.claims, state |-> s, next |-> n]
         /\ [by |-> tx.by, claims |-> tx.claims, state |-> s, next |-> tx.next] \in ClaimTx
         /\ [by |-> tx.by, claims |-> tx.claims, state |-> s, next |-> n] \in ClaimTx
  <1>1. [tx EXCEPT !.state = s] = [by |-> tx.by, claims |-> tx.claims, state |-> s, next |-> tx.next]
    BY DEF ClaimTx
  <1>2. [tx EXCEPT !.state = s, !.next = n]
               = [by |-> tx.by, claims |-> tx.claims, state |-> s, next |-> n]
    <2>1. [tx EXCEPT !.state = s, !.next = n] = [[tx EXCEPT !.state = s] EXCEPT !.next = n]
      BY DEF ClaimTx
    <2>2. [[by |-> tx.by, claims |-> tx.claims, state |-> s, next |-> tx.next] EXCEPT !.next = n]
             = [by |-> tx.by, claims |-> tx.claims, state |-> s, next |-> n]
      OBVIOUS
    <2> QED
      BY <1>1, <2>1, <2>2
  <1>3. tx.by \in {"userop", "relay", "rif", "wallet"} /\ tx.claims \in BOOLEAN /\ tx.next \in Nat
    BY DEF ClaimTx
  <1>4. [by |-> tx.by, claims |-> tx.claims, state |-> s, next |-> tx.next] \in ClaimTx
    BY <1>3 DEF ClaimTx
  <1>5. [by |-> tx.by, claims |-> tx.claims, state |-> s, next |-> n] \in ClaimTx
    BY <1>3 DEF ClaimTx
  <1> QED
    BY <1>1, <1>2, <1>4, <1>5

\* The invariant is inductive.
LEMMA ClaimStep == ClaimInv /\ [ClaimNext]_claimVars => ClaimInv'
  <1> SUFFICES ASSUME ClaimInv, [ClaimNext]_claimVars PROVE ClaimInv'
    OBVIOUS
  <1>0. ASSUME UNCHANGED Chain PROVE LockOK' /\ ClaimChainLasts
    BY <1>0 DEF ClaimInv, LockOK, ClaimChainLasts, Chain
  <1>1. ASSUME NEW a \in Claimants, ClaimViaGasless(a) \/ FetchArbitrumHubCalls(a) \/ UserOpFails(a)
                   \/ FetchRedeemCalldata(a) \/ AlreadyClaimed(a) \/ PostFails(a)
                   \/ ClaimEvmWithSigner(a) \/ RifEstimate(a) \/ SimulateClaim(a) \/ Declines(a)
                   \/ ReceiptFails(a)
        PROVE  ClaimInv'
    <2> USE ClaimCallStep DEF AwaitsNothing, ProvesNothing
    <2>1. CASE ClaimViaGasless(a)
      BY <2>1 DEF ClaimViaGasless
    <2>2. CASE FetchArbitrumHubCalls(a)
      BY <2>2 DEF FetchArbitrumHubCalls
    <2>3. CASE UserOpFails(a)
      BY <2>3 DEF UserOpFails, Degrades
    <2>4. CASE FetchRedeemCalldata(a) \/ AlreadyClaimed(a) \/ PostFails(a)
      BY <2>4 DEF FetchRedeemCalldata, AlreadyClaimed, PostFails
    <2>5. CASE ClaimEvmWithSigner(a)
      BY <2>5 DEF ClaimEvmWithSigner
    <2>6. CASE RifEstimate(a)
      BY <2>6 DEF RifEstimate
    <2>7. CASE SimulateClaim(a)
      BY <2>7 DEF SimulateClaim
    <2>8. CASE Declines(a) \/ ReceiptFails(a)
      BY <2>8 DEF Declines, ReceiptFails
    <2> QED
      BY <1>1, <2>1, <2>2, <2>3, <2>4, <2>5, <2>6, <2>7, <2>8
  <1>2. ASSUME NEW a \in Claimants, ClaimViaUserOp(a) \/ ClaimNativeViaRifRelay(a) \/ ClaimViaSigner(a)
        PROVE  ClaimInv'
    <2>1. PICK by \in {"userop", "rif", "wallet"}, step \in AwaitsTx : Carries(a, by, step)
      BY <1>2 DEF ClaimViaUserOp, ClaimNativeViaRifRelay, ClaimViaSigner, AwaitsTx
    <2>2. UNCHANGED <<swap, lock, ended>>
      BY <1>2 DEF ClaimViaUserOp, ClaimNativeViaRifRelay, ClaimViaSigner
    <2>3. /\ Carrying(by, TRUE) \in ClaimTx /\ Carrying(by, TRUE).claims
          /\ Carrying(by, TRUE).state = "pending"
      BY DEF Carrying, ClaimTx
    <2>4. /\ sent' = Append(sent, Carrying(by, TRUE))
          /\ task' = [task EXCEPT ![a] = [at |-> step, tx |-> Len(sent) + 1]]
      BY <2>1 DEF Carries
    <2>5. /\ LockOK' /\ ClaimChainLasts /\ Len(sent) \in Nat
          /\ Len(sent) + 1 \in DOMAIN sent' /\ sent'[Len(sent) + 1].claims
      BY <2>2, <2>3, <2>4, ClaimTxJoins
    <2>6. [at |-> step, tx |-> Len(sent) + 1] \in ClaimTask
      BY <2>5 DEF ClaimTask
    <2>7. ClaimTasksOK'
      BY <2>4, <2>5, <2>6, ClaimTaskMoves DEF AwaitsTx
    <2> QED
      BY <2>2, <2>5, <2>7, ClaimOutcomeLasts DEF ClaimInv
  <1>3. ASSUME NEW a \in Claimants, PostClaim(a)
        PROVE  ClaimInv'
    <2>1. /\ Carrying("relay", TRUE) \in ClaimTx /\ Carrying("relay", TRUE).state = "pending"
      BY DEF Carrying, ClaimTx
    <2>2. /\ sent' = Append(sent, Carrying("relay", TRUE)) /\ UNCHANGED <<swap, lock>>
          /\ \E outcome \in ProvesNothing : EndsWith(a, outcome)
      BY <1>3 DEF PostClaim, ProvesNothing
    <2>3. LockOK' /\ ClaimChainLasts
      BY <2>1, <2>2, ClaimTxJoins
    <2> QED
      BY <2>2, <2>3, ClaimCallEnds DEF ClaimInv, ProvesNothing, ClaimOutcome
  <1>4. ASSUME NEW a \in Claimants, UserOpIncluded(a) \/ RifMined(a)
        PROVE  ClaimInv'
    <2>1. LockOK' /\ ClaimChainLasts /\ UNCHANGED <<lock, sent>>
      BY <1>0, <1>4 DEF UserOpIncluded, RifMined, Chain
    <2>2. task[a].tx \in DOMAIN sent /\ sent[task[a].tx].claims
      BY <1>4 DEF UserOpIncluded, RifMined, Stands, AwaitsTx, ClaimInv, ClaimTasksOK
    <2>3. \/ EndsWith(a, "failed")
          \/ EndsWith(a, "redeemed") /\ sent[task[a].tx].state = "success"
      BY <1>4 DEF UserOpIncluded, RifMined
    <2>4. sent[task[a].tx].state = "success" => lock' = "claimed"
      BY <2>1, <2>2 DEF ClaimInv, LockOK
    <2> QED
      BY <2>1, <2>3, <2>4, ClaimCallEnds DEF ClaimInv, ClaimOutcome, ProvesNothing
  <1>5. ASSUME NEW a \in Claimants, ClaimMined(a)
        PROVE  ClaimInv'
    <2>1. LockOK' /\ ClaimChainLasts /\ UNCHANGED <<lock, sent>>
      BY <1>0, <1>5 DEF ClaimMined, Chain
    <2>2. PICK mined \in DOMAIN sent :
            \/ EndsWith(a, "failed")
            \/ /\ sent[mined].state = "success"
               /\ task' = [task EXCEPT ![a] = [at |-> "identify", tx |-> mined]]
               /\ UNCHANGED ended
            \/ /\ sent[mined].state = "success" /\ (~Native(swap) \/ mined = task[a].tx)
               /\ EndsWith(a, "redeemed")
      BY <1>5 DEF ClaimMined
    <2>3. CASE EndsWith(a, "failed")
      BY <2>1, <2>3, ClaimCallEnds DEF ClaimInv, ClaimOutcome, ProvesNothing
    <2>4. CASE /\ sent[mined].state = "success"
               /\ task' = [task EXCEPT ![a] = [at |-> "identify", tx |-> mined]]
               /\ UNCHANGED ended
      <3>1. [at |-> "identify", tx |-> mined] \in ClaimTask
        BY DEF ClaimInv, LockOK, ClaimTask
      <3>2. ClaimTasksOK'
        BY <2>1, <2>4, <3>1, ClaimTaskMoves DEF AwaitsTx
      <3> QED
        BY <2>1, <2>4, <3>2, ClaimOutcomeLasts DEF ClaimInv
    <2>5. CASE /\ sent[mined].state = "success" /\ (~Native(swap) \/ mined = task[a].tx)
               /\ EndsWith(a, "redeemed")
      <3>1. sent[mined].claims => lock' = "claimed"
        BY <2>1, <2>5 DEF ClaimInv, LockOK
      <3>2. mined = task[a].tx => sent[mined].claims
        BY <1>5 DEF ClaimMined, Stands, AwaitsTx, ClaimInv, ClaimTasksOK
      <3>3. lock' = "claimed" \/ (~Native(swap) /\ \E i \in DOMAIN sent' : ~sent'[i].claims)
        BY <2>1, <2>5, <3>1, <3>2
      <3> QED
        BY <2>1, <2>5, <3>3, ClaimCallEnds DEF ClaimInv, ClaimOutcome
    <2> QED
      BY <2>2, <2>3, <2>4, <2>5
  <1>6. ASSUME NEW a \in Claimants, IdentifyClaim(a)
        PROVE  ClaimInv'
    <2>1. LockOK' /\ ClaimChainLasts /\ UNCHANGED <<lock, sent>>
      BY <1>0, <1>6 DEF IdentifyClaim, Chain
    <2>2. task[a].tx \in DOMAIN sent /\ sent[task[a].tx].state = "success"
      BY <1>6 DEF IdentifyClaim, Stands, ClaimInv, ClaimTasksOK
    <2>3. CASE EndsWith(a, "unverified")
      BY <2>1, <2>3, ClaimCallEnds DEF ClaimInv, ClaimOutcome, ProvesNothing
    <2>4. CASE sent[task[a].tx].claims /\ EndsWith(a, "redeemed")
      <3>1. lock' = "claimed"
        BY <2>1, <2>2, <2>4 DEF ClaimInv, LockOK
      <3> QED
        BY <2>1, <2>4, <3>1, ClaimCallEnds DEF ClaimInv, ClaimOutcome
    <2>5. CASE ~sent[task[a].tx].claims /\ EndsWith(a, "notSubmitted")
      BY <2>1, <2>2, <2>5, ClaimCallEnds DEF ClaimInv, ClaimOutcome
    <2> QED
      BY <1>6, <2>3, <2>4, <2>5 DEF IdentifyClaim
  <1>7. CASE Restarts
    <2>1. LockOK' /\ ClaimChainLasts /\ ended' = ended
      BY <1>0, <1>7 DEF Restarts, Chain
    <2>2. ClaimTasksOK'
      BY <1>7 DEF Restarts, NoClaim, ClaimTasksOK, ClaimTask, AwaitsNothing, AwaitsTx
    <2> QED
      BY <2>1, <2>2, ClaimOutcomeLasts DEF ClaimInv
  <1>8. ASSUME NEW i \in DOMAIN sent, MineClaim(i)
        PROVE  ClaimInv'
    <2> DEFINE succeeds == sent[i].claims => lock = "locked"
    <2>1. /\ sent' = [sent EXCEPT ![i].state = IF succeeds THEN "success" ELSE "reverted"]
          /\ lock' = IF succeeds /\ sent[i].claims THEN "claimed" ELSE lock
          /\ sent[i].state = "pending" /\ UNCHANGED <<swap, task, ended>>
      BY <1>8 DEF MineClaim
    <2> DEFINE s == IF succeeds THEN "success" ELSE "reverted"
               mined == [by |-> sent[i].by, claims |-> sent[i].claims, state |-> s, next |-> sent[i].next]
    <2>a. sent[i] \in ClaimTx /\ sent \in Seq(ClaimTx)
      BY DEF ClaimInv, LockOK
    <2>b. [sent[i] EXCEPT !.state = s] = mined /\ mined \in ClaimTx
      BY <2>a, ClaimTxDecided
    <2>c. sent' = [sent EXCEPT ![i] = [sent[i] EXCEPT !.state = s]]
      BY <2>1, <2>a
    <2>d. sent' = [sent EXCEPT ![i] = mined] /\ mined.claims = sent[i].claims /\ mined.state = s
      BY <2>b, <2>c
    <2> HIDE DEF mined
    <2>2. sent' \in Seq(ClaimTx) /\ DOMAIN sent' = DOMAIN sent
      BY <2>a, <2>b, <2>d
    <2>3. \A j \in DOMAIN sent : j # i => sent'[j] = sent[j]
      BY <2>a, <2>d
    <2>4. /\ sent'[i].claims = sent[i].claims
          /\ sent'[i].state = IF succeeds THEN "success" ELSE "reverted"
      BY <2>a, <2>d
    <2>5. lock = "claimed" => lock' = "claimed"
      BY <2>1
    <2>6. ClaimChainLasts
      BY <2>1, <2>2, <2>3, <2>4, <2>5 DEF ClaimChainLasts
    <2>7. LockOK'
      BY <2>1, <2>2, <2>3, <2>4, <2>5 DEF ClaimInv, LockOK
    <2> QED
      BY <2>1, <2>6, <2>7, ClaimTaskLasts, ClaimOutcomeLasts DEF ClaimInv
  <1>9. ASSUME NEW i \in DOMAIN sent, ReplaceClaim(i)
        PROVE  ClaimInv'
    <2> DEFINE marked == [sent EXCEPT ![i].state = "replaced", ![i].next = Len(sent) + 1]
    <2>1. PICK claims \in BOOLEAN : sent' = Append(marked, Carrying("wallet", claims))
      BY <1>9 DEF ReplaceClaim
    <2>2. Len(sent) \in Nat /\ DOMAIN sent = 1..Len(sent) /\ sent[i] \in ClaimTx
      BY DEF ClaimInv, LockOK
    <2>3. marked = [sent EXCEPT ![i] = [sent[i] EXCEPT !.state = "replaced", !.next = Len(sent) + 1]]
      BY <2>2 DEF ClaimInv, LockOK
    <2>4. /\ [sent[i] EXCEPT !.state = "replaced", !.next = Len(sent) + 1] \in ClaimTx
          /\ [sent[i] EXCEPT !.state = "replaced", !.next = Len(sent) + 1].claims = sent[i].claims
          /\ [sent[i] EXCEPT !.state = "replaced", !.next = Len(sent) + 1].state = "replaced"
      <3> DEFINE n == Len(sent) + 1
                 r == [by |-> sent[i].by, claims |-> sent[i].claims, state |-> "replaced", next |-> n]
      <3>0. n \in Nat
        BY <2>2
      <3>1. [sent[i] EXCEPT !.state = "replaced", !.next = n] = r /\ r \in ClaimTx
        <4> HIDE DEF n
        <4> QED
          BY <2>2, <3>0, ClaimTxDecided
      <3>2. r.claims = sent[i].claims /\ r.state = "replaced"
        OBVIOUS
      <3> QED
        BY <3>1, <3>2
    <2>5. /\ marked \in Seq(ClaimTx) /\ Len(marked) = Len(sent)
          /\ \A j \in DOMAIN sent : j # i => marked[j] = sent[j]
          /\ marked[i].claims = sent[i].claims /\ marked[i].state = "replaced"
      BY <2>2, <2>3, <2>4 DEF ClaimInv, LockOK
    <2> HIDE DEF marked
    <2>6. Carrying("wallet", claims) \in ClaimTx /\ Carrying("wallet", claims).state = "pending"
      BY DEF Carrying, ClaimTx
    <2>7. /\ sent' \in Seq(ClaimTx) /\ DOMAIN sent' = 1..(Len(sent) + 1)
          /\ \A j \in 1..Len(sent) : sent'[j] = marked[j]
          /\ sent'[Len(sent) + 1] = Carrying("wallet", claims)
      BY <2>1, <2>2, <2>5, <2>6
    <2>8. sent[i].state = "pending" /\ UNCHANGED <<swap, lock, task, ended>>
      BY <1>9 DEF ReplaceClaim
    <2>9. ClaimChainLasts
      BY <2>2, <2>5, <2>7, <2>8 DEF ClaimChainLasts
    <2>10. \A j \in DOMAIN sent' : j \in DOMAIN sent \/ j = Len(sent) + 1
      BY <2>2, <2>7
    <2>11. LockOK'
      BY <2>2, <2>5, <2>6, <2>7, <2>8, <2>10 DEF ClaimInv, LockOK
    <2> QED
      BY <2>8, <2>9, <2>11, ClaimTaskLasts, ClaimOutcomeLasts DEF ClaimInv
  <1>10. CASE ServerNotices \/ ServerRefundsLock \/ UNCHANGED claimVars
    <2>1. LockOK' /\ ClaimChainLasts /\ UNCHANGED <<task, ended>>
      BY <1>10 DEF ServerNotices, ServerRefundsLock, claimVars, ClaimChainLasts, ClaimInv, LockOK
    <2> QED
      BY <2>1, ClaimTaskLasts, ClaimOutcomeLasts DEF ClaimInv
  <1> QED
    BY <1>1, <1>2, <1>3, <1>4, <1>5, <1>6, <1>7, <1>8, <1>9, <1>10 DEF ClaimNext

\* What a claim of the EVM leg returned is true on every rail, under replacement, restarts
\* and a second claim: "redeemed" only once the lock was claimed (or, for a bridged swap,
\* once some other transaction of the wallet took the nonce), "not submitted" only where
\* another transaction did (client.ts claim).
THEOREM ClaimOutcomeIsTrue == ClaimSpec => []OutcomeIsTrue
  <1>1. ClaimInit => ClaimInv
    BY DEF ClaimInit, ClaimInv, LockOK, ClaimTasksOK, ClaimTask, ClaimOutcome, NoClaim, OutcomeIsTrue, AwaitsNothing,
           AwaitsTx, ProvesNothing
  <1>2. ClaimInv => OutcomeIsTrue
    BY DEF ClaimInv
  <1> QED
    BY <1>1, <1>2, ClaimStep, PTL DEF ClaimSpec

\* The bounds of an EVM claim: what is sent, and the transaction a call awaits.
ClaimShape ==
    /\ swap \in ClaimKinds /\ relay \in {"funded", "redeeming", "redeemed"}
    /\ Len(sent) <= MaxSent
    /\ \A a \in Claimants : task[a].tx \in 0..Len(sent)

LEMMA ClaimShapeStep == ClaimInv /\ ClaimInv' /\ ClaimShape /\ [ClaimNext]_claimVars => ClaimShape'
  <1> SUFFICES ASSUME ClaimInv, ClaimInv', ClaimShape, [ClaimNext]_claimVars PROVE ClaimShape'
    OBVIOUS
  <1>1. /\ Len(sent) \in Nat /\ DOMAIN sent = 1..Len(sent) /\ sent \in Seq(ClaimTx) /\ Len(sent') \in Nat
        /\ task \in [Claimants -> ClaimTask] /\ MaxSent \in Nat
        /\ Len(sent) <= MaxSent /\ \A a \in Claimants : task[a].tx \in 0..Len(sent)
        /\ swap \in ClaimKinds /\ relay \in {"funded", "redeeming", "redeemed"}
    BY ClaimAssumption DEF ClaimInv, LockOK, ClaimTasksOK, ClaimShape
  <1>a. \A by, claims : Carrying(by, claims) \in [by : {by}, claims : {claims}, state : {"pending"}, next : {0}]
    BY DEF Carrying
  <1>2. ASSUME NEW by, NEW claims, sent' = Append(sent, Carrying(by, claims)), Len(sent) < MaxSent
        PROVE  Len(sent') = Len(sent) + 1 /\ Len(sent') <= MaxSent
    <2> DEFINE new == Carrying(by, claims)
               S == ClaimTx \cup {new}
    <2>1. sent \in Seq(S) /\ new \in S
      BY <1>1
    <2> HIDE DEF new, S
    <2>2. sent' = Append(sent, new)
      BY <1>2 DEF new
    <2> QED
      BY <1>1, <1>2, <2>1, <2>2
  <1>3. ASSUME NEW a \in Claimants, NEW step, NEW n \in 0..Len(sent'), Len(sent) <= Len(sent'),
               \/ task' = [task EXCEPT ![a] = [at |-> step, tx |-> n]]
               \/ task' = [task EXCEPT ![a].at = step]
        PROVE  \A c \in Claimants : task'[c].tx \in 0..Len(sent')
    <2>1. \A c \in Claimants : c # a => task'[c] = task[c]
      BY <1>1, <1>3
    <2>2. task'[a].tx = n \/ task'[a].tx = task[a].tx
      <3>1. task[a] \in ClaimTask
        BY <1>1
      <3> QED
        BY <1>1, <1>3, <3>1 DEF ClaimTask
    <2> QED
      BY <1>1, <1>3, <2>1, <2>2
  <1>4. ASSUME UNCHANGED Chain, NEW a \in Claimants,
               (\E step : GoesTo(a, step)) \/ (\E outcome : EndsWith(a, outcome))
        PROVE  ClaimShape'
    <2>1. UNCHANGED <<swap, relay, sent>>
      BY <1>4 DEF Chain
    <2>2. \A c \in Claimants : task'[c].tx \in 0..Len(sent')
      <3>1. 0 \in 0..Len(sent') /\ Len(sent) <= Len(sent')
        BY <1>1, <2>1
      <3> QED
        BY <1>3, <1>4, <3>1 DEF GoesTo, EndsWith, NoClaim
    <2> QED
      BY <1>1, <2>1, <2>2 DEF ClaimShape
  <1>5. ASSUME NEW a \in Claimants, NEW by, NEW step, Carries(a, by, step), UNCHANGED <<swap, relay>>
        PROVE  ClaimShape'
    <2>1. Len(sent') = Len(sent) + 1 /\ Len(sent') <= MaxSent
      BY <1>2, <1>5 DEF Carries
    <2>2. Len(sent) + 1 \in 0..Len(sent') /\ Len(sent) <= Len(sent')
      BY <1>1, <2>1
    <2>3. \A c \in Claimants : task'[c].tx \in 0..Len(sent')
      BY <1>3, <1>5, <2>2 DEF Carries
    <2> QED
      BY <1>1, <1>5, <2>1, <2>3 DEF ClaimShape
  <1>6. ASSUME NEW a \in Claimants,
               \/ ClaimViaGasless(a) \/ FetchArbitrumHubCalls(a) \/ UserOpFails(a) \/ UserOpIncluded(a)
               \/ FetchRedeemCalldata(a) \/ AlreadyClaimed(a) \/ PostFails(a) \/ ClaimEvmWithSigner(a)
               \/ RifEstimate(a) \/ RifMined(a) \/ SimulateClaim(a) \/ Declines(a) \/ IdentifyClaim(a)
               \/ ReceiptFails(a)
        PROVE  ClaimShape'
    <2>1. UNCHANGED Chain
      BY <1>6 DEF ClaimViaGasless, FetchArbitrumHubCalls, UserOpFails, UserOpIncluded, FetchRedeemCalldata,
         AlreadyClaimed, PostFails, ClaimEvmWithSigner, RifEstimate, RifMined, SimulateClaim, Declines,
         IdentifyClaim, ReceiptFails
    <2>2. (\E step : GoesTo(a, step)) \/ (\E outcome : EndsWith(a, outcome))
      <3>1. CASE ClaimViaGasless(a) \/ ClaimEvmWithSigner(a)
        <4>1. CASE ClaimViaGasless(a)
          <5>1. CASE Native(swap)
            BY <4>1, <5>1 DEF ClaimViaGasless, Hub, Native
          <5>2. CASE ~Native(swap)
            BY <4>1, <5>2 DEF ClaimViaGasless
          <5> QED
            BY <5>1, <5>2
        <4>2. CASE ClaimEvmWithSigner(a)
          <5>1. swap \in ClaimSwap
            BY <1>1, ClaimAssumption
          <5> QED
            BY <4>2, <5>1 DEF ClaimEvmWithSigner, ClaimSwap, Hub, Native
        <4> QED
          BY <3>1, <4>1, <4>2
      <3>2. CASE FetchArbitrumHubCalls(a) \/ FetchRedeemCalldata(a) \/ RifEstimate(a) \/ SimulateClaim(a)
        BY <3>2 DEF FetchArbitrumHubCalls, FetchRedeemCalldata, RifEstimate, SimulateClaim
      <3>3. CASE UserOpFails(a)
        BY <3>3 DEF UserOpFails, Degrades
      <3>4. CASE \/ UserOpIncluded(a) \/ AlreadyClaimed(a) \/ PostFails(a) \/ RifMined(a) \/ Declines(a)
                 \/ IdentifyClaim(a) \/ ReceiptFails(a)
        BY <3>4 DEF UserOpIncluded, AlreadyClaimed, PostFails, RifMined, Declines, IdentifyClaim, ReceiptFails
      <3> QED
        BY <1>6, <3>1, <3>2, <3>3, <3>4
    <2> QED
      BY <1>4, <2>1, <2>2
  <1>7. ASSUME NEW a \in Claimants, ClaimMined(a) PROVE ClaimShape'
    <2>1. UNCHANGED Chain
      BY <1>7 DEF ClaimMined
    <2>2. CASE \E outcome : EndsWith(a, outcome)
      BY <1>4, <2>1, <2>2
    <2>3. CASE \E i \in DOMAIN sent : task' = [task EXCEPT ![a] = [at |-> "identify", tx |-> i]]
      <3>1. UNCHANGED <<swap, relay, sent>>
        BY <2>1 DEF Chain
      <3>2. \A i \in DOMAIN sent : i \in 0..Len(sent')
        BY <1>1, <3>1
      <3>3. \A c \in Claimants : task'[c].tx \in 0..Len(sent')
        <4>1. Len(sent) <= Len(sent')
          BY <1>1, <3>1
        <4> QED
          BY <1>3, <2>3, <3>2, <4>1
      <3> QED
        BY <1>1, <3>1, <3>3 DEF ClaimShape
    <2> QED
      BY <1>7, <2>2, <2>3 DEF ClaimMined
  <1>8. ASSUME NEW a \in Claimants, PostClaim(a) PROVE ClaimShape'
    <2>1. /\ Len(sent) < MaxSent /\ sent' = Append(sent, Carrying("relay", TRUE)) /\ relay' = "redeeming"
          /\ swap' = swap /\ \E outcome : EndsWith(a, outcome)
      BY <1>8 DEF PostClaim
    <2>2. Len(sent') = Len(sent) + 1 /\ Len(sent') <= MaxSent
      BY <1>2, <2>1
    <2>3. 0 \in 0..Len(sent') /\ Len(sent) <= Len(sent')
      BY <1>1, <2>2
    <2>4. \A c \in Claimants : task'[c].tx \in 0..Len(sent')
      BY <1>3, <2>1, <2>3 DEF EndsWith, NoClaim
    <2> QED
      BY <1>1, <2>1, <2>2, <2>4 DEF ClaimShape
  <1>9. CASE Restarts
    <2>1. UNCHANGED <<swap, relay, sent>> /\ \A a \in Claimants : task'[a].tx = 0
      BY <1>9 DEF Restarts, Chain, NoClaim
    <2> QED
      BY <1>1, <2>1 DEF ClaimShape
  <1>10. ASSUME NEW i \in DOMAIN sent, MineClaim(i) PROVE ClaimShape'
    <2>1. swap' = swap /\ task' = task /\ relay' \in {"funded", relay} /\ DOMAIN sent' = DOMAIN sent
      BY <1>10 DEF MineClaim
    <2>2. Len(sent') = Len(sent)
      <3>1. DOMAIN sent' = 1..Len(sent')
        BY DEF ClaimInv, LockOK
      <3>2. ~(Len(sent) < Len(sent')) /\ ~(Len(sent') < Len(sent))
        <4>1. Len(sent') \in DOMAIN sent' \/ Len(sent') = 0
          BY <1>1, <3>1
        <4>2. Len(sent) \in DOMAIN sent \/ Len(sent) = 0
          BY <1>1
        <4> QED
          BY <1>1, <2>1, <3>1, <4>1, <4>2
      <3>3. Len(sent) \in Nat /\ Len(sent') \in Nat
        BY <1>1
      <3> QED
        BY <3>2, <3>3
    <2> QED
      BY <1>1, <2>1, <2>2 DEF ClaimShape
  <1>11. ASSUME NEW i \in DOMAIN sent, ReplaceClaim(i) PROVE ClaimShape'
    <2>1. /\ swap' = swap /\ task' = task /\ relay' = relay /\ Len(sent) < MaxSent
          /\ \E claims : sent' = Append([sent EXCEPT ![i].state = "replaced", ![i].next = Len(sent) + 1],
                                       Carrying("wallet", claims))
      BY <1>11 DEF ReplaceClaim
    <2>2. Len(sent') = Len(sent) + 1
      <3>1. PICK old, claims : sent' = Append([sent EXCEPT ![i] = old], Carrying("wallet", claims))
        <4>1. [sent EXCEPT ![i].state = "replaced", ![i].next = Len(sent) + 1]
                 = [sent EXCEPT ![i] = [sent[i] EXCEPT !.state = "replaced", !.next = Len(sent) + 1]]
          BY <1>1
        <4> QED
          BY <2>1, <4>1
      <3> DEFINE new == Carrying("wallet", claims)
                 S == ClaimTx \cup {new, old}
                 marked == [sent EXCEPT ![i] = old]
      <3>2. marked \in Seq(S) /\ Len(marked) = Len(sent) /\ new \in S
        BY <1>1
      <3> HIDE DEF new, S, marked
      <3>3. sent' = Append(marked, new)
        BY <3>1 DEF marked, new
      <3> QED
        BY <1>1, <3>2, <3>3
    <2> QED
      BY <1>1, <2>1, <2>2 DEF ClaimShape
  <1>12. CASE ServerNotices \/ ServerRefundsLock \/ UNCHANGED claimVars
    <2>1. UNCHANGED <<swap, task, sent>> /\ relay' \in {relay, "redeemed"}
      BY <1>12 DEF ServerNotices, ServerRefundsLock, claimVars
    <2> QED
      BY <1>1, <2>1 DEF ClaimShape
  <1>13. ASSUME NEW a \in Claimants, ClaimViaUserOp(a) \/ ClaimNativeViaRifRelay(a) \/ ClaimViaSigner(a)
         PROVE  ClaimShape'
    <2>1. UNCHANGED <<swap, relay>> /\ \E by, step : Carries(a, by, step)
      BY <1>13 DEF ClaimViaUserOp, ClaimNativeViaRifRelay, ClaimViaSigner
    <2> QED
      BY <1>5, <2>1
  <1> QED
    BY <1>6, <1>7, <1>8, <1>9, <1>10, <1>11, <1>12, <1>13 DEF ClaimNext

\* The variables of the EVM claim keep their types and their bounds.
THEOREM ClaimTypes == ClaimSpec => []ClaimTypeOK
  <1>1. ClaimInit => ClaimShape
    BY ClaimAssumption DEF ClaimInit, ClaimShape, NoClaim
  <1>2. ClaimInv /\ ClaimShape => ClaimTypeOK
    BY DEF ClaimInv, LockOK, ClaimShape, ClaimTypeOK
  <1>3. ClaimInit => ClaimInv
    BY DEF ClaimInit, ClaimInv, LockOK, ClaimTasksOK, ClaimTask, ClaimOutcome, NoClaim, OutcomeIsTrue, AwaitsNothing,
           AwaitsTx, ProvesNothing
  <1> QED
    BY <1>1, <1>2, <1>3, ClaimStep, ClaimShapeStep, PTL DEF ClaimSpec

-----------------------------------------------------------------------------
(* The Bitcoin HTLC.                                                       *)

\* The largest output of a list is in it and as large as any.
LEMMA LargestIsLargest ==
  ASSUME NEW list \in SUBSET Outputs, list # {}
  PROVE  Largest(list) \in list /\ \A o \in list : o <= Largest(list)
  <1> DEFINE above(o) == {p \in list : o < p}
             sizes == {Cardinality(above(o)) : o \in list}
             less == OpToRel(<, Nat)
  <1>1. IsFiniteSet(list) /\ list \subseteq Nat
    BY BtcAssumption, FS_Subset
  <1>2. ASSUME NEW o \in list PROVE IsFiniteSet(above(o)) /\ Cardinality(above(o)) \in Nat
    BY <1>1, FS_Subset, FS_CardinalityType
  <1>3. sizes \subseteq Nat /\ sizes # {}
    BY <1>2
  <1>4. PICK least \in sizes : \A size \in sizes : ~(<<size, least>> \in less)
    <2> HIDE DEF sizes, less
    <2> QED
      BY <1>3, WFMin, NatLessThanWellFounded DEF less
  <1>5. PICK top \in list : least = Cardinality(above(top))
    OBVIOUS
  <1>6. ASSUME NEW p \in list, top < p PROVE FALSE
    <2>0. top \in Nat /\ p \in Nat /\ \A q \in list : q \in Nat
      BY <1>1
    <2>1. above(p) \subseteq above(top)
      <3>1. ASSUME NEW q \in list, p < q PROVE top < q
        BY <1>6, <2>0, <3>1
      <3> QED
        BY <3>1
    <2>2. p \in above(top) /\ p \notin above(p)
      BY <1>6, <2>0
    <2>3. Cardinality(above(p)) < Cardinality(above(top))
      <3>1. /\ Cardinality(above(p)) <= Cardinality(above(top))
            /\ Cardinality(above(top)) = Cardinality(above(p)) => above(top) = above(p)
        <4> HIDE DEF above
        <4> QED
          BY <1>2, <2>1, FS_Subset
      <3> HIDE DEF above
      <3> QED
        BY <1>2, <2>2, <3>1
    <2>4. Cardinality(above(p)) \in sizes
      OBVIOUS
    <2>5. <<Cardinality(above(p)), least>> \in less
      <3> HIDE DEF above
      <3> QED
        BY <1>2, <1>5, <2>3 DEF less, OpToRel
    <2> QED
      BY <1>4, <2>4, <2>5
  <1>7. \A p \in list : p <= top
    BY <1>1, <1>6
  <1> QED
    BY <1>7 DEF Largest

BtcRun == [at : {"idle", "watch", "poll", "ask", "lookup", "build", "broadcast", "resend"},
          out : Outputs \cup {0}, saw : SUBSET Outputs, left : Nat]

\* What a call builds on is not too small unless all it saw was; what the server names never is.
BtcInv ==
    /\ knows \in [Backends -> SUBSET Outputs]
    /\ named # 0 => named > SpendFee
    /\ named \in Outputs \cup {0}
    /\ run \in BtcRun
    /\ run.at \in {"watch", "lookup"} => "electrum" \in Backends
    /\ run.at = "build" => run.out \in Outputs
    /\ run.at = "build" /\ run.out <= SpendFee => \A o \in run.saw : o <= SpendFee
    /\ DustShadowsNothing

\* A backend finds the named output, or the largest it lists; where it finds nothing it lists
\* nothing.
LEMMA FindsWorth ==
  ASSUME BtcInv, NEW b \in Backends, NEW o \in FoundBy(b) \cup {OutputByAddress(b)}
  PROVE  /\ Listed(b) \subseteq Outputs /\ o \in Outputs \cup {0}
         /\ o # 0 /\ o <= SpendFee => \A p \in Listed(b) : p <= SpendFee
         /\ o = 0 => Listed(b) = {}
  <1>1. Listed(b) \subseteq Outputs
    BY DEF Listed, BtcInv
  <1>2. Outputs \subseteq Nat \ {0} /\ SpendFee \in Nat
    BY BtcAssumption
  <1>3. CASE o = NamedOutput(b) /\ o # 0
    BY <1>1, <1>2, <1>3 DEF NamedOutput, BtcInv
  <1>4. CASE o = OutputByAddress(b)
    <2>1. CASE Listed(b) = {}
      BY <1>4, <2>1 DEF OutputByAddress
    <2>2. CASE Listed(b) # {}
      <3>1. o = Largest(Listed(b))
        BY <1>4, <2>2 DEF OutputByAddress
      <3>2. o \in Listed(b) /\ \A p \in Listed(b) : p <= o
        BY <1>1, <2>2, <3>1, LargestIsLargest
      <3> QED
        <4>1. \A p \in Listed(b) : p \in Nat /\ p <= o
          BY <1>1, <1>2, <3>2
        <4>2. o \in Nat \ {0} /\ SpendFee \in Nat
          BY <1>1, <1>2, <3>2
        <4> QED
          BY <1>1, <3>2, <4>1, <4>2
    <2> QED
      BY <2>1, <2>2
  <1> QED
    BY <1>3, <1>4 DEF FoundBy

\* The invariant is inductive.
LEMMA BtcStep == BtcInv /\ [BtcNext]_btcVars => BtcInv'
  <1> SUFFICES ASSUME BtcInv, [BtcNext]_btcVars PROVE BtcInv'
    OBVIOUS
  <1>a. Outputs \subseteq Nat \ {0} /\ SpendFee \in Nat /\ Retries \in Nat /\ "esplora" \in Backends
    BY BtcAssumption
  <1>b. Quiet \in BtcRun /\ Quiet.at = "idle"
    BY DEF Quiet, BtcRun
  <1>c. ASSUME UNCHANGED <<knows, named, said>>, run' \in BtcRun, run'.at # "build",
               run'.at \in {"watch", "lookup"} => "electrum" \in Backends
        PROVE  BtcInv'
    BY <1>c DEF BtcInv, DustShadowsNothing
  <1>d. ASSUME UNCHANGED <<knows, named>>, NEW is, NEW saw, Says(is, saw),
               is \in {"tooSmall", "notFound"} => \A o \in saw : o <= SpendFee
        PROVE  BtcInv'
    BY <1>d, <1>b DEF BtcInv, Says, DustShadowsNothing
  <1>e. ASSUME UNCHANGED <<knows, named, said>>, NEW b \in Backends,
               NEW o \in (FoundBy(b) \cup {OutputByAddress(b)}) \ {0},
               BtcFound(o, Listed(b))
        PROVE  BtcInv'
    <2>1. /\ Listed(b) \subseteq Outputs /\ o \in Outputs
          /\ o <= SpendFee => \A p \in Listed(b) : p <= SpendFee
      BY <1>e, FindsWorth
    <2>2. run' \in BtcRun /\ run'.at = "build" /\ run'.out = o /\ run'.saw = Listed(b)
      BY <1>e, <2>1 DEF BtcFound, BtcRun, BtcInv
    <2> QED
      BY <1>e, <2>1, <2>2 DEF BtcInv, DustShadowsNothing
  <1>1. CASE ClaimOnchainBtc
    <2>1. CASE VerifyHtlcAddress
      <3>1. PICK step \in {"watch", "poll"} :
               /\ run' = [Quiet EXCEPT !.left = Retries, !.at = step]
               /\ step = "watch" => "electrum" \in Backends
        BY <1>1, <2>1 DEF ClaimOnchainBtc
      <3>2. run' \in BtcRun /\ run'.at = step
        BY <1>a, <3>1 DEF Quiet, BtcRun
      <3> QED
        BY <1>1, <2>1, <1>c, <3>1, <3>2 DEF ClaimOnchainBtc
    <2>2. CASE ~VerifyHtlcAddress
      BY <1>1, <2>2, <1>d DEF ClaimOnchainBtc
    <2> QED
      BY <2>1, <2>2
  <1>2. CASE WatchFinds
    <2>1. "electrum" \in Backends
      BY <1>2 DEF WatchFinds, Running, BtcInv
    <2> QED
      BY <1>2, <1>e, <2>1 DEF WatchFinds
  <1>3. CASE WatchEnds
    <2>1. PICK step \in {"ask", "poll"} : run' = [run EXCEPT !.at = step]
      BY <1>3 DEF WatchEnds
    <2>2. run' \in BtcRun /\ run'.at = step
      BY <2>1 DEF BtcInv, BtcRun
    <2> QED
      BY <1>3, <1>c, <2>2 DEF WatchEnds
  <1>4. CASE EsploraFinds
    BY <1>4, <1>a, <1>e DEF EsploraFinds
  <1>5. CASE NotFound
    <2>1. CASE 0 \in FoundBy("esplora") /\ Says("notFound", Listed("esplora"))
      BY <1>5, <2>1, <1>a, <1>d, FindsWorth DEF NotFound
    <2>2. CASE Says("unreachable", {})
      BY <1>5, <2>2, <1>d DEF NotFound
    <2> QED
      BY <1>5, <2>1, <2>2 DEF NotFound
  <1>6. CASE BuildOnchainRefund
    <2>1. CASE mtp /\ VerifyHtlcAddress
      <3>1. PICK step \in {"lookup", "ask"} :
               run' = [Quiet EXCEPT !.at = step] /\ (step = "lookup" => "electrum" \in Backends)
        BY <1>6, <2>1 DEF BuildOnchainRefund
      <3>2. run' \in BtcRun /\ run'.at = step
        BY <3>1 DEF Quiet, BtcRun
      <3> QED
        BY <1>6, <2>1, <1>c, <3>1, <3>2 DEF BuildOnchainRefund
    <2>2. CASE ~(mtp /\ VerifyHtlcAddress)
      BY <1>6, <2>2, <1>d DEF BuildOnchainRefund
    <2> QED
      BY <2>1, <2>2
  <1>7. CASE LookUpElectrum
    <2>1. CASE \E o \in FoundBy("electrum") \ {0} : BtcFound(o, Listed("electrum"))
      <3>1. "electrum" \in Backends
        BY <1>7 DEF LookUpElectrum, Running, BtcInv
      <3> QED
        BY <1>7, <2>1, <3>1, <1>e DEF LookUpElectrum
    <2>2. CASE run' = [run EXCEPT !.at = "ask"]
      <3>1. run' \in BtcRun /\ run'.at = "ask"
        BY <2>2 DEF BtcInv, BtcRun
      <3> QED
        BY <1>7, <1>c, <3>1 DEF LookUpElectrum
    <2> QED
      BY <1>7, <2>1, <2>2 DEF LookUpElectrum
  <1>8. CASE Build
    <2>1. CASE run.out <= SpendFee
      BY <1>8, <2>1, <1>d DEF Build, Running, BtcInv
    <2>2. CASE ~(run.out <= SpendFee)
      <3>1. run' = [run EXCEPT !.at = "broadcast"] /\ UNCHANGED <<knows, named, said>>
        BY <1>8, <2>2 DEF Build
      <3>2. run' \in BtcRun /\ run'.at = "broadcast"
        BY <3>1 DEF BtcInv, BtcRun
      <3> QED
        BY <1>c, <3>1, <3>2
    <2> QED
      BY <2>1, <2>2
  <1>9. CASE Broadcast
    <2>1. CASE Says("sent", run.saw)
      BY <1>9, <2>1, <1>d DEF Broadcast
    <2>2. CASE run' = [run EXCEPT !.at = "resend"] /\ UNCHANGED said
      <3>1. run' \in BtcRun /\ run'.at = "resend"
        BY <2>2 DEF BtcInv, BtcRun
      <3> QED
        BY <1>9, <1>c, <2>2, <3>1 DEF Broadcast
    <2> QED
      BY <1>9, <2>1, <2>2 DEF Broadcast
  <1>10. CASE BroadcastFails
    <2>1. CASE run.left > 0
      <3>1. run' = [run EXCEPT !.at = "broadcast", !.left = run.left - 1] /\ UNCHANGED said
        BY <1>10, <2>1 DEF BroadcastFails
      <3>2. run.left - 1 \in Nat
        BY <2>1 DEF BtcInv, BtcRun
      <3>3. run' \in BtcRun /\ run'.at = "broadcast"
        BY <3>1, <3>2 DEF BtcInv, BtcRun
      <3> QED
        BY <1>10, <1>c, <3>1, <3>3 DEF BroadcastFails
    <2>2. CASE ~(run.left > 0)
      BY <1>10, <2>2, <1>d DEF BroadcastFails
    <2> QED
      BY <2>1, <2>2
  <1>11. CASE BtcCrash
    BY <1>11, <1>b, <1>c DEF BtcCrash
  <1>12. ASSUME NEW o \in Outputs, Pay(o) \/ TheySpend(o)
         PROVE  BtcInv'
    BY <1>12 DEF Pay, TheySpend, BtcInv, DustShadowsNothing
  <1>13. ASSUME NEW o \in Outputs, ServerNames(o)
         PROVE  BtcInv'
    BY <1>13 DEF ServerNames, BtcInv, DustShadowsNothing
  <1>14. ASSUME NEW b \in Backends, NEW o \in Outputs, Hears(b, o)
         PROVE  BtcInv'
    <2>1. knows' \in [Backends -> SUBSET Outputs]
      BY <1>14 DEF Hears, BtcInv
    <2> QED
      BY <1>14, <2>1 DEF Hears, BtcInv, DustShadowsNothing
  <1>15. CASE MtpPasses \/ UNCHANGED btcVars
    BY <1>15 DEF MtpPasses, btcVars, BtcInv, DustShadowsNothing
  <1> QED
    BY <1>1, <1>2, <1>3, <1>4, <1>5, <1>6, <1>7, <1>8, <1>9, <1>10, <1>11, <1>12, <1>13, <1>14,
       <1>15 DEF BtcNext, BuildOnchainClaimTransaction, BuildOnchainRefundTransaction

\* A claim or a refund of the Bitcoin HTLC says that an output is too small, or that there
\* is none, only if no output it was shown was worth spending (bitcoin/onchain.ts,
\* client.ts).
THEOREM BtcDustShadowsNothing == BtcSpec => []DustShadowsNothing
  <1>1. BtcInit => BtcInv
    BY DEF BtcInit, BtcInv, Quiet, BtcRun, Silent, DustShadowsNothing
  <1>2. BtcInv => DustShadowsNothing
    BY DEF BtcInv
  <1> QED
    BY <1>1, <1>2, BtcStep, PTL DEF BtcSpec

SaidKinds == {"none", "mismatch", "early", "notFound", "unreachable", "tooSmall", "sent", "unsent"}

\* What the user spends and whether the script matches never change; a broadcast is repeated
\* as often as it is allowed.
BtcShape ==
    /\ role \in {"claim", "refund"} /\ script \in {"match", "other"}
    /\ coin \in [Outputs -> {"absent", "unspent", "ours", "theirs"}]
    /\ mtp \in BOOLEAN
    /\ run.left \in 0..Retries
    /\ said.is \in SaidKinds

LEMMA BtcShapeStep == BtcInv /\ BtcShape /\ [BtcNext]_btcVars => BtcShape'
  <1> SUFFICES ASSUME BtcInv, BtcShape, [BtcNext]_btcVars PROVE BtcShape'
    OBVIOUS
  <1>1. UNCHANGED <<role, script>> /\ (mtp' = mtp \/ mtp' = TRUE)
    BY DEF BtcNext, ClaimOnchainBtc, WatchFinds, WatchEnds, EsploraFinds, NotFound, BuildOnchainRefund,
       LookUpElectrum, BuildOnchainClaimTransaction, BuildOnchainRefundTransaction, Build, Broadcast,
       BroadcastFails, BtcCrash, Pay, ServerNames, TheySpend, Hears, MtpPasses, btcVars
  <1>2. coin' \in [Outputs -> {"absent", "unspent", "ours", "theirs"}]
    <2>1. coin \in [Outputs -> {"absent", "unspent", "ours", "theirs"}]
      BY DEF BtcShape
    <2>2. coin' = coin \/ \E o, s : s \in {"unspent", "ours", "theirs"} /\ coin' = [coin EXCEPT ![o] = s]
      BY DEF BtcNext, ClaimOnchainBtc, WatchFinds, WatchEnds, EsploraFinds, NotFound, BuildOnchainRefund,
         LookUpElectrum, BuildOnchainClaimTransaction, BuildOnchainRefundTransaction, Build, Broadcast,
         BroadcastFails, BtcCrash, Pay, ServerNames, TheySpend, Hears, MtpPasses, btcVars
    <2> QED
      BY <2>1, <2>2
  <1>3. run \in BtcRun /\ run.left \in 0..Retries /\ Retries \in Nat
        /\ said.is \in SaidKinds
    BY BtcAssumption DEF BtcInv, BtcShape
  <1>4. run'.left \in 0..Retries
        /\ said'.is \in SaidKinds
    <2>1. ASSUME NEW is, NEW saw, Says(is, saw),
                 is \in SaidKinds
          PROVE  run'.left \in 0..Retries /\ said'.is \in SaidKinds
      BY <1>3, <2>1 DEF Says, Quiet
    <2>2. CASE ClaimOnchainBtc \/ BuildOnchainRefund
      <3>1. CASE run'.left \in {0, Retries} /\ UNCHANGED said
        BY <1>3, <3>1
      <3>2. CASE \E is \in {"mismatch", "early"} : Says(is, {})
        BY <2>1, <3>2 DEF SaidKinds
      <3> QED
        BY <2>2, <3>1, <3>2 DEF ClaimOnchainBtc, BuildOnchainRefund, Quiet
    <2>3. ASSUME NEW o, NEW saw, BtcFound(o, saw), UNCHANGED said
          PROVE  run'.left \in 0..Retries /\ said'.is \in SaidKinds
      BY <1>3, <2>3 DEF BtcFound, BtcRun
    <2>4. CASE WatchFinds \/ EsploraFinds
      BY <2>3, <2>4 DEF WatchFinds, EsploraFinds
    <2>5. ASSUME NEW step, run' = [run EXCEPT !.at = step], UNCHANGED said
          PROVE  run'.left \in 0..Retries /\ said'.is \in SaidKinds
      BY <1>3, <2>5 DEF BtcRun
    <2>6. CASE WatchEnds
      BY <2>5, <2>6 DEF WatchEnds
    <2>7. CASE NotFound
      BY <2>1, <2>7 DEF NotFound, SaidKinds
    <2>8. CASE LookUpElectrum
      BY <2>3, <2>5, <2>8 DEF LookUpElectrum
    <2>9. CASE Build \/ Broadcast
      BY <2>1, <2>5, <2>9 DEF Build, Broadcast, SaidKinds
    <2>10. CASE BroadcastFails
      <3>1. CASE run.left > 0
        <4>1. UNCHANGED said /\ run' = [run EXCEPT !.at = "broadcast", !.left = run.left - 1]
          BY <2>10, <3>1 DEF BroadcastFails
        <4>2. run'.left = run.left - 1
          BY <1>3, <4>1 DEF BtcRun
        <4>3. run.left - 1 \in 0..Retries
          BY <1>3, <3>1
        <4> QED
          BY <1>3, <4>1, <4>2, <4>3
      <3>2. CASE ~(run.left > 0)
        BY <2>1, <2>10, <3>2 DEF BroadcastFails, SaidKinds
      <3> QED
        BY <3>1, <3>2
    <2>11. CASE BtcCrash
      BY <1>3, <2>11 DEF BtcCrash, Quiet
    <2>12. CASE \/ \E o \in Outputs : Pay(o) \/ ServerNames(o) \/ TheySpend(o)
                \/ \E b \in Backends, o \in Outputs : Hears(b, o)
                \/ MtpPasses \/ UNCHANGED btcVars
      BY <1>3, <2>12 DEF Pay, ServerNames, TheySpend, Hears, MtpPasses, btcVars
    <2> QED
      BY <2>2, <2>4, <2>6, <2>7, <2>8, <2>9, <2>10, <2>11, <2>12 DEF BtcNext, BuildOnchainClaimTransaction,
         BuildOnchainRefundTransaction
  <1>5. mtp' \in BOOLEAN
    BY <1>1 DEF BtcShape
  <1> QED
    BY <1>1, <1>2, <1>4, <1>5 DEF BtcShape

\* The variables of the on-chain HTLC keep their types and bounds.
THEOREM BtcTypes == BtcSpec => []BtcTypeOK
  <1>1. BtcInit => BtcShape /\ BtcInv
    <2>1. BtcInit => BtcShape
      <3> SUFFICES ASSUME BtcInit PROVE BtcShape
        OBVIOUS
      <3>1. run.left = 0 /\ said.is = "none" /\ mtp = FALSE /\ coin = [o \in Outputs |-> "absent"]
        BY DEF BtcInit, Quiet, Silent
      <3>2. role \in {"claim", "refund"} /\ script \in {"match", "other"}
        BY DEF BtcInit
      <3>3. 0 \in 0..Retries /\ FALSE \in BOOLEAN
        BY BtcAssumption
      <3>4. coin \in [Outputs -> {"absent", "unspent", "ours", "theirs"}] /\ said.is \in SaidKinds
        BY <3>1 DEF SaidKinds
      <3> QED
        BY <3>1, <3>2, <3>3, <3>4 DEF BtcShape
    <2>2. BtcInit => BtcInv
      BY DEF BtcInit, BtcInv, Quiet, BtcRun, Silent, DustShadowsNothing
    <2> QED
      BY <2>1, <2>2
  <1>2. BtcShape /\ BtcInv => BtcTypeOK
    BY DEF BtcShape, BtcInv, BtcRun, BtcTypeOK, SaidKinds
  <1> QED
    BY <1>1, <1>2, BtcStep, BtcShapeStep, PTL DEF BtcSpec

-----------------------------------------------------------------------------
(* The readers.                                                            *)

\* What swapToTracked expects of a leg of any direction.
LegShape ==
    [ledger : {"arkade", "bitcoin", "evm"}, floor : {0, 2, 3}, depth : {0, 1}, tuple : BOOLEAN,
     exact : {0, 3}]

\* Every leg of every direction has the shape of a tracked leg, and an EVM leg the quoted
\* amount as its exact one.
LEMMA LegsHaveShape ==
  \A l \in UNION {SwapToTracked[direction] : direction \in Traded} :
     l \in LegShape /\ (l.ledger = "evm" => l.exact = 3)
  <1> SUFFICES ASSUME NEW direction \in DOMAIN SwapToTracked, NEW l \in SwapToTracked[direction]
               PROVE  l \in LegShape /\ (l.ledger = "evm" => l.exact = 3)
    BY TradedAssumption
  <1>1. SwapToTracked[direction] \in
          {ArkadeToEvm, EvmToArkade, BitcoinToEvm, EvmToBitcoin, BtcToArkade, LightningToEvm,
           LightningToArkade, EvmToLightning, ArkadeToLightning, LightningToBitcoin, BitcoinToLightning}
    BY DEF SwapToTracked
  <1>2. l \in {ArkadeLeg(3), ArkadeLeg(2), BitcoinLeg(3, 1), BitcoinLeg(2, 0), BitcoinLeg(3, 0),
               EvmLeg(3, TRUE), EvmLeg(0, TRUE), EvmLeg(0, FALSE)}
    BY <1>1 DEF ArkadeToEvm, EvmToArkade, BitcoinToEvm, EvmToBitcoin, BtcToArkade,
           LightningToEvm, LightningToArkade, EvmToLightning, ArkadeToLightning, LightningToBitcoin,
           BitcoinToLightning, MinServerPayout, CLIENT_FUNDING_MIN_CONFIRMATIONS
  <1>3. ASSUME NEW floor \in {0, 2, 3}, NEW depth \in {0, 1}, NEW tuple \in BOOLEAN
        PROVE  /\ ArkadeLeg(floor) \in LegShape /\ BitcoinLeg(floor, depth) \in LegShape
               /\ EvmLeg(floor, tuple) \in LegShape
               /\ ArkadeLeg(floor).ledger = "arkade" /\ BitcoinLeg(floor, depth).ledger = "bitcoin"
               /\ EvmLeg(floor, tuple).exact = 3
    BY DEF ArkadeLeg, BitcoinLeg, EvmLeg, LegShape
  <1> QED
    BY <1>2, <1>3

\* The largest deposit is one of the deposits: the choice that LargestUtxo makes exists.
LEMMA LargestIsPaid ==
  ASSUME paid \in Seq(Utxo), paid # <<>>
  PROVE  LargestUtxo \in Places
  <1> DEFINE of(n) == {d \in Places : paid[d].pays = n}
  <1>1. Places = 1..Len(paid) /\ Len(paid) \in Nat \ {0} /\ \A d \in Places : paid[d].pays \in 1..3
    <2>1. \A d \in Places : paid[d] \in Utxo
      BY DEF Places
    <2>2. \A u \in Utxo : u.pays \in 1..3
      BY DEF Utxo
    <2> QED
      BY <2>1, <2>2 DEF Places
  <1>2. PICK n \in 1..3 : of(n) # {} /\ \A m \in 1..3 : n < m => of(m) = {}
    <2>1. of(1) # {} \/ of(2) # {} \/ of(3) # {}
      BY <1>1
    <2> HIDE DEF of
    <2> QED
      BY <2>1
  <1>3. PICK first \in of(n) : \A d \in of(n) : first <= d
    <2>1. of(n) \subseteq Nat
      BY <1>1
    <2> HIDE DEF of
    <2>2. PICK first \in of(n) : \A d \in of(n) : ~(<<d, first>> \in OpToRel(<, Nat))
      BY <1>2, <2>1, WFMin, NatLessThanWellFounded
    <2>3. ASSUME NEW d \in of(n), d < first PROVE FALSE
      <3>1. <<d, first>> \in OpToRel(<, Nat)
        BY <2>1, <2>3 DEF OpToRel
      <3> QED
        BY <2>2, <3>1
    <2> QED
      BY <2>1, <2>3
  <1>4. first \in Places
      /\ \A e \in Places :
            paid[e].pays < paid[first].pays \/ (paid[e].pays = paid[first].pays /\ first <= e)
    <2> SUFFICES ASSUME NEW e \in Places
                 PROVE  paid[e].pays < paid[first].pays \/ (paid[e].pays = paid[first].pays /\ first <= e)
      OBVIOUS
    <2>1. paid[first].pays = n
      OBVIOUS
    <2>2. CASE paid[e].pays = n
      BY <1>3, <2>1, <2>2
    <2>3. CASE paid[e].pays # n
      <3>1. paid[e].pays \in 1..3 /\ e \in of(paid[e].pays)
        BY <1>1
      <3>2. ~(n < paid[e].pays)
        <4> HIDE DEF of
        <4> QED
          BY <1>2, <3>1
      <3> QED
        BY <2>1, <2>3, <3>1, <3>2
    <2> QED
      BY <2>2, <2>3
  <1> QED
    BY <1>4 DEF LargestUtxo

\* A leg reads as funded by any reader only if it is payable: the argument for each ledger,
\* and for each reader of it.
LEMMA FundedFollows == ReaderTypeOK => FundedIsPayable
  <1> SUFFICES ASSUME ReaderTypeOK, "confirmed" \in Observations
               PROVE  FundedIsPayable
    BY DEF FundedIsPayable
  <1>1. leg \in LegShape /\ (leg.ledger = "evm" => leg.exact = 3)
    BY LegsHaveShape DEF ReaderTypeOK
  <1>2. paid \in Seq(Utxo) /\ Places = 1..Len(paid) /\ Len(paid) \in Nat
    BY DEF ReaderTypeOK, Places
  <1>3. \A d \in Places : paid[d].pays \in 1..3 /\ paid[d].ended \in {"open", "claim", "refund"}
    <2>1. \A d \in Places : paid[d] \in Utxo
      BY <1>2
    <2>2. \A u \in Utxo : u.pays \in 1..3 /\ u.ended \in {"open", "claim", "refund"}
      BY DEF Utxo
    <2> QED
      BY <2>1, <2>2
  <1>4. CASE leg.ledger = "bitcoin"
    <2>a. ASSUME "confirmed" = BitcoinObservation(FundingFacts),
                 paid # <<>> => paid[LargestUtxo].ended = "open"
          PROVE  FundedIsPayable
      <3>1. paid # <<>> /\ DeepEnough(LargestUtxo) /\ ~(paid[LargestUtxo].pays < leg.floor)
        BY <2>a DEF BitcoinObservation, FundingFacts, Facts
      <3>2. LargestUtxo \in Places
        BY <1>2, <3>1, LargestIsPaid
      <3>3. paid[LargestUtxo].pays >= leg.floor
        BY <1>1, <1>3, <3>1, <3>2 DEF LegShape
      <3> QED
        BY <1>4, <2>a, <3>1, <3>2, <3>3 DEF FundedIsPayable
    <2>b. ASSUME NEW how \in {"claim", "refund"},
                 "confirmed" = BitcoinObservation(Facts("confirmed", 0, how))
          PROVE  FALSE
      BY <2>b DEF BitcoinObservation, Facts, ClassifyBitcoinSpend
    <2>1. CASE "confirmed" = BitcoinObservation(GetHtlcFactsElectrum)
      <3>1. CASE paid = <<>> \/ paid[LargestUtxo].ended = "open"
        BY <2>1, <2>a, <3>1 DEF GetHtlcFactsElectrum
      <3>2. CASE paid # <<>> /\ paid[LargestUtxo].ended # "open"
        <4>1. paid[LargestUtxo].ended \in {"claim", "refund"}
          BY <1>2, <1>3, <3>2, LargestIsPaid
        <4> QED
          BY <2>1, <2>b, <3>2, <4>1 DEF GetHtlcFactsElectrum
      <3> QED
        BY <3>1, <3>2
    <2>2. CASE Ended = {} /\ "confirmed" = BitcoinObservation(HtlcFactsFromEsploraTxs)
      <3>1. \A d \in Places : paid[d].ended = "open"
        BY <2>2 DEF Ended
      <3>2. paid # <<>> => paid[LargestUtxo].ended = "open"
        BY <1>2, <3>1, LargestIsPaid
      <3> QED
        BY <2>2, <2>a, <3>2 DEF HtlcFactsFromEsploraTxs
    <2>3. CASE Ended # {} /\ \E f \in HtlcFactsFromEsploraTxs : "confirmed" = BitcoinObservation(f)
      <3>1. PICK d \in Ended : "confirmed" = BitcoinObservation(Facts("confirmed", 0, paid[d].ended))
        BY <2>3 DEF HtlcFactsFromEsploraTxs
      <3> QED
        BY <1>3, <2>b, <3>1 DEF Ended
    <2> QED
      BY <1>4, <2>1, <2>2, <2>3 DEF Observations
  <1>5. CASE leg.ledger = "arkade"
    <2>1. PICK indexed \in BOOLEAN : "confirmed" \in ArkadeObservations(indexed)
      BY <1>5 DEF Observations
    <2>2. FoldLeft(LAMBDA sum, d : IF d.ended = "open" THEN sum + d.pays ELSE sum, 0, paid) >= leg.floor
      BY <2>1 DEF ArkadeObservations, ClassifyBitcoinSpend
    <2> QED
      BY <1>5, <2>2 DEF FundedIsPayable
  <1>6. CASE leg.ledger = "evm"
    <2>1. PICK callsWork \in BOOLEAN : "confirmed" = EvmReconciled(callsWork)
      BY <1>6 DEF Observations
    <2>2. \E d \in Places : paid[d].ended = "open" /\ paid[d].pays >= leg.floor
      <3>1. CASE IsActive
        <4>1. PICK d \in Places : paid[d].pays = leg.exact /\ paid[d].ended = "open"
          BY <3>1 DEF IsActive
        <4>2. paid[d].pays >= leg.floor
          BY <1>1, <1>6, <4>1 DEF LegShape
        <4> QED
          BY <4>1, <4>2
      <3>2. CASE "confirmed" = EvmObservation
        <4>1. Ended = {} /\ paid # <<>> /\ paid[1].pays >= leg.floor
          BY <3>2 DEF EvmObservation
        <4>2. 1 \in Places
          BY <1>2, <4>1
        <4> QED
          BY <4>1, <4>2 DEF Ended
      <3> QED
        BY <2>1, <3>1, <3>2 DEF EvmReconciled
    <2> QED
      BY <1>6, <2>2 DEF FundedIsPayable
  <1> QED
    BY <1>1, <1>4, <1>5, <1>6 DEF LegShape

\* The types are inductive; they carry the property because they bound what a reader may
\* see.
LEMMA ReaderStep == ReaderTypeOK /\ [ReaderNext]_readerVars => ReaderTypeOK'
  <1> SUFFICES ASSUME ReaderTypeOK, [ReaderNext]_readerVars PROVE ReaderTypeOK'
    OBVIOUS
  <1> USE DEF ReaderTypeOK, SpentStates
  <1>0. /\ Len(paid) \in Nat /\ Places = 1..Len(paid)
        /\ \A d \in Places : paid[d] \in Utxo /\ paid[d].ended \in {"open", "claim", "refund"}
        /\ \A d \in Ended : d \in Places /\ paid[d].ended # "open"
    <2>1. \A d \in Places : paid[d] \in Utxo
      BY DEF Places
    <2>2. \A u \in Utxo : u.ended \in {"open", "claim", "refund"}
      BY DEF Utxo
    <2> QED
      BY <2>1, <2>2 DEF Places, Ended
  <1>1. CASE Reconcile
    <2>1. PICK observation \in Observations :
             SetObservation(observation) /\ secret' = (secret \/ observation = "spent_claim")
      BY <1>1 DEF Reconcile
    <2>2. observation \in {"absent", "mempool", "confirmed", "invalid"} \cup SpentStates
      <3>1. \A f : f.funding \in {"absent", "mempool", "confirmed"} =>
               BitcoinObservation(f) \in {"absent", "mempool", "confirmed", "invalid"} \cup SpentStates
        BY DEF BitcoinObservation, ClassifyBitcoinSpend
      <3>2. FundingFacts.funding \in {"absent", "mempool", "confirmed"}
        BY DEF FundingFacts, Facts
      <3>3. GetHtlcFactsElectrum.funding \in {"absent", "mempool", "confirmed"}
        BY <3>2 DEF GetHtlcFactsElectrum, Facts
      <3>4. /\ Ended = {} => HtlcFactsFromEsploraTxs.funding \in {"absent", "mempool", "confirmed"}
            /\ Ended # {} => \A f \in HtlcFactsFromEsploraTxs : f.funding = "confirmed"
        BY <3>2 DEF HtlcFactsFromEsploraTxs, Facts
      <3>5. leg \in LegShape
        BY LegsHaveShape
      <3>6. CASE leg.ledger = "bitcoin"
        BY <3>1, <3>3, <3>4, <3>6 DEF Observations
      <3>7. CASE leg.ledger = "arkade"
        BY <3>7 DEF Observations, ArkadeObservations, ClassifyBitcoinSpend
      <3>8. CASE leg.ledger = "evm"
        BY <3>8 DEF Observations, EvmReconciled, EvmObservation
      <3> QED
        BY <3>5, <3>6, <3>7, <3>8 DEF LegShape
    <2> QED
      BY <1>1, <2>1, <2>2 DEF Reconcile, SetObservation
  <1>2. CASE SetMinConfirmations \/ Unregister \/ UNCHANGED readerVars
    BY <1>2 DEF SetMinConfirmations, Unregister, readerVars
  <1>3. ASSUME NEW d \in 1..3, Paid(d) PROVE ReaderTypeOK'
    <2> DEFINE deposit == [pays |-> d, depth |-> IF leg.ledger = "bitcoin" THEN 0 ELSE MaxDepth, ended |-> "open"]
    <2>1. deposit \in Utxo
      BY ReaderAssumption DEF Utxo
    <2>2. paid' = Append(paid, deposit)
      BY <1>3 DEF Paid
    <2> HIDE DEF deposit
    <2>3. paid' \in Seq(Utxo)
      BY <2>1, <2>2
    <2> QED
      BY <1>3, <2>3 DEF Paid
  <1>4. ASSUME NEW d \in Places, Deepens(d) PROVE ReaderTypeOK'
    <2> DEFINE deeper == [paid[d] EXCEPT !.depth = paid[d].depth + 1]
    <2>1. deeper \in Utxo
      <3>1. paid[d] \in Utxo /\ paid[d].depth < MaxDepth
        BY <1>0, <1>4 DEF Deepens
      <3>2. paid[d].depth + 1 \in 0..MaxDepth
        BY <3>1, ReaderAssumption DEF Utxo
      <3> QED
        BY <3>1, <3>2 DEF Utxo
    <2>2. paid' = [paid EXCEPT ![d] = deeper]
      BY <1>4 DEF Deepens
    <2> HIDE DEF deeper
    <2>3. paid' \in Seq(Utxo)
      BY <1>0, <2>1, <2>2
    <2> QED
      BY <1>4, <2>3 DEF Deepens
  <1>5. ASSUME NEW d \in Places, LegEnds(d) PROVE ReaderTypeOK'
    <2>1. PICK as \in {"claim", "refund"} : paid' = [paid EXCEPT ![d] = [paid[d] EXCEPT !.ended = as]]
      BY <1>5 DEF LegEnds
    <2>2. [paid[d] EXCEPT !.ended = as] \in Utxo
      BY <1>0 DEF Utxo
    <2>3. paid' \in Seq(Utxo)
      BY <1>0, <2>1, <2>2
    <2> QED
      BY <1>5, <2>3 DEF LegEnds
  <1> QED
    BY <1>1, <1>2, <1>3, <1>4, <1>5 DEF ReaderNext

\* Whatever is paid, mined, claimed or refunded at the address of a leg, and whichever
\* reader looks, it reads as funded only while an open deposit pays what the swap needs
\* (contracts/bitcoin.ts, evm-manager.ts, arkade.ts).
THEOREM ReaderFundedIsPayable == ReaderSpec => [](ReaderTypeOK /\ FundedIsPayable)
  <1>1. ReaderInit => ReaderTypeOK
    <2> SUFFICES ASSUME ReaderInit PROVE ReaderTypeOK
      OBVIOUS
    <2>1. paid \in Seq(Utxo) /\ required \in 0..MaxDepth
      BY ReaderAssumption DEF ReaderInit
    <2> QED
      BY <2>1 DEF ReaderInit, ReaderTypeOK
  <1> QED
    BY <1>1, ReaderStep, FundedFollows, PTL DEF ReaderSpec

-----------------------------------------------------------------------------
(* Whose lock it is, and whom its refund pays.                              *)

\* The deal, but for its record, is settled; its client is one of the addresses it names.
LEMMA AuthorityDeals ==
  ASSUME deal \in Deals
  PROVE  /\ DepositorIsSender = deal.own /\ deal.client \in Ours /\ deal.own \in BOOLEAN
         /\ deal.direct \in BOOLEAN /\ deal.native \in BOOLEAN /\ deal.recorded \in BOOLEAN
         /\ deal.terms \in {"none", "unversioned", "full"}
         /\ ~deal.gasless => deal.client = "wallet"
         /\ deal.direct => ~deal.gasless
  BY DEF Deals, DepositorIsSender

\* What is signed is the wallet-level key's or, for a wallet that pays itself, the user's, and
\* names the lock the recorded terms lead to, before there is one.
AuthoritySigned ==
    witness # Unsigned =>
        /\ witness.by \in {"sdk", "wallet"} /\ (witness.by = "wallet" => ~deal.gasless)
        /\ witness.names = (IF deal.terms = "full" /\ deal.own THEN witness.by ELSE "coordinator")
        /\ ~deal.direct /\ evmLock.state = "none"

\* A lock is the coordinator's with a deposit of ours, or one of ours.
AuthorityLock ==
    evmLock.state # "none" =>
        /\ deal.direct => evmLock.sender = "wallet"
        /\ deal.own => evmLock.sender \in Ours
        /\ ~deal.direct /\ ~deal.own =>
                evmLock.sender = "coordinator" /\ evmLock.deposit \in Ours /\ evmLock.moves = 0
        /\ "wallet" \in {evmLock.sender, evmLock.deposit} => ~deal.gasless

\* A refund call names what its kind lets it; one read on the chain, its lock's owner.
AuthorityNames(r) ==
    /\ r \in [kind : {"refundFor", "refund", "refundTo", "refundBySig", "collab"},
             to : Addresses, by : Addresses, sender : Addresses, pays : Addresses,
             moves : {0, 1}, read : BOOLEAN]
    /\ r.kind \in {"refund", "refundBySig"} => r.by \in Ours
    /\ r.read =>
        CASE r.kind = "refundFor" -> r.pays = r.sender /\ r.sender \in Ours
          [] r.kind = "refund" -> r.pays = r.by /\ r.sender = r.by
          [] r.kind = "refundTo" -> /\ r.to = r.sender /\ r.sender = "coordinator"
                                    /\ r.pays = evmLock.deposit /\ r.pays \in Ours
          [] OTHER -> FALSE

AuthorityBuilt ==
    /\ evmLock.state = "none" => refund = NoRefund
    /\ refund # NoRefund => AuthorityNames(refund)

\* Every variable has its type.
AuthorityShape ==
    /\ deal \in Deals /\ kernel \in BOOLEAN
    /\ witness \in [by : Addresses, names : Addresses, envelope : BOOLEAN]
    /\ evmLock \in [state : {"none", "active", "refunded"}, sender : Addresses, deposit : Addresses,
                    moves : {0, 1}, known : {0, 1}, expired : BOOLEAN]
    /\ evmLock.known <= evmLock.moves
    /\ refund \in [kind : {"none", "refundFor", "refund", "refundTo", "refundBySig", "collab"},
                   to : Addresses, by : Addresses, sender : Addresses, pays : Addresses,
                   moves : {0, 1}, read : BOOLEAN]
    /\ payee \in Addresses

\* The lock is the client's to refund, by whoever owns it; what is signed is for it, what is
\* built on reading it names its owner, and what was refunded went to the client.
AuthorityInv ==
    /\ AuthorityShape /\ AuthoritySigned /\ AuthorityLock /\ AuthorityBuilt
    /\ evmLock.state = "refunded" => payee \in Ours

\* What the runs check follows from the invariant.
LEMMA AuthorityHolds == AuthorityInv => AuthorityTypeOK /\ BuiltIsAccepted /\ RefundIsOpen
  <1> SUFFICES ASSUME AuthorityInv PROVE AuthorityTypeOK /\ BuiltIsAccepted /\ RefundIsOpen
    OBVIOUS
  <1> USE DEF AuthorityInv
  <1>1. AuthorityTypeOK
    BY DEF AuthorityTypeOK, AuthorityShape
  <1>2. BuiltIsAccepted
    <2>1. witness # Unsigned /\ deal.terms = "full" =>
              witness.names = IF deal.own THEN witness.by ELSE "coordinator"
      BY DEF AuthoritySigned
    <2>2. ASSUME refund.read, evmLock.expired, Locked(refund.sender, refund.moves),
                 refund.kind = "refundFor" => deal.own
          PROVE  Accepts(refund) /\ Payee(refund) = refund.pays /\ refund.pays \in Ours
      <3>0. refund # NoRefund
        BY <2>2 DEF NoRefund
      <3>1. CASE refund.kind = "refundFor"
        <4>1. refund.pays = refund.sender /\ refund.sender \in Ours
          BY <2>2, <3>0, <3>1 DEF AuthorityBuilt, AuthorityNames
        <4> QED
          BY <2>2, <3>1, <4>1 DEF Accepts, Payee, Locked
      <3>2. CASE refund.kind = "refund"
        <4>1. refund.pays = refund.by /\ refund.sender = refund.by /\ refund.by \in Ours
          BY <2>2, <3>0, <3>2 DEF AuthorityBuilt, AuthorityNames
        <4> QED
          BY <2>2, <3>2, <4>1 DEF Accepts, Payee, Locked
      <3>3. CASE refund.kind = "refundTo"
        <4>1. /\ refund.to = refund.sender /\ refund.sender = "coordinator"
              /\ refund.pays = evmLock.deposit /\ refund.pays \in Ours
          BY <2>2, <3>0, <3>3 DEF AuthorityBuilt, AuthorityNames
        <4> QED
          BY <2>2, <3>3, <4>1 DEF Accepts, Payee, Locked
      <3>4. CASE refund.kind \notin {"refundFor", "refund", "refundTo"}
        BY <2>2, <3>0, <3>4 DEF AuthorityBuilt, AuthorityNames
      <3> QED
        BY <3>1, <3>2, <3>3, <3>4
    <2> QED
      BY <2>1, <2>2 DEF BuiltIsAccepted
  <1>3. RefundIsOpen
    <2> SUFFICES ASSUME evmLock.state = "active", evmLock.expired, evmLock.known = evmLock.moves,
                        NEW w \in Ours, w = evmLock.sender \/ deal.own \/ evmLock.sender = "coordinator"
                 PROVE  \E built \in ChainRefunds(w) : Accepts(built)
      BY DEF RefundIsOpen
    <2>1. /\ deal \in Deals /\ DepositorIsSender = deal.own /\ deal.client \in Ours
          /\ ~deal.gasless => deal.client = "wallet"
          /\ deal.own \in BOOLEAN /\ deal.direct \in BOOLEAN
      BY AuthorityDeals DEF AuthorityShape
    <2>2. /\ deal.direct => evmLock.sender = "wallet"
          /\ deal.own => evmLock.sender \in Ours
          /\ ~deal.direct /\ ~deal.own =>
                evmLock.sender = "coordinator" /\ evmLock.deposit \in Ours /\ evmLock.moves = 0
          /\ "wallet" \in {evmLock.sender, evmLock.deposit} => ~deal.gasless
      BY DEF AuthorityLock
    <2>3. evmLock.sender \in Addresses
      BY DEF AuthorityShape
    <2> DEFINE sender == evmLock.sender
               known == evmLock.known
    <2>4. Locked(sender, known)
      BY DEF Locked
    <2>5. CASE deal.own
      <3>1. sender \in LockSenders(w)
        BY <2>1, <2>2, <2>5 DEF LockSenders, ExpectedDepositors, Ours
      <3> DEFINE r == RefundCall("refundFor", "htlc", w, sender, sender, known, TRUE)
      <3>2. r \in ChainRefunds(w)
        BY <2>1, <2>4, <2>5, <3>1 DEF ChainRefunds
      <3>3. r.kind = "refundFor" /\ r.sender = sender /\ r.moves = known
        BY DEF RefundCall
      <3> HIDE DEF r
      <3>4. Accepts(r)
        BY <2>4, <2>5, <3>3 DEF Accepts
      <3> QED
        BY <3>2, <3>4
    <2>6. CASE ~deal.own /\ sender = w
      <3>1. sender \in LockSenders(w)
        BY <2>1, <2>3, <2>6 DEF LockSenders
      <3> DEFINE r == RefundCall("refund", "htlc", w, w, w, known, TRUE)
      <3>2. r \in ChainRefunds(w)
        BY <2>1, <2>4, <2>6, <3>1 DEF ChainRefunds
      <3>3. r.kind = "refund" /\ r.by = w /\ r.moves = known
        BY DEF RefundCall
      <3> HIDE DEF r
      <3>4. Accepts(r)
        BY <2>4, <2>6, <3>3 DEF Accepts
      <3> QED
        BY <3>2, <3>4
    <2>7. CASE ~deal.own /\ sender # w
      <3>1. sender = "coordinator" /\ ~deal.direct /\ evmLock.deposit \in Ours
        BY <2>2, <2>7
      <3>7. evmLock.moves = 0
        BY <2>2, <2>7, <3>1
      <3>8. evmLock.known \in {0, 1} /\ known = 0
        BY <3>7 DEF AuthorityShape
      <3>2. sender \in LockSenders(w)
        BY <2>1, <2>3, <2>7, <3>1 DEF LockSenders, Coordinator
      <3>3. DepositsOf(sender) = evmLock.deposit /\ evmLock.deposit \in ExpectedDepositors(w)
        BY <2>1, <2>2, <3>1 DEF DepositsOf, ExpectedDepositors, Ours
      <3> DEFINE r == RefundCall("refundTo", sender, w, sender, DepositsOf(sender), known, TRUE)
      <3>9. /\ evmLock.sender \in LockSenders(w) /\ Locked(evmLock.sender, evmLock.known)
            /\ DepositorIsSender = FALSE /\ evmLock.sender # w
            /\ ~(evmLock.known > 0 \/ DepositsOf(evmLock.sender) \notin ExpectedDepositors(w))
        BY <2>1, <2>4, <2>7, <3>2, <3>3, <3>8
      <3>4. r \in ChainRefunds(w)
        BY <3>9, Zenon DEF ChainRefunds
      <3>5. r.kind = "refundTo" /\ r.to = sender /\ r.moves = known
        BY DEF RefundCall
      <3> HIDE DEF r
      <3>6. Accepts(r)
        BY <2>4, <3>1, <3>5 DEF Accepts
      <3> QED
        BY <3>4, <3>6
    <2> QED
      BY <2>1, <2>5, <2>6, <2>7
  <1> QED
    BY <1>1, <1>2, <1>3

\* What refundFromFundingTx reads on the chain names the lock's owner.
LEMMA AuthorityChainNames ==
  ASSUME AuthorityInv, NEW w \in Ours, NEW r \in ChainRefunds(w)
  PROVE  AuthorityNames(r)
  <1> USE DEF AuthorityInv
  <1>1. /\ deal \in Deals /\ DepositorIsSender = deal.own /\ deal.client \in Ours
        /\ deal.own \in BOOLEAN /\ deal.direct \in BOOLEAN
    BY AuthorityDeals DEF AuthorityShape
  <1>2. /\ evmLock.sender \in Addresses /\ evmLock.deposit \in Addresses
        /\ evmLock.known \in {0, 1} /\ w \in Addresses
    BY DEF AuthorityShape, Addresses
  <1>3. Locked(evmLock.sender, evmLock.known)
    BY DEF ChainRefunds
  <1>4. evmLock.state # "none"
    BY <1>3 DEF Locked
  <1>5. /\ deal.direct => evmLock.sender = "wallet"
        /\ deal.own => evmLock.sender \in Ours
        /\ ~deal.direct /\ ~deal.own =>
              evmLock.sender = "coordinator" /\ evmLock.deposit \in Ours /\ evmLock.moves = 0
    BY <1>4 DEF AuthorityLock
  <1>6. CASE deal.own
    <2>1. r = RefundCall("refundFor", "htlc", w, evmLock.sender, evmLock.sender, evmLock.known, TRUE)
      BY <1>1, <1>6 DEF ChainRefunds
    <2> QED
      BY <1>2, <1>5, <1>6, <2>1 DEF RefundCall, AuthorityNames, Addresses, Contracts
  <1>7. CASE ~deal.own /\ evmLock.sender = w
    <2>1. r = RefundCall("refund", "htlc", w, w, w, evmLock.known, TRUE)
      BY <1>1, <1>7 DEF ChainRefunds
    <2> QED
      BY <1>2, <2>1 DEF RefundCall, AuthorityNames, Addresses, Contracts
  <1>8. CASE ~deal.own /\ evmLock.sender # w
    <2>1. /\ r = RefundCall("refundTo", evmLock.sender, w, evmLock.sender,
                           DepositsOf(evmLock.sender), evmLock.known, TRUE)
          /\ DepositsOf(evmLock.sender) \in ExpectedDepositors(w)
      BY <1>1, <1>8 DEF ChainRefunds
    <2>2. evmLock.sender = "coordinator" /\ DepositsOf(evmLock.sender) = evmLock.deposit
      BY <1>1, <2>1 DEF DepositsOf, ExpectedDepositors, Ours
    <2>3. evmLock.deposit \in Ours
      BY <1>1, <2>1, <2>2 DEF ExpectedDepositors, Ours
    <2> QED
      BY <1>2, <2>1, <2>2, <2>3 DEF RefundCall, AuthorityNames
  <1> QED
    BY <1>6, <1>7, <1>8, <1>1

\* What bindServerRefund passes is the call it was given, the signer's own, and names the
\* lock's owner when the node let it read the lock.
LEMMA AuthorityServerNames ==
  ASSUME AuthorityInv, NEW w \in Ours \cup {"server"}, NEW call \in ServerCalls,
         NEW r \in RefundsOfServer(call, w)
  PROVE  /\ r.kind = call.kind /\ r.by = w
         /\ r \in [kind : {"refundFor", "refund", "refundTo"}, to : Addresses, by : Addresses,
                   sender : Addresses, pays : Addresses, moves : {0, 1}, read : BOOLEAN]
         /\ w = "server" => ~r.read
         /\ w \in Ours => AuthorityNames(r)
  <1> USE DEF AuthorityInv
  <1>1. deal.client \in Ours
    BY AuthorityDeals DEF AuthorityShape
  <1>2. /\ call.kind \in {"refundFor", "refund", "refundTo"} /\ call.to \in Contracts
        /\ call.sender \in Addresses /\ call.moves \in {0, 1} /\ w \in Addresses
        /\ call.to \in Addresses /\ evmLock.deposit \in Addresses
    BY DEF ServerCalls, AuthorityShape, Addresses, Contracts, Ours
  <1> DEFINE sender == CASE call.kind = "refundFor" -> call.sender
                         [] call.kind = "refund" -> w
                         [] OTHER -> call.to
             pays == IF call.kind = "refundTo" THEN DepositsOf(call.to) ELSE sender
  <1>3. /\ call.kind = "refundFor" => sender = call.sender
        /\ call.kind = "refund" => sender = w
        /\ call.kind = "refundTo" => sender = call.to
    BY <1>2
  <1>4. /\ call.kind = "refundTo" => pays = DepositsOf(call.to)
        /\ call.kind # "refundTo" => pays = sender
    OBVIOUS
  <1>5. sender \in Addresses /\ pays \in Addresses
    BY <1>2, <1>3, <1>4 DEF DepositsOf, Addresses
  <1> DEFINE built(read) == RefundCall(call.kind, call.to, w, sender, pays, call.moves, read)
  <1>6. \/ r = built(FALSE)
        \/ /\ r = built(TRUE) /\ w # "server"
           /\ Locked(sender, call.moves) /\ pays \in ExpectedDepositors(w)
    <2>1. CASE w = "server"
      BY <2>1, Zenon DEF RefundsOfServer
    <2>2. CASE w # "server"
      BY <2>2, Zenon DEF RefundsOfServer
    <2> QED
      BY <2>1, <2>2
  <1> HIDE DEF sender, pays
  <1>9. ASSUME NEW read \in BOOLEAN, r = built(read)
        PROVE  /\ r.kind = call.kind /\ r.to = call.to /\ r.by = w /\ r.sender = sender
               /\ r.pays = pays /\ r.moves = call.moves /\ r.read = read
               /\ r \in [kind : {"refundFor", "refund", "refundTo"}, to : Addresses, by : Addresses,
                         sender : Addresses, pays : Addresses, moves : {0, 1}, read : BOOLEAN]
    BY <1>2, <1>5, <1>9 DEF RefundCall
  <1> HIDE DEF built
  <1>7. /\ r.kind = call.kind /\ r.to = call.to /\ r.by = w /\ r.sender = sender /\ r.pays = pays
        /\ r.moves = call.moves /\ r.read \in BOOLEAN
        /\ r \in [kind : {"refundFor", "refund", "refundTo"}, to : Addresses, by : Addresses,
                  sender : Addresses, pays : Addresses, moves : {0, 1}, read : BOOLEAN]
        /\ r.read => /\ w # "server" /\ Locked(sender, call.moves)
                     /\ pays \in ExpectedDepositors(w)
    <2>1. CASE r = built(FALSE)
      BY <1>9, <2>1
    <2>2. CASE /\ r = built(TRUE) /\ w # "server"
               /\ Locked(sender, call.moves) /\ pays \in ExpectedDepositors(w)
      BY <1>9, <2>2
    <2> QED
      BY <1>6, <2>1, <2>2
  <1>8. ASSUME w \in Ours PROVE AuthorityNames(r)
    <2>1. CASE ~r.read
      BY <1>2, <1>7, <1>8, <2>1 DEF AuthorityNames
    <2>2. CASE r.read
      <3>1. Locked(sender, call.moves) /\ pays \in Ours
        BY <1>1, <1>7, <1>8, <2>2 DEF ExpectedDepositors, Ours
      <3>2. CASE call.kind = "refundFor"
        BY <1>3, <1>4, <1>7, <3>1, <3>2 DEF AuthorityNames
      <3>3. CASE call.kind = "refund"
        BY <1>3, <1>4, <1>7, <1>8, <3>1, <3>3 DEF AuthorityNames
      <3>4. CASE call.kind = "refundTo"
        <4>1. call.to = "coordinator" /\ pays = evmLock.deposit
          BY <1>4, <3>1, <3>4 DEF DepositsOf, Ours
        <4> QED
          BY <1>3, <1>7, <3>1, <3>4, <4>1 DEF AuthorityNames
      <3> QED
        BY <1>2, <3>2, <3>3, <3>4
    <2> QED
      BY <2>1, <2>2
  <1> QED
    BY <1>7, <1>8

\* Nothing signed, locked or built yet has its type.
LEMMA AuthorityBlank ==
  /\ Unsigned \in [by : Addresses, names : Addresses, envelope : BOOLEAN]
  /\ NoRefund \in [kind : {"none", "refundFor", "refund", "refundTo", "refundBySig", "collab"},
                   to : Addresses, by : Addresses, sender : Addresses, pays : Addresses,
                   moves : {0, 1}, read : BOOLEAN]
  /\ NoLock \in [state : {"none", "active", "refunded"}, sender : Addresses, deposit : Addresses,
                 moves : {0, 1}, known : {0, 1}, expired : BOOLEAN]
  <1>1. "server" \in Addresses
    BY DEF Addresses
  <1>2. Unsigned \in [by : Addresses, names : Addresses, envelope : BOOLEAN]
    BY <1>1 DEF Unsigned
  <1>3. NoRefund \in [kind : {"none", "refundFor", "refund", "refundTo", "refundBySig", "collab"},
                     to : Addresses, by : Addresses, sender : Addresses, pays : Addresses,
                     moves : {0, 1}, read : BOOLEAN]
    BY <1>1 DEF NoRefund
  <1>4. NoLock \in [state : {"none", "active", "refunded"}, sender : Addresses,
                   deposit : Addresses, moves : {0, 1}, known : {0, 1}, expired : BOOLEAN]
    BY <1>1 DEF NoLock
  <1> QED
    BY <1>2, <1>3, <1>4

\* A lock that appears is its creator's, where it was created.
AuthorityCreated(opened, sender, deposit) ==
    opened = [NoLock EXCEPT !.state = "active", !.sender = sender, !.deposit = deposit]

LEMMA AuthorityCreates ==
  ASSUME NEW sender \in Addresses, NEW deposit \in Addresses, NEW opened,
         AuthorityCreated(opened, sender, deposit)
  PROVE  /\ opened \in [state : {"none", "active", "refunded"}, sender : Addresses,
                      deposit : Addresses, moves : {0, 1}, known : {0, 1}, expired : BOOLEAN]
         /\ opened.known <= opened.moves /\ opened.state = "active" /\ opened.moves = 0
         /\ opened.sender = sender /\ opened.deposit = deposit
  <1> DEFINE blank == NoLock
  <1>1. /\ blank \in [state : {"none", "active", "refunded"}, sender : Addresses,
                      deposit : Addresses, moves : {0, 1}, known : {0, 1}, expired : BOOLEAN]
    BY AuthorityBlank
  <1>2. blank.moves = 0 /\ blank.known = 0
    BY DEF NoLock
  <1>3. opened = [blank EXCEPT !.state = "active", !.sender = sender, !.deposit = deposit]
    BY DEF AuthorityCreated
  <1> HIDE DEF blank
  <1>4. opened \in [state : {"none", "active", "refunded"}, sender : Addresses,
                 deposit : Addresses, moves : {0, 1}, known : {0, 1}, expired : BOOLEAN]
    BY <1>1, <1>3
  <1>5. opened.moves = 0 /\ opened.known = 0
    BY <1>1, <1>2, <1>3
  <1>6. opened.state = "active" /\ opened.sender = sender /\ opened.deposit = deposit
    BY <1>1, <1>3
  <1> QED
    BY <1>4, <1>5, <1>6

\* An address is the client's, a contract or the server's.
LEMMA AuthorityAddresses ==
  /\ Ours \subseteq Addresses /\ Contracts \subseteq Addresses /\ "server" \in Addresses
  /\ {"sdk", "perSwap", "wallet"} = Ours /\ {"coordinator", "htlc", "elsewhere"} = Contracts
  BY DEF Addresses, Ours, Contracts

\* A swap not funded yet, or by an older SDK, has its lock in the client's hands.
LEMMA AuthorityStart == AuthorityInit => AuthorityInv
  <1> SUFFICES ASSUME AuthorityInit PROVE AuthorityInv
    OBVIOUS
  <1>1. /\ deal \in Deals /\ witness = Unsigned /\ refund = NoRefund
        /\ kernel = FALSE /\ payee = "server"
    BY DEF AuthorityInit
  <1>2. /\ deal.own \in BOOLEAN
        /\ deal.direct => ~deal.gasless
    BY <1>1, AuthorityDeals
  <1>3. evmLock = IF ~deal.gasless \/ deal.terms # "none" THEN NoLock
                  ELSE [NoLock EXCEPT !.state = "active",
                                      !.sender = IF deal.own THEN "perSwap" ELSE "coordinator",
                                      !.deposit = IF deal.own THEN @ ELSE "perSwap"]
    BY DEF AuthorityInit
  <1>8. /\ evmLock \in [state : {"none", "active", "refunded"}, sender : Addresses,
                       deposit : Addresses, moves : {0, 1}, known : {0, 1}, expired : BOOLEAN]
        /\ evmLock.known <= evmLock.moves /\ evmLock.state \in {"none", "active"}
        /\ evmLock.moves = 0
        /\ evmLock.state # "none" =>
              /\ deal.gasless /\ evmLock.sender = (IF deal.own THEN "perSwap" ELSE "coordinator")
              /\ evmLock.deposit = (IF deal.own THEN NoLock.deposit ELSE "perSwap")
    <2> DEFINE blank == NoLock
    <2>1. /\ blank \in [state : {"none", "active", "refunded"}, sender : Addresses,
                        deposit : Addresses, moves : {0, 1}, known : {0, 1}, expired : BOOLEAN]
      BY AuthorityBlank
    <2>2. blank.moves = 0 /\ blank.known = 0 /\ blank.state = "none"
      BY DEF NoLock
    <2>3. evmLock = IF ~deal.gasless \/ deal.terms # "none" THEN blank
                    ELSE [blank EXCEPT !.state = "active",
                                       !.sender = IF deal.own THEN "perSwap" ELSE "coordinator",
                                       !.deposit = IF deal.own THEN @ ELSE "perSwap"]
      BY <1>3
    <2>4. (IF deal.own THEN "perSwap" ELSE "coordinator") \in Addresses /\ "perSwap" \in Addresses
      BY AuthorityAddresses
    <2> SUFFICES /\ evmLock \in [state : {"none", "active", "refunded"}, sender : Addresses,
                                deposit : Addresses, moves : {0, 1}, known : {0, 1},
                                expired : BOOLEAN]
                 /\ evmLock.known <= evmLock.moves /\ evmLock.state \in {"none", "active"}
                 /\ evmLock.moves = 0
                 /\ evmLock.state # "none" =>
                       /\ deal.gasless
                       /\ evmLock.sender = (IF deal.own THEN "perSwap" ELSE "coordinator")
                       /\ evmLock.deposit = (IF deal.own THEN blank.deposit ELSE "perSwap")
      OBVIOUS
    <2> HIDE DEF blank
    <2>5. CASE ~deal.gasless \/ deal.terms # "none"
      BY <2>1, <2>2, <2>3, <2>5
    <2>6. CASE deal.gasless /\ deal.terms = "none"
      <3> DEFINE sender == IF deal.own THEN "perSwap" ELSE "coordinator"
                 deposit == IF deal.own THEN blank.deposit ELSE "perSwap"
      <3>1. evmLock = [blank EXCEPT !.state = "active", !.sender = sender, !.deposit = deposit]
        BY <2>1, <2>3, <2>6
      <3>2. sender \in Addresses /\ deposit \in Addresses
        BY <2>1, <2>4
      <3> HIDE DEF sender, deposit
      <3>3. AuthorityCreated(evmLock, sender, deposit)
        BY <3>1 DEF blank, AuthorityCreated
      <3>4. /\ evmLock \in [state : {"none", "active", "refunded"}, sender : Addresses,
                           deposit : Addresses, moves : {0, 1}, known : {0, 1}, expired : BOOLEAN]
            /\ evmLock.known <= evmLock.moves /\ evmLock.state = "active" /\ evmLock.moves = 0
            /\ evmLock.sender = sender /\ evmLock.deposit = deposit
        BY <3>2, <3>3, AuthorityCreates
      <3> QED
        BY <2>6, <3>4 DEF sender, deposit
    <2> QED
      BY <2>5, <2>6
  <1>4. AuthorityShape
    BY <1>1, <1>8, AuthorityBlank, AuthorityAddresses DEF AuthorityShape
  <1>5. AuthoritySigned /\ AuthorityBuilt
    BY <1>1 DEF AuthoritySigned, AuthorityBuilt
  <1>6. AuthorityLock /\ evmLock.state # "refunded"
    <2>1. NoLock.deposit = "server"
      BY DEF NoLock
    <2>2. CASE evmLock.state = "none"
      BY <2>2 DEF AuthorityLock
    <2>3. CASE evmLock.state # "none" /\ deal.own
      BY <1>2, <1>8, <2>1, <2>3, AuthorityAddresses DEF AuthorityLock
    <2>4. CASE evmLock.state # "none" /\ ~deal.own
      <3>1. /\ evmLock.sender = "coordinator" /\ evmLock.deposit = "perSwap"
            /\ deal.gasless /\ ~deal.direct /\ evmLock.moves = 0 /\ evmLock.state # "refunded"
        BY <1>2, <1>8, <2>4
      <3>2. "perSwap" \in Ours
        BY AuthorityAddresses
      <3> QED
        BY <2>4, <3>1, <3>2 DEF AuthorityLock
    <2> QED
      BY <1>8, <2>2, <2>3, <2>4
  <1> QED
    BY <1>4, <1>5, <1>6 DEF AuthorityInv

\* Signing the funding, with the wallet-level key or the user's wallet.
LEMMA AuthoritySigns ==
  ASSUME AuthorityInv, SignWithEvmKey \/ GetPermit2FundingParamsUnsigned
  PROVE  AuthorityInv'
  <1> USE DEF AuthorityInv
  <1>1. /\ deal' = deal /\ kernel' = kernel /\ evmLock' = evmLock
        /\ refund' = refund /\ payee' = payee
        /\ evmLock.state = "none" /\ ~deal.direct
    BY DEF SignWithEvmKey, GetPermit2FundingParamsUnsigned, CheckedFunding
  <1>2. PICK w \in {"sdk", "wallet"}, delegated \in BOOLEAN :
            /\ witness' = [by |-> w, names |-> Permit2RefundAddress(w), envelope |-> delegated]
            /\ w = "wallet" => ~deal.gasless
    <2>1. CASE SignWithEvmKey
      <3>1. PICK delegated \in IsKernelDelegated("sdk") :
                witness' = SignDepositorDigest(Permit2FundingDigest("sdk"), delegated)
        BY <2>1 DEF SignWithEvmKey
      <3>2. delegated \in BOOLEAN
        BY DEF IsKernelDelegated, AuthorityShape
      <3> QED
        BY <3>1, <3>2 DEF SignDepositorDigest, Permit2FundingDigest
    <2>2. CASE GetPermit2FundingParamsUnsigned
      BY <2>2 DEF GetPermit2FundingParamsUnsigned, Permit2TypedData, Permit2FundingDigest
    <2> QED
      BY <2>1, <2>2
  <1>3. Permit2RefundAddress(w) = (IF deal.terms = "full" /\ deal.own THEN w ELSE "coordinator")
    BY DEF Permit2RefundAddress
  <1>4. AuthorityShape'
    BY <1>1, <1>2, <1>3 DEF AuthorityShape, Addresses, Ours, Contracts
  <1>5. AuthoritySigned'
    BY <1>1, <1>2, <1>3 DEF AuthoritySigned
  <1>6. AuthorityLock' /\ AuthorityBuilt' /\ (evmLock'.state = "refunded" => payee' \in Ours)
    BY <1>1 DEF AuthorityLock, AuthorityBuilt, AuthorityNames
  <1> QED
    BY <1>4, <1>5, <1>6

\* The lock appears as the coordinator creates it, or as the wallet's own.
LEMMA AuthorityFunds ==
  ASSUME AuthorityInv, CreateLockWithPermit2 \/ FundNative
  PROVE  AuthorityInv'
  <1> USE DEF AuthorityInv
  <1>0. /\ deal \in Deals /\ deal.own \in BOOLEAN /\ deal.direct \in BOOLEAN
        /\ deal.direct => ~deal.gasless
    BY AuthorityDeals DEF AuthorityShape
  <1>1. CASE CreateLockWithPermit2
    <2>1. /\ kernel' = kernel /\ refund' = refund /\ payee' = payee /\ witness' = Unsigned
          /\ deal' = [deal EXCEPT !.recorded = TRUE]
          /\ witness # Unsigned /\ witness.names = IF deal.own THEN witness.by ELSE "coordinator"
      BY <1>1 DEF CreateLockWithPermit2
    <2>2. /\ witness.by \in {"sdk", "wallet"} /\ (witness.by = "wallet" => ~deal.gasless)
          /\ ~deal.direct /\ evmLock.state = "none"
      BY <2>1 DEF AuthoritySigned
    <2>3. evmLock' = [NoLock EXCEPT !.state = "active", !.sender = witness.names,
                                 !.deposit = IF deal.own THEN @ ELSE witness.by]
      BY <1>1 DEF CreateLockWithPermit2
    <2>4. /\ deal' \in Deals /\ deal'.own = deal.own /\ deal'.direct = deal.direct
          /\ deal'.gasless = deal.gasless
      BY <1>0, <2>1 DEF Deals
    <2> DEFINE sender == witness.names
               deposit == IF deal.own THEN "server" ELSE witness.by
    <2>8. sender \in Addresses /\ deposit \in Addresses
      BY AuthorityAddresses DEF AuthorityShape
    <2>9. AuthorityCreated(evmLock', sender, deposit)
      BY <2>3 DEF NoLock, AuthorityCreated
    <2> HIDE DEF sender, deposit
    <2>10. /\ evmLock' \in [state : {"none", "active", "refunded"}, sender : Addresses,
                           deposit : Addresses, moves : {0, 1}, known : {0, 1}, expired : BOOLEAN]
           /\ evmLock'.known <= evmLock'.moves /\ evmLock'.state = "active" /\ evmLock'.moves = 0
           /\ evmLock'.sender = sender /\ evmLock'.deposit = deposit
      BY <2>8, <2>9, AuthorityCreates
    <2>5. AuthorityShape'
      BY <2>1, <2>4, <2>10, AuthorityBlank DEF AuthorityShape
    <2>6. AuthorityLock' /\ evmLock'.state = "active"
      BY <1>0, <2>1, <2>2, <2>10, <2>4 DEF AuthorityLock, sender, deposit, Ours
    <2>7. AuthoritySigned' /\ AuthorityBuilt'
      BY <2>1, <2>2, <2>6 DEF AuthoritySigned, AuthorityBuilt
    <2> QED
      BY <2>5, <2>6, <2>7
  <1>2. CASE FundNative
    <2>1. /\ deal' = deal /\ kernel' = kernel /\ refund' = refund /\ payee' = payee
          /\ witness' = witness /\ deal.direct /\ evmLock.state = "none"
          /\ evmLock' = [NoLock EXCEPT !.state = "active", !.sender = "wallet"]
      BY <1>2 DEF FundNative
    <2> DEFINE blank == NoLock
    <2>6. /\ blank \in [state : {"none", "active", "refunded"}, sender : Addresses,
                       deposit : Addresses, moves : {0, 1}, known : {0, 1}, expired : BOOLEAN]
          /\ "wallet" \in Addresses
      BY AuthorityBlank, AuthorityAddresses
    <2>8. blank.moves = 0 /\ blank.known = 0
      BY DEF NoLock
    <2>9. evmLock' = [blank EXCEPT !.state = "active", !.sender = "wallet"]
      BY <2>1
    <2> HIDE DEF blank
    <2>10. evmLock' \in [state : {"none", "active", "refunded"}, sender : Addresses,
                        deposit : Addresses, moves : {0, 1}, known : {0, 1}, expired : BOOLEAN]
      BY <2>6, <2>9
    <2>11. evmLock'.moves = 0 /\ evmLock'.known = 0
      BY <2>6, <2>8, <2>9
    <2>12. evmLock'.state = "active" /\ evmLock'.sender = "wallet"
      BY <2>6, <2>9
    <2>7. /\ evmLock' \in [state : {"none", "active", "refunded"}, sender : Addresses,
                          deposit : Addresses, moves : {0, 1}, known : {0, 1}, expired : BOOLEAN]
          /\ evmLock'.known <= evmLock'.moves /\ evmLock'.state = "active" /\ evmLock'.moves = 0
          /\ evmLock'.sender = "wallet"
      BY <2>10, <2>11, <2>12
    <2>2. AuthorityShape'
      BY <2>1, <2>7 DEF AuthorityShape
    <2>3. AuthorityLock' /\ evmLock'.state = "active"
      BY <1>0, <2>1, <2>7 DEF AuthorityLock, Ours
    <2>4. witness = Unsigned /\ refund = NoRefund
      BY <2>1 DEF AuthoritySigned, AuthorityBuilt
    <2>5. AuthoritySigned' /\ AuthorityBuilt'
      BY <2>1, <2>3, <2>4 DEF AuthoritySigned, AuthorityBuilt
    <2> QED
      BY <2>2, <2>3, <2>5
  <1> QED
    BY <1>1, <1>2

\* Steps that leave the lock's owner, the refund and the payee alone.
LEMMA AuthorityMoves ==
  ASSUME AuthorityInv, Permit2Rejects \/ DelegateKernel \/ RehashLock \/ TimelockPasses
  PROVE  AuthorityInv'
  <1> USE DEF AuthorityInv
  <1>1. deal' = deal /\ refund' = refund /\ payee' = payee
    BY DEF Permit2Rejects, DelegateKernel, RehashLock, TimelockPasses
  <1>2. (witness' = Unsigned \/ witness' = witness) /\ kernel' \in BOOLEAN
    BY DEF Permit2Rejects, DelegateKernel, RehashLock, TimelockPasses, AuthorityShape
  <1>3. /\ evmLock' \in [state : {"none", "active", "refunded"}, sender : Addresses,
                        deposit : Addresses, moves : {0, 1}, known : {0, 1}, expired : BOOLEAN]
        /\ evmLock'.known <= evmLock'.moves
        /\ evmLock'.state = evmLock.state /\ evmLock'.sender = evmLock.sender
        /\ evmLock'.deposit = evmLock.deposit
        /\ evmLock'.moves = evmLock.moves \/ deal.own
    <2>1. CASE Permit2Rejects \/ DelegateKernel
      BY <2>1 DEF Permit2Rejects, DelegateKernel, AuthorityShape
    <2>2. CASE RehashLock
      <3>1. /\ deal.own
            /\ \E recorded \in {0, 1} : evmLock' = [evmLock EXCEPT !.moves = 1, !.known = recorded]
            /\ evmLock.state = "active"
        BY <2>2 DEF RehashLock
      <3>2. PICK recorded \in {0, 1} : evmLock' = [evmLock EXCEPT !.moves = 1, !.known = recorded]
        BY <3>1
      <3>3. evmLock \in [state : {"none", "active", "refunded"}, sender : Addresses,
                        deposit : Addresses, moves : {0, 1}, known : {0, 1}, expired : BOOLEAN]
        BY DEF AuthorityShape
      <3>4. /\ evmLock'.moves = 1 /\ evmLock'.known = recorded /\ evmLock'.state = evmLock.state
            /\ evmLock'.sender = evmLock.sender /\ evmLock'.deposit = evmLock.deposit
            /\ evmLock' \in [state : {"none", "active", "refunded"}, sender : Addresses,
                            deposit : Addresses, moves : {0, 1}, known : {0, 1}, expired : BOOLEAN]
        BY <3>2, <3>3
      <3>5. recorded <= 1
        OBVIOUS
      <3> QED
        BY <3>1, <3>4, <3>5
    <2>3. CASE TimelockPasses
      BY <2>3 DEF TimelockPasses, AuthorityShape
    <2> QED
      BY <2>1, <2>2, <2>3
  <1>4. AuthorityShape'
    <2>1. witness' \in [by : Addresses, names : Addresses, envelope : BOOLEAN]
      BY <1>2, AuthorityBlank DEF AuthorityShape
    <2>2. /\ deal' \in Deals /\ payee' \in Addresses
          /\ refund' \in [kind : {"none", "refundFor", "refund", "refundTo", "refundBySig", "collab"},
                         to : Addresses, by : Addresses, sender : Addresses, pays : Addresses,
                         moves : {0, 1}, read : BOOLEAN]
      BY <1>1 DEF AuthorityShape
    <2> QED
      BY <1>2, <1>3, <2>1, <2>2 DEF AuthorityShape
  <1>5. AuthoritySigned'
    BY <1>1, <1>2, <1>3 DEF AuthoritySigned
  <1>6. AuthorityLock'
    BY <1>1, <1>3 DEF AuthorityLock
  <1>7. AuthorityBuilt'
    BY <1>1, <1>3 DEF AuthorityBuilt, AuthorityNames
  <1> QED
    BY <1>1, <1>3, <1>4, <1>5, <1>6, <1>7

\* A refund is built of a call that names its lock's owner, or was not read at all.
LEMMA AuthorityBuilds ==
  ASSUME AuthorityInv,
         \/ \E w \in Ours : BuildEvmRefund(w)
         \/ RefundEvmSponsored \/ CollabRefundEvmSwap \/ CollabRefundEvmWithSigner
  PROVE  AuthorityInv'
  <1> USE DEF AuthorityInv
  <1>1. /\ deal' = deal /\ kernel' = kernel /\ witness' = witness /\ evmLock' = evmLock
        /\ payee' = payee /\ evmLock.state # "none"
    BY DEF BuildEvmRefund, RefundEvmSponsored, CollabRefundEvmSwap, CollabRefundEvmWithSigner,
           CollabBuilds
  <1>2. AuthorityNames(refund')
    <2>1. ASSUME NEW w \in Ours, BuildEvmRefund(w) PROVE AuthorityNames(refund')
      <3>1. CASE \E r \in ChainRefunds(w) : refund' = r
        BY <3>1, AuthorityChainNames
      <3>2. CASE \E call \in ServerCalls : \E r \in RefundsOfServer(call, w) : refund' = r
        BY <3>2, AuthorityServerNames
      <3> QED
        BY <2>1, <3>1, <3>2 DEF BuildEvmRefund
    <2>2. ASSUME RefundEvmSponsored PROVE AuthorityNames(refund')
      <3>1. PICK account \in SponsoredOwner, call \in ServerCalls :
                \E r \in RefundsOfServer(call, "server") :
                    \E own \in RefundForAsOwnRefund(r, account) : refund' = own
        BY <2>2 DEF RefundEvmSponsored
      <3>2. PICK r \in RefundsOfServer(call, "server") :
                \E own \in RefundForAsOwnRefund(r, account) : refund' = own
        BY <3>1
      <3>3. account \in Ours /\ account \in Addresses
        BY DEF SponsoredOwner, Ours, Addresses
      <3>4. /\ r \in [kind : {"refundFor", "refund", "refundTo"}, to : Addresses, by : Addresses,
                      sender : Addresses, pays : Addresses, moves : {0, 1}, read : BOOLEAN]
            /\ r.read = FALSE
        BY AuthorityServerNames
      <3>5. CASE r.kind # "refundFor"
        <4>1. refund' = [r EXCEPT !.by = account]
          BY <3>2, <3>5 DEF RefundForAsOwnRefund
        <4> QED
          BY <3>3, <3>4, <4>1 DEF AuthorityNames
      <3>6. CASE r.kind = "refundFor"
        <4>1. refund' = [r EXCEPT !.kind = "refund", !.by = account]
          BY <3>2, <3>6 DEF RefundForAsOwnRefund
        <4> QED
          BY <3>3, <3>4, <4>1 DEF AuthorityNames
      <3> QED
        BY <3>5, <3>6
    <2>3. ASSUME NEW w \in Ours, CollabBuilds(w) PROVE AuthorityNames(refund')
      <3>1. evmLock.moves \in {0, 1} /\ w \in Addresses
        BY DEF AuthorityShape, Addresses
      <3>2. \/ refund' = RefundCall("refundBySig", "htlc", w, w, w, evmLock.moves, FALSE)
            \/ refund' = RefundCall("collab", "coordinator", w, "coordinator", w, evmLock.moves, FALSE)
        BY <2>3 DEF CollabBuilds, RefundBySig, CollabRefundDigest
      <3>3. CASE refund' = RefundCall("refundBySig", "htlc", w, w, w, evmLock.moves, FALSE)
        BY <3>1, <3>3, AuthorityAddresses DEF RefundCall, AuthorityNames
      <3>4. CASE refund' = RefundCall("collab", "coordinator", w, "coordinator", w, evmLock.moves,
                                      FALSE)
        BY <3>1, <3>4, AuthorityAddresses DEF RefundCall, AuthorityNames
      <3> QED
        BY <3>2, <3>3, <3>4
    <2>4. CollabKey \in Ours /\ "wallet" \in Ours
      BY DEF CollabKey, Ours
    <2> QED
      BY <2>1, <2>2, <2>3, <2>4 DEF CollabRefundEvmSwap, CollabRefundEvmWithSigner
  <1>3. AuthorityShape'
    BY <1>1, <1>2 DEF AuthorityShape, AuthorityNames
  <1>4. AuthorityBuilt'
    BY <1>1, <1>2 DEF AuthorityBuilt, AuthorityNames
  <1>5. AuthoritySigned' /\ AuthorityLock' /\ (evmLock'.state = "refunded" => payee' \in Ours)
    BY <1>1 DEF AuthoritySigned, AuthorityLock
  <1> QED
    BY <1>3, <1>4, <1>5

\* A refund the contracts take pays one of the client's addresses.
LEMMA AuthoritySends ==
  ASSUME AuthorityInv, SendRefund
  PROVE  AuthorityInv'
  <1> USE DEF AuthorityInv
  <1>1. /\ deal' = deal /\ kernel' = kernel /\ witness' = witness /\ refund' = NoRefund
        /\ refund # NoRefund
        /\ \/ ~Accepts(refund) /\ evmLock' = evmLock /\ payee' = payee
           \/ /\ Accepts(refund) /\ payee' = Payee(refund)
              /\ evmLock' = [evmLock EXCEPT !.state = "refunded"]
    BY DEF SendRefund
  <1>2. evmLock.state # "none" /\ witness = Unsigned
    BY <1>1 DEF AuthorityBuilt, AuthoritySigned
  <1>3. /\ evmLock' \in [state : {"none", "active", "refunded"}, sender : Addresses,
                        deposit : Addresses, moves : {0, 1}, known : {0, 1}, expired : BOOLEAN]
        /\ evmLock'.sender = evmLock.sender /\ evmLock'.deposit = evmLock.deposit
        /\ evmLock'.moves = evmLock.moves /\ evmLock'.known = evmLock.known
        /\ evmLock'.state # "none"
    BY <1>1, <1>2 DEF AuthorityShape
  <1>4. ASSUME Accepts(refund) PROVE Payee(refund) \in Ours
    <2>1. /\ deal.direct => evmLock.sender = "wallet"
          /\ deal.own => evmLock.sender \in Ours
          /\ ~deal.direct /\ ~deal.own =>
                evmLock.sender = "coordinator" /\ evmLock.deposit \in Ours /\ evmLock.moves = 0
      BY <1>2 DEF AuthorityLock
    <2>2. /\ refund.kind \in {"refundFor", "refund", "refundTo", "refundBySig", "collab"}
          /\ refund.kind \in {"refund", "refundBySig"} => refund.by \in Ours
      BY <1>1 DEF AuthorityBuilt, AuthorityNames
    <2>3. CASE refund.kind \in {"refundTo", "collab"}
      <3>1. evmLock.sender = "coordinator"
        BY <1>4, <2>3 DEF Accepts, Locked
      <3> QED
        BY <2>1, <2>3, <3>1 DEF Payee, Ours
    <2>4. CASE refund.kind \in {"refund", "refundBySig"}
      <3>1. evmLock.sender = refund.by
        BY <1>4, <2>4 DEF Accepts, Locked
      <3> QED
        BY <2>2, <2>4, <3>1 DEF Payee
    <2>5. CASE refund.kind = "refundFor"
      <3>1. deal.own
        BY <1>4, <2>5 DEF Accepts
      <3> QED
        BY <2>1, <2>5, <3>1 DEF Payee
    <2> QED
      BY <2>2, <2>3, <2>4, <2>5
  <1>5. AuthorityShape'
    <2>1. payee' \in Addresses
      BY <1>1, <1>4 DEF AuthorityShape, Addresses
    <2>2. evmLock'.known <= evmLock'.moves
      BY <1>3 DEF AuthorityShape
    <2> QED
      BY <1>1, <1>3, <2>1, <2>2 DEF AuthorityShape, NoRefund, Addresses
  <1>6. AuthoritySigned' /\ AuthorityBuilt'
    BY <1>1, <1>2, <1>3 DEF AuthoritySigned, AuthorityBuilt
  <1>7. AuthorityLock'
    BY <1>1, <1>2, <1>3 DEF AuthorityLock
  <1>8. evmLock'.state = "refunded" => payee' \in Ours
    BY <1>1, <1>4
  <1> QED
    BY <1>5, <1>6, <1>7, <1>8

\* Every step keeps the lock's owner what the client's own derivations take it to be.
LEMMA AuthorityKeeps == AuthorityInv /\ [AuthorityNext]_authorityVars => AuthorityInv'
  <1> SUFFICES ASSUME AuthorityInv, [AuthorityNext]_authorityVars PROVE AuthorityInv'
    OBVIOUS
  <1>1. CASE UNCHANGED authorityVars
    BY <1>1 DEF authorityVars, AuthorityInv, AuthorityShape, AuthoritySigned, AuthorityLock,
               AuthorityBuilt, AuthorityNames
  <1>2. CASE AuthorityNext
    BY <1>2, AuthoritySigns, AuthorityFunds, AuthorityMoves, AuthorityBuilds, AuthoritySends
       DEF AuthorityNext
  <1> QED
    BY <1>1, <1>2

\* BuiltIsAccepted and RefundIsOpen, whichever of the client's derivations runs, whatever the
\* server hands out and the node cannot read: permit2RefundAddress, refundFromFundingTx,
\* bindServerRefund, refundEvmSponsored and the collaborative refund agree on the lock's
\* owner and its payee with the contracts.
THEOREM AuthorityAgrees ==
  AuthoritySpec => [](AuthorityTypeOK /\ BuiltIsAccepted /\ RefundIsOpen)
  BY AuthorityStart, AuthorityKeeps, AuthorityHolds, PTL DEF AuthoritySpec
=============================================================================
