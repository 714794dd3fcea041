--------------------------- MODULE DeriveActions ---------------------------
(***************************************************************************)
(* From what the TypeScript swap client knows of a swap to the next action  *)
(* it recommends (ts-sdk/packages/swap/src/actions): deriveSwapStatus maps  *)
(* the two legs' observations to a status, deriveSwapActions a status and   *)
(* the clocks to an action.                                                 *)
(*                                                                         *)
(* A leg the swap does not have is "noleg".  The clocks are compared with   *)
(* the two refund locktimes only, so a moment is three flags.               *)
(***************************************************************************)
EXTENDS Naturals, FiniteSets

HtlcObservation == {"absent", "mempool", "confirmed", "invalid", "spent_claim", "spent_refund"}

ClientOnly == {"clientrefunded", "clientfunded", "clientinvalidfunded", "clientfundingseen", "pending"}
SwapStatus == ClientOnly \cup
    {"serverfunded", "clientredeeming", "clientredeemed", "serverredeemed", "expired",
     "clientrefundedserverrefunded", "clientrefundedserverfunded",
     "clientredeemedandclientrefunded", "clientfundedserverrefunded", "serverwontfund",
     "clientfundedtoolate", "none"}

\* Contradictory observations have no status: "none".
ReceiveOnLightningStatus(client) ==
    CASE client = "spent_claim"  -> "serverredeemed"
      [] client = "spent_refund" -> "clientrefunded"
      [] client = "invalid"      -> "clientinvalidfunded"
      [] client = "confirmed"    -> "clientfunded"
      [] client = "mempool"      -> "clientfundingseen"
      [] client = "absent"       -> "pending"

PayOnLightningStatus(server) ==
    CASE server = "spent_claim"  -> "clientredeemed"
      [] server = "confirmed"    -> "serverfunded"
      [] server = "spent_refund" -> "clientrefunded"
      [] OTHER                   -> "pending"

DeriveSwapStatus(client, server) ==
    CASE server = "noleg" -> ReceiveOnLightningStatus(client)
      [] client = "noleg" -> PayOnLightningStatus(server)
      [] client = "spent_claim" /\ server = "spent_claim" -> "serverredeemed"
      [] client = "spent_refund" /\ server = "spent_claim" -> "clientredeemedandclientrefunded"
      [] client = "spent_refund" /\ server = "spent_refund" -> "clientrefundedserverrefunded"
      [] client = "spent_refund" /\ server = "confirmed" -> "clientrefundedserverfunded"
      [] client = "spent_refund" /\ server \in {"absent", "mempool"} -> "clientrefunded"
      [] client = "confirmed" /\ server = "spent_claim" -> "clientredeemed"
      [] client = "confirmed" /\ server = "spent_refund" -> "clientfundedserverrefunded"
      [] client = "invalid" -> "clientinvalidfunded"
      [] client = "absent" -> "pending"
      [] client = "mempool" -> "clientfundingseen"
      [] client = "confirmed" /\ server = "confirmed" -> "serverfunded"
      [] client = "confirmed" /\ server \in {"absent", "mempool", "invalid"} -> "clientfunded"
      [] OTHER -> "none"

-----------------------------------------------------------------------------
(* The action.  clientUnlocked, reapable and claimClosed compare the clocks *)
(* with the client's refund locktime, that plus the grace, and the server's.*)

Moment == [clientUnlocked : BOOLEAN, reapable : BOOLEAN, claimClosed : BOOLEAN]
Offers == [recommended : {"fund", "wait", "claim", "refund_unilateral", "none", "nothing"},
           as : {"", "client_payment", "client_funding_confirmation", "server_funding",
                 "refund_timelock", "claim_confirmation", "completed", "refunded", "expired"},
           refund : {"no", "blocked", "open"}]

Offer(id, as, refund) == [recommended |-> id, as |-> as, refund |-> refund]
WaitFor(what) == Offer("wait", what, "no")
Done(outcome) == Offer("none", outcome, "no")
NothingOffered == Offer("nothing", "", "no")

\* The deposit back at its timelock: offered blocked until then.
RefundOr(waitingOn, moment) ==
    IF moment.clientUnlocked THEN Offer("refund_unilateral", "", "open")
    ELSE Offer("wait", waitingOn, "blocked")

PendingActions(moment, clientFunds) ==
    IF ~clientFunds THEN WaitFor("client_payment")
    ELSE IF moment.reapable THEN Done("expired")
    ELSE IF moment.clientUnlocked THEN NothingOffered
    ELSE Offer("fund", "", "no")

ClientFundedActions(moment, clientFunds) ==
    IF ~clientFunds THEN WaitFor("server_funding") ELSE RefundOr("server_funding", moment)

\* Mistake: a claim window missed ends the swap.
ServerFundedGivenUp(moment, clientFunds, serverFunds) ==
    IF ~serverFunds THEN RefundOr("server_funding", moment)
    ELSE IF ~moment.claimClosed THEN Offer("claim", "", "no")
    ELSE Done("refunded")

\* Claiming reveals the preimage: only while the server cannot refund.
ServerFundedActions(moment, clientFunds, serverFunds) ==
    IF ~serverFunds THEN RefundOr("server_funding", moment)
    ELSE IF ~moment.claimClosed THEN Offer("claim", "", "no")
    ELSE IF ~clientFunds THEN Done("refunded")
    ELSE RefundOr("refund_timelock", moment)

FailedActions(moment, clientFunds) ==
    IF ~clientFunds THEN Done("refunded") ELSE RefundOr("refund_timelock", moment)

FailedStatus ==
    {"clientfundedserverrefunded", "serverwontfund", "clientfundedtoolate", "clientinvalidfunded"}
RefundedStatus == {"clientrefunded", "clientrefundedserverrefunded", "clientrefundedserverfunded"}

DeriveSwapActions(status, moment, clientFunds, serverFunds) ==
    CASE status = "pending" -> PendingActions(moment, clientFunds)
      [] status = "clientfundingseen" -> WaitFor("client_funding_confirmation")
      [] status = "clientfunded" -> ClientFundedActions(moment, clientFunds)
      [] status = "serverfunded" -> ServerFundedActions(moment, clientFunds, serverFunds)
      [] status = "clientredeeming" -> WaitFor("claim_confirmation")
      [] status \in {"clientredeemed", "serverredeemed", "clientredeemedandclientrefunded"} ->
            Done("completed")
      [] status = "expired" -> Done("expired")
      [] status \in RefundedStatus -> Done("refunded")
      [] status \in FailedStatus -> FailedActions(moment, clientFunds)

\* Mistake: a refund on one's own is left to the worker, which only claims.
AutomationOfRefunds(offer) == IF offer.recommended = "fund" THEN "manual" ELSE "auto"

\* How the recommended action may be run.
Automation(offer) ==
    CASE offer.recommended = "fund" -> "manual"
      [] offer.recommended = "refund_unilateral" -> "confirm"
      [] OTHER -> "auto"
=============================================================================
