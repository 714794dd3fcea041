------------------------------- MODULE Actions -------------------------------
(***************************************************************************)
(* The pure derivation of rust-sdk/src/actions.rs: from one observation of *)
(* each HTLC leg, the submission journal, the bridge state and the last    *)
(* server status to the swap's status, its recommended action and whether  *)
(* it is at risk.  Every clock is an input.                                *)
(*                                                                         *)
(* An action kind is a tuple: <<"Claim">>, <<"Wait", "Verification">>,     *)
(* <<"Complete", "Expired">>.  The code attaches a fixed Automation to     *)
(* each kind, so AutomationOf is a function of the kind.                   *)
(***************************************************************************)
EXTENDS Integers

CONSTANTS
    MaxWord,             \* largest value of the clocks' integers (u64::MAX in the code)
    ClaimMarginSeconds,  \* ActionPolicy
    ClaimMarginBlocks,
    FundingGraceSeconds,
    FundingGraceBlocks,
    NoLeg,               \* the swap has no such leg (a Lightning side)
    NoObservation,       \* the manager holds no read of the leg
    NoPoint              \* the read carries no chain point

Word == 0 .. MaxWord

ASSUME PolicyAssumption ==
    /\ MaxWord \in Nat
    /\ {ClaimMarginSeconds, ClaimMarginBlocks, FundingGraceSeconds, FundingGraceBlocks} \subseteq Word

HtlcState == {"Unknown", "Absent", "Mempool", "Confirmed", "Invalid",
              "SpentClaim", "SpentRefund", "SpentUnknown"}

ChainPoint == [height : Word, timestamp : Word]

Timelock == [kind : {"Height", "Timestamp", "MedianTime"}, at : Word]

ContractRef == [rail : {"Bitcoin", "Arkade", "Evm"}, timelock : Timelock]

Observation == [state : HtlcState, point : ChainPoint \union {NoPoint}]

SwapStatus == {"Pending", "ClientFundingSeen", "ClientFunded", "ClientRefunded", "ServerFunded",
               "ClientRedeeming", "ClientRedeemed", "ServerRedeemed", "ClientFundedServerRefunded",
               "ClientRefundedServerFunded", "ClientRefundedServerRefunded", "Expired",
               "ClientInvalidFunded", "ClientFundedTooLate", "ServerWontFund",
               "ClientRedeemedAndClientRefunded"}

BridgeState == {"None", "CctpUnattested", "CctpAttested", "OutboundPending", "OutboundFailed", "Delivered"}

ActionInput == [client : ContractRef \union {NoLeg},
                clientSeen : Observation \union {NoObservation},
                server : ContractRef \union {NoLeg},
                serverSeen : Observation \union {NoObservation},
                fundingSubmitted : BOOLEAN, claimSubmitted : BOOLEAN,
                fundingUncertain : BOOLEAN, submissionUncertain : BOOLEAN,
                collaborativeRefundAvailable : BOOLEAN,
                bridge : BridgeState, serverStatus : SwapStatus]

WaitingOn == {"Verification", "ClientPayment", "FundingConfirmation", "ServerFunding",
              "ClaimConfirmation", "RefundTimelock", "BridgeAttestation", "BridgeDelivery",
              "SubmissionRecovery", "LightningResolution"}

Outcome == {"Completed", "Refunded", "Expired", "Anomalous"}

Wait(on) == <<"Wait", on>>
Complete(outcome) == <<"Complete", outcome>>

ActionKind == {<<"Fund">>, <<"Claim">>, <<"RefundCollaborative">>, <<"RefundUnilateral">>,
               <<"RecoverCctp">>, <<"RecoverBridge">>}
              \union {Wait(on) : on \in WaitingOn} \union {Complete(o) : o \in Outcome}

AutomationOf(kind) ==
    CASE kind[1] \in {"Fund", "RecoverBridge"} -> "Manual"
      [] kind[1] \in {"RefundCollaborative", "RefundUnilateral"} -> "Confirm"
      [] OTHER -> "Automatic"

(***************************************************************************)
(* Clocks.  An unsigned sum that does not fit is refused by checked_add    *)
(* and pinned by saturating_add.                                           *)
(***************************************************************************)

Expired(lock, point) ==
    CASE lock.kind = "Height" -> point.height >= lock.at
      [] lock.kind = "Timestamp" -> point.timestamp >= lock.at
      [] lock.kind = "MedianTime" -> point.timestamp > lock.at

\* Mistake: an unsigned sum that wraps.
WrappingSum(a, b) == (a + b) % (MaxWord + 1)
WrappingSumBelow(a, b, limit) == WrappingSum(a, b) < limit

CheckedSumBelow(a, b, limit) == a + b <= MaxWord /\ a + b < limit

SaturatingSum(a, b) == IF a + b <= MaxWord THEN a + b ELSE MaxWord

BeforeClaimMargin(lock, point) ==
    IF lock.kind = "Height" THEN CheckedSumBelow(point.height, ClaimMarginBlocks, lock.at)
                            ELSE CheckedSumBelow(point.timestamp, ClaimMarginSeconds, lock.at)

PastGrace(lock, point) ==
    IF lock.kind = "Height" THEN point.height >= SaturatingSum(lock.at, FundingGraceBlocks)
                            ELSE point.timestamp >= SaturatingSum(lock.at, FundingGraceSeconds)

(***************************************************************************)
(* Status of the pair of legs; "None" is the code's Option::None.          *)
(***************************************************************************)

\* A leg that exists but was never read counts as Unknown.
LegState(reference, seen) ==
    IF reference = NoLeg THEN "NoLeg" ELSE IF seen = NoObservation THEN "Unknown" ELSE seen.state

Unspent == {"Absent", "Mempool", "Confirmed", "Invalid"}

ClientOnlyStatus(c) ==
    CASE c = "Absent" -> "Pending"
      [] c = "Mempool" -> "ClientFundingSeen"
      [] c = "Confirmed" -> "ClientFunded"
      [] c = "Invalid" -> "ClientInvalidFunded"
      [] c = "SpentClaim" -> "ServerRedeemed"
      [] c = "SpentRefund" -> "ClientRefunded"

ServerOnlyStatus(s) ==
    CASE s = "SpentClaim" -> "ClientRedeemed"
      [] s = "Confirmed" -> "ServerFunded"
      [] s = "SpentRefund" -> "ClientRefunded"
      [] OTHER -> "Pending"

BothLegsStatus(c, s) ==
    CASE c = "SpentClaim" /\ s = "SpentClaim" -> "ServerRedeemed"
      [] c = "SpentRefund" /\ s = "SpentClaim" -> "ClientRedeemedAndClientRefunded"
      [] c = "SpentRefund" /\ s = "SpentRefund" -> "ClientRefundedServerRefunded"
      [] c = "SpentRefund" /\ s = "Confirmed" -> "ClientRefundedServerFunded"
      [] c = "SpentRefund" /\ s \in {"Absent", "Mempool"} -> "ClientRefunded"
      [] c = "Confirmed" /\ s = "SpentClaim" -> "ClientRedeemed"
      [] c = "Confirmed" /\ s = "SpentRefund" -> "ClientFundedServerRefunded"
      [] c = "Invalid" -> "ClientInvalidFunded"
      [] c = "Absent" /\ s \in Unspent -> "Pending"
      [] c = "Mempool" /\ s \in Unspent -> "ClientFundingSeen"
      [] c = "Confirmed" /\ s = "Confirmed" -> "ServerFunded"
      [] c = "Confirmed" /\ s \in Unspent \ {"Confirmed"} -> "ClientFunded"
      [] OTHER -> "None"

DeriveStatus(c, s) ==
    IF {c, s} \intersect {"Unknown", "SpentUnknown"} # {} THEN "None"
    ELSE IF c = "NoLeg" THEN ServerOnlyStatus(s)
    ELSE IF s = "NoLeg" THEN ClientOnlyStatus(c)
    ELSE BothLegsStatus(c, s)

\* Mistake: the server's status where the chain is silent.
StatusOrServers(in) ==
    LET derived == DeriveStatus(LegState(in.client, in.clientSeen), LegState(in.server, in.serverSeen))
    IN IF derived = "None" THEN in.serverStatus ELSE derived

StatusOf(in) == DeriveStatus(LegState(in.client, in.clientSeen), LegState(in.server, in.serverSeen))

(***************************************************************************)
(* The recommended action.                                                 *)
(***************************************************************************)

LightningSourceFailure(status) ==
    CASE status \in {"ClientFundedServerRefunded", "ServerWontFund", "ClientFundedTooLate",
                     "ClientInvalidFunded"} -> "Refunded"
      [] status = "Expired" -> "Expired"
      [] OTHER -> "None"

HasPoint(reference, seen) ==
    reference # NoLeg /\ seen # NoObservation /\ seen.point # NoPoint

\* Mistake: the server's cooperation is preferred to an expired timelock.
RefundsTogetherFirst(in, waiting) ==
    IF in.collaborativeRefundAvailable /\ in.client.rail = "Arkade" THEN <<"RefundCollaborative">>
    ELSE IF ~HasPoint(in.client, in.clientSeen) THEN Wait("Verification")
    ELSE IF Expired(in.client.timelock, in.clientSeen.point) THEN <<"RefundUnilateral">>
    ELSE Wait(waiting)

Refunds(in, waiting) ==
    IF ~HasPoint(in.client, in.clientSeen) THEN Wait("Verification")
    ELSE IF Expired(in.client.timelock, in.clientSeen.point) THEN <<"RefundUnilateral">>
    ELSE IF in.collaborativeRefundAvailable /\ in.client.rail = "Arkade" THEN <<"RefundCollaborative">>
    ELSE Wait(waiting)

\* A Lightning source has no deposit to watch: the server tells whether it failed.
UnpaidInvoice(in) ==
    IF LegState(in.server, in.serverSeen) # "Mempool" /\ LightningSourceFailure(in.serverStatus) # "None"
    THEN Complete(LightningSourceFailure(in.serverStatus))
    ELSE Wait(IF in.serverStatus = "ClientFunded" THEN "ServerFunding" ELSE "ClientPayment")

\* The deposit is still to be made, if it can be made in time.
ToFund(in) ==
    IF ~HasPoint(in.client, in.clientSeen) THEN Wait("Verification")
    ELSE IF Expired(in.client.timelock, in.clientSeen.point) THEN
            IF PastGrace(in.client.timelock, in.clientSeen.point)
            THEN Complete("Expired") ELSE Wait("Verification")
    ELSE CASE in.bridge = "CctpAttested" -> <<"RecoverCctp">>
           [] in.bridge = "CctpUnattested" -> Wait("BridgeAttestation")
           [] OTHER -> <<"Fund">>

\* Mistake: a funding that was submitted may be made again.
UnfundedTwice(in) ==
    IF in.fundingUncertain THEN Wait("SubmissionRecovery")
    ELSE IF in.client = NoLeg THEN UnpaidInvoice(in) ELSE ToFund(in)

Unfunded(in) ==
    IF in.fundingUncertain THEN Wait("SubmissionRecovery")
    ELSE IF in.client = NoLeg THEN UnpaidInvoice(in)
    ELSE IF in.fundingSubmitted THEN Wait("FundingConfirmation") ELSE ToFund(in)

\* Both deposits are in place: claim while the server's timelock leaves room.
Claimable(in) ==
    IF in.claimSubmitted THEN Wait("ClaimConfirmation")
    ELSE IF in.server = NoLeg THEN Refunds(in, "ServerFunding")
    ELSE IF ~HasPoint(in.server, in.serverSeen) THEN Wait("Verification")
    ELSE IF BeforeClaimMargin(in.server.timelock, in.serverSeen.point) THEN <<"Claim">>
    ELSE IF in.client # NoLeg THEN Refunds(in, "RefundTimelock")
    ELSE IF Expired(in.server.timelock, in.serverSeen.point)
            \/ LightningSourceFailure(in.serverStatus) = "Refunded"
         THEN Complete("Refunded") ELSE Wait("LightningResolution")

Redeemed(in) ==
    CASE in.bridge = "OutboundPending" -> Wait("BridgeDelivery")
      [] in.bridge = "OutboundFailed" -> <<"RecoverBridge">>
      [] OTHER -> Complete(IF StatusOf(in) = "ClientRedeemedAndClientRefunded" THEN "Anomalous" ELSE "Completed")

Recommended(in) ==
    LET status == StatusOf(in)
    IN IF status \in {"ClientRedeemed", "ServerRedeemed", "ClientRedeemedAndClientRefunded"} THEN Redeemed(in)
       ELSE IF status \in {"ClientRefunded", "ClientRefundedServerRefunded", "ClientRefundedServerFunded"}
            THEN Complete("Refunded")
       ELSE IF in.submissionUncertain THEN Wait("SubmissionRecovery")
       ELSE CASE status = "Pending" -> Unfunded(in)
              [] status = "ClientFundingSeen" -> Wait("FundingConfirmation")
              [] status = "ClientFunded" -> Refunds(in, "ServerFunding")
              [] status = "ServerFunded" -> Claimable(in)
              [] status \in {"ClientFundedServerRefunded", "ClientInvalidFunded"} -> Refunds(in, "RefundTimelock")
              [] OTHER -> Wait("Verification")

\* Mistake: a leg that could not be read is taken for empty.
LegsSeenAtRisk(in) ==
    \/ LegState(in.client, in.clientSeen) \in {"Mempool", "Confirmed", "Invalid"}
    \/ LegState(in.server, in.serverSeen) = "Confirmed"

LegsAtRisk(in) ==
    \/ LegState(in.client, in.clientSeen) \notin {"NoLeg", "Absent", "SpentClaim", "SpentRefund"}
    \/ LegState(in.server, in.serverSeen) \in {"Confirmed", "Unknown", "SpentUnknown"}

\* A finished Lightning-source swap has no deposit of ours to protect.
AtRisk(in) ==
    \/ LegsAtRisk(in) /\ ~(in.client = NoLeg /\ Recommended(in)[1] = "Complete")
    \/ in.bridge \notin {"None", "Delivered"}
==============================================================================
