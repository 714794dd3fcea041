---------------------------- MODULE ActionsProofs ----------------------------
(***************************************************************************)
(* What the derivation of actions guarantees for every policy, every clock *)
(* width and every input the tracker can assemble.                         *)
(***************************************************************************)
EXTENDS ActionInputs, TLAPS

\* Two kinds are told apart by their length and their first word.
LEMMA NotSpending ==
    /\ \A on : Wait(on) \notin Spending /\ Wait(on)[1] = "Wait"
    /\ \A o : Complete(o) \notin Spending /\ Complete(o)[1] = "Complete"
  BY DEF Spending, Wait, Complete

WellFormed == input \in ActionInput

LEMMA InputType == Spec => []WellFormed
  <1>1. Init => WellFormed
    BY InputsAssumption DEF Init, ActionInput, WellFormed
  <1>2. WellFormed /\ [Next]_vars => WellFormed'
    <2> SUFFICES ASSUME input \in ActionInput, [Next]_vars
                 PROVE  input' \in ActionInput
      BY DEF WellFormed
    <2>1. Reads \subseteq Observation \union {NoObservation}
      BY InputsAssumption DEF Reads, Observation
    <2>2. ASSUME input \in ActionInput, ReadClient
          PROVE  input' \in ActionInput
      BY <2>1, <2>2 DEF ReadClient, ActionInput
    <2>3. ASSUME input \in ActionInput, ReadServer
          PROVE  input' \in ActionInput
      BY <2>1, <2>3 DEF ReadServer, ActionInput
    <2>4. ASSUME input \in ActionInput, ReadJournal
          PROVE  input' \in ActionInput
      <3>1. PICK flag \in {"fundingSubmitted", "claimSubmitted", "fundingUncertain", "submissionUncertain"} :
                input' = [input EXCEPT ![flag] = TRUE]
        BY <2>4 DEF ReadJournal, JournalFlags
      <3>2. CASE flag = "fundingSubmitted"
        BY <2>4, <3>1, <3>2 DEF ActionInput
      <3>3. CASE flag = "claimSubmitted"
        BY <2>4, <3>1, <3>3 DEF ActionInput
      <3>4. CASE flag = "fundingUncertain"
        BY <2>4, <3>1, <3>4 DEF ActionInput
      <3>5. CASE flag = "submissionUncertain"
        BY <2>4, <3>1, <3>5 DEF ActionInput
      <3> QED
        BY <3>1, <3>2, <3>3, <3>4, <3>5
    <2>5. CASE UNCHANGED vars
      BY <2>5 DEF vars
    <2> QED
      BY <2>2, <2>3, <2>4, <2>5 DEF Next
  <1> QED
    BY <1>1, <1>2, PTL DEF Spec

-----------------------------------------------------------------------------
(* The server's word. *)

LEMMA RefundsIgnoreStatus ==
    ASSUME NEW in \in ActionInput, NEW status \in SwapStatus, NEW waiting
    PROVE  Refunds([in EXCEPT !.serverStatus = status], waiting) = Refunds(in, waiting)
  BY DEF Refunds, ActionInput

LEMMA UnfundedIgnoresStatus ==
    ASSUME NEW in \in ActionInput, NEW status \in SwapStatus
    PROVE  \/ Unfunded([in EXCEPT !.serverStatus = status]) = Unfunded(in)
           \/ Unfunded([in EXCEPT !.serverStatus = status]) \notin Spending /\ Unfunded(in) \notin Spending
  <1> DEFINE other == [in EXCEPT !.serverStatus = status]
  <1>1. /\ other.client = in.client /\ other.clientSeen = in.clientSeen
        /\ other.server = in.server /\ other.serverSeen = in.serverSeen
        /\ other.fundingUncertain = in.fundingUncertain /\ other.fundingSubmitted = in.fundingSubmitted
        /\ other.bridge = in.bridge
    BY DEF ActionInput
  <1> SUFFICES Unfunded(other) = Unfunded(in) \/ (Unfunded(other) \notin Spending /\ Unfunded(in) \notin Spending)
    OBVIOUS
  <1> HIDE DEF other
  <1>2. CASE in.fundingUncertain \/ in.client # NoLeg
    BY <1>1, <1>2 DEF Unfunded, ToFund
  <1>3. CASE ~in.fundingUncertain /\ in.client = NoLeg
    <2>1. Unfunded(in) = UnpaidInvoice(in) /\ Unfunded(other) = UnpaidInvoice(other)
      BY <1>1, <1>3 DEF Unfunded, ToFund
    <2>2. UnpaidInvoice(in) \notin Spending /\ UnpaidInvoice(other) \notin Spending
      BY NotSpending DEF UnpaidInvoice
    <2> QED
      BY <2>1, <2>2
  <1> QED
    BY <1>2, <1>3

LEMMA ClaimableIgnoresStatus ==
    ASSUME NEW in \in ActionInput, NEW status \in SwapStatus
    PROVE  \/ Claimable([in EXCEPT !.serverStatus = status]) = Claimable(in)
           \/ Claimable([in EXCEPT !.serverStatus = status]) \notin Spending /\ Claimable(in) \notin Spending
  <1> DEFINE other == [in EXCEPT !.serverStatus = status]
  <1>1. /\ other.client = in.client /\ other.clientSeen = in.clientSeen
        /\ other.server = in.server /\ other.serverSeen = in.serverSeen
        /\ other.claimSubmitted = in.claimSubmitted
    BY DEF ActionInput
  <1>2. \A waiting : Refunds(other, waiting) = Refunds(in, waiting)
    BY RefundsIgnoreStatus
  <1> SUFFICES Claimable(other) = Claimable(in) \/ (Claimable(other) \notin Spending /\ Claimable(in) \notin Spending)
    OBVIOUS
  <1> HIDE DEF other
  <1> DEFINE Open == \/ in.claimSubmitted \/ in.server = NoLeg \/ ~HasPoint(in.server, in.serverSeen)
                     \/ BeforeClaimMargin(in.server.timelock, in.serverSeen.point) \/ in.client # NoLeg
  <1>3. CASE Open
    BY <1>1, <1>2, <1>3 DEF Claimable
  <1>4. CASE ~Open
    <2>1. Claimable(in) \in {Complete("Refunded"), Wait("LightningResolution")}
      BY <1>4 DEF Claimable
    <2>2. Claimable(other) \in {Complete("Refunded"), Wait("LightningResolution")}
      BY <1>1, <1>4 DEF Claimable
    <2> QED
      BY <2>1, <2>2, NotSpending
  <1> QED
    BY <1>3, <1>4

LEMMA RecommendedIgnoresStatus ==
    ASSUME NEW in \in ActionInput, NEW status \in SwapStatus
    PROVE  \/ Recommended([in EXCEPT !.serverStatus = status]) = Recommended(in)
           \/ Recommended([in EXCEPT !.serverStatus = status]) \notin Spending /\ Recommended(in) \notin Spending
  <1> DEFINE other == [in EXCEPT !.serverStatus = status]
  <1>1. StatusOf(other) = StatusOf(in)
    BY DEF StatusOf, ActionInput
  <1>2. Redeemed(other) = Redeemed(in)
    BY <1>1 DEF Redeemed, ActionInput
  <1>3. \A waiting : Refunds(other, waiting) = Refunds(in, waiting)
    BY RefundsIgnoreStatus
  <1>4. Unfunded(other) = Unfunded(in) \/ (Unfunded(other) \notin Spending /\ Unfunded(in) \notin Spending)
    BY UnfundedIgnoresStatus
  <1>5. Claimable(other) = Claimable(in) \/ (Claimable(other) \notin Spending /\ Claimable(in) \notin Spending)
    BY ClaimableIgnoresStatus
  <1>6. other.submissionUncertain = in.submissionUncertain
    BY DEF ActionInput
  <1> SUFFICES Recommended(other) = Recommended(in) \/ (Recommended(other) \notin Spending /\ Recommended(in) \notin Spending)
    OBVIOUS
  <1> HIDE DEF other
  <1>7. Wait("SubmissionRecovery") \notin Spending
    BY NotSpending
  <1>8. CASE StatusOf(in) = "Pending"
    BY <1>1, <1>4, <1>6, <1>7, <1>8 DEF Recommended
  <1>9. CASE StatusOf(in) = "ServerFunded"
    BY <1>1, <1>5, <1>6, <1>7, <1>9 DEF Recommended
  <1>10. CASE StatusOf(in) \notin {"Pending", "ServerFunded"}
    <2>1. CASE StatusOf(in) \in {"ClientRedeemed", "ServerRedeemed", "ClientRedeemedAndClientRefunded"}
      BY <1>1, <1>2, <2>1 DEF Recommended
    <2>2. CASE StatusOf(in) \notin {"ClientRedeemed", "ServerRedeemed", "ClientRedeemedAndClientRefunded"}
      <3>1. Refunds(other, "ServerFunding") = Refunds(in, "ServerFunding")
            /\ Refunds(other, "RefundTimelock") = Refunds(in, "RefundTimelock")
        BY <1>3
      <3> QED
        BY <1>1, <3>1, <1>6, <1>10, <2>2 DEF Recommended
    <2> QED
      BY <2>1, <2>2
  <1> QED
    BY <1>8, <1>9, <1>10

\* Whatever the server reports, the payment, claim or refund the client makes is the one
\* its own reading of the chain calls for, for every policy, clock and input.
THEOREM ServerNeverAuthorizes == Spec => []ServerStatusNeverAuthorizes
  <1>1. WellFormed => ServerStatusNeverAuthorizes
    <2>1. SUFFICES ASSUME WellFormed, NEW status \in SwapStatus
                   PROVE  LET other == [input EXCEPT !.serverStatus = status]
                          IN Recommended(input) \in Spending \/ Recommended(other) \in Spending
                                => Recommended(other) = Recommended(input)
      BY DEF ServerStatusNeverAuthorizes
    <2>2. input \in ActionInput
      BY <2>1 DEF WellFormed
    <2> QED
      BY <2>2, RecommendedIgnoresStatus
  <1> QED
    BY <1>1, InputType, PTL

-----------------------------------------------------------------------------
(* Submissions in doubt. *)

LEMMA RefundsKinds ==
    ASSUME NEW in, NEW waiting
    PROVE  Refunds(in, waiting) \in {Wait("Verification"), <<"RefundUnilateral">>, <<"RefundCollaborative">>, Wait(waiting)}
  BY DEF Refunds

LEMMA UnpaidInvoiceKinds ==
    ASSUME NEW in
    PROVE  UnpaidInvoice(in)[1] \in {"Wait", "Complete"} /\ UnpaidInvoice(in) \notin Spending
  BY NotSpending DEF UnpaidInvoice

LEMMA UnfundedKinds ==
    ASSUME NEW in, in.fundingUncertain \/ in.fundingSubmitted
    PROVE  Unfunded(in) \notin Spending
  <1>1. CASE in.fundingUncertain
    BY <1>1, NotSpending DEF Unfunded, ToFund
  <1>2. CASE ~in.fundingUncertain
    BY <1>2, NotSpending, UnpaidInvoiceKinds DEF Unfunded, ToFund
  <1> QED
    BY <1>1, <1>2

LEMMA ClaimableKinds ==
    ASSUME NEW in
    PROVE  /\ Claimable(in) \notin {<<"Fund">>, <<"RecoverCctp">>}
           /\ in.claimSubmitted => Claimable(in) # <<"Claim">>
  <1>1. \A on : Wait(on) \notin {<<"Fund">>, <<"RecoverCctp">>, <<"Claim">>}
    BY DEF Wait
  <1>2. \A o : Complete(o) \notin {<<"Fund">>, <<"RecoverCctp">>, <<"Claim">>}
    BY DEF Complete
  <1>3. \A waiting : Refunds(in, waiting) \notin {<<"Fund">>, <<"RecoverCctp">>}
    BY <1>1, RefundsKinds
  <1>4. CASE in.claimSubmitted
    BY <1>1, <1>4 DEF Claimable
  <1>5. CASE ~in.claimSubmitted
    BY <1>1, <1>2, <1>3, <1>5 DEF Claimable
  <1> QED
    BY <1>4, <1>5

LEMMA RedeemedKinds ==
    ASSUME NEW in
    PROVE  Redeemed(in) \notin Spending \ {<<"RecoverBridge">>}
  BY NotSpending DEF Redeemed

LEMMA InDoubt ==
    ASSUME WellFormed
    PROVE  InDoubtNeverSpends
  <1>1. Redeemed(input) \notin Spending \ {<<"RecoverBridge">>}
    BY RedeemedKinds
  <1>2. /\ \A on : Wait(on) \notin Spending
        /\ \A o : Complete(o) \notin Spending
    BY NotSpending
  <1>3. input.submissionUncertain => Recommended(input) \notin Spending \ {<<"RecoverBridge">>}
    BY <1>1, <1>2 DEF Recommended
  <1>4. {<<"Fund">>, <<"Claim">>, <<"RecoverCctp">>} \subseteq Spending \ {<<"RecoverBridge">>}
    BY DEF Spending
  <1>5. \A waiting : Refunds(input, waiting) \notin {<<"Fund">>, <<"Claim">>, <<"RecoverCctp">>}
    <2>1. \A on : Wait(on) \notin {<<"Fund">>, <<"Claim">>, <<"RecoverCctp">>}
      BY <1>2, <1>4
    <2> QED
      BY <2>1, RefundsKinds
  <1>6. input.claimSubmitted => Recommended(input) # <<"Claim">>
    <2> SUFFICES ASSUME input.claimSubmitted
                 PROVE  Recommended(input) # <<"Claim">>
      OBVIOUS
    <2>1. Claimable(input) # <<"Claim">>
      BY ClaimableKinds
    <2>2. Unfunded(input) # <<"Claim">>
      BY <1>2, <1>4, UnpaidInvoiceKinds DEF Unfunded, ToFund
    <2> QED
      BY <1>1, <1>2, <1>4, <1>5, <2>1, <2>2 DEF Recommended
  <1>7. input.fundingSubmitted \/ input.fundingUncertain => Recommended(input) \notin {<<"Fund">>, <<"RecoverCctp">>}
    <2> SUFFICES ASSUME input.fundingSubmitted \/ input.fundingUncertain
                 PROVE  Recommended(input) \notin {<<"Fund">>, <<"RecoverCctp">>}
      OBVIOUS
    <2>1. Unfunded(input) \notin {<<"Fund">>, <<"RecoverCctp">>}
      BY <1>4, UnfundedKinds
    <2>2. Claimable(input) \notin {<<"Fund">>, <<"RecoverCctp">>}
      BY ClaimableKinds
    <2> QED
      BY <1>1, <1>2, <1>4, <1>5, <2>1, <2>2 DEF Recommended
  <1> QED
    BY <1>3, <1>6, <1>7 DEF InDoubtNeverSpends

\* While a submission may be out, no action that it could duplicate is recommended.
THEOREM NoSpendingInDoubt == Spec => []InDoubtNeverSpends
  BY InDoubt, InputType, PTL

-----------------------------------------------------------------------------
(* Deposits. *)

LEMMA StatusOfDeposit ==
    ASSUME NEW c \in {"Mempool", "Confirmed", "Invalid", "Unknown", "SpentUnknown"}, NEW s, s # "SpentClaim"
    PROVE  DeriveStatus(c, s) \in {"None", "ClientFundingSeen", "ClientFunded", "ClientInvalidFunded",
                                   "ClientFundedServerRefunded", "ServerFunded"}
  <1>1. CASE {c, s} \intersect {"Unknown", "SpentUnknown"} # {}
    BY <1>1 DEF DeriveStatus
  <1>2. CASE {c, s} \intersect {"Unknown", "SpentUnknown"} = {} /\ s = "NoLeg"
    BY <1>2 DEF DeriveStatus, ClientOnlyStatus
  <1>3. CASE {c, s} \intersect {"Unknown", "SpentUnknown"} = {} /\ s # "NoLeg"
    <2>1. DeriveStatus(c, s) = BothLegsStatus(c, s) /\ c \in {"Mempool", "Confirmed", "Invalid"}
      BY <1>3 DEF DeriveStatus
    <2>2. CASE c = "Mempool"
      BY <2>1, <2>2 DEF BothLegsStatus, Unspent
    <2>3. CASE c = "Confirmed"
      BY <2>1, <2>3 DEF BothLegsStatus, Unspent
    <2>4. CASE c = "Invalid"
      BY <2>1, <2>4 DEF BothLegsStatus, Unspent
    <2> QED
      BY <2>1, <2>2, <2>3, <2>4
  <1> QED
    BY <1>1, <1>2, <1>3

LEMMA RefundsNeverComplete ==
    ASSUME NEW in, NEW waiting
    PROVE  Refunds(in, waiting)[1] # "Complete"
  BY NotSpending DEF Refunds

LEMMA ClaimableNeverComplete ==
    ASSUME NEW in, in.client # NoLeg
    PROVE  Claimable(in)[1] # "Complete"
  <1>1. CASE in.claimSubmitted
    BY <1>1, NotSpending DEF Claimable
  <1>2. CASE ~in.claimSubmitted
    BY <1>2, NotSpending, RefundsNeverComplete DEF Claimable
  <1> QED
    BY <1>1, <1>2

LEMMA DepositHeld ==
    ASSUME WellFormed
    PROVE  DepositNeverForgotten
  <1> DEFINE c == LegState(input.client, input.clientSeen)
             s == LegState(input.server, input.serverSeen)
  <1> SUFFICES ASSUME c \in {"Mempool", "Confirmed", "Invalid", "Unknown", "SpentUnknown"}
               PROVE  AtRisk(input) /\ (Recommended(input)[1] = "Complete" => s = "SpentClaim")
    BY DEF DepositNeverForgotten
  <1>1. input.client # NoLeg
    BY DEF LegState
  <1>2. AtRisk(input)
    BY <1>1 DEF AtRisk, LegsAtRisk
  <1>3. ASSUME s # "SpentClaim"
        PROVE  Recommended(input)[1] # "Complete"
    <2>1. StatusOf(input) = DeriveStatus(c, s)
      BY DEF StatusOf
    <2>2. StatusOf(input) \in {"None", "ClientFundingSeen", "ClientFunded", "ClientInvalidFunded",
                               "ClientFundedServerRefunded", "ServerFunded"}
      BY <1>3, <2>1, StatusOfDeposit
    <2>3. /\ Refunds(input, "ServerFunding")[1] # "Complete" /\ Refunds(input, "RefundTimelock")[1] # "Complete"
          /\ Claimable(input)[1] # "Complete"
      BY <1>1, RefundsNeverComplete, ClaimableNeverComplete
    <2>4. \A on : Wait(on)[1] # "Complete"
      BY NotSpending
    <2> QED
      BY <2>2, <2>3, <2>4 DEF Recommended
  <1> QED
    BY <1>2, <1>3

\* A deposit that may still be in its contract keeps its swap at risk and, until the
\* payout was redeemed, incomplete: for every policy, clock and input.
THEOREM DepositRemembered == Spec => []DepositNeverForgotten
  BY DepositHeld, InputType, PTL

-----------------------------------------------------------------------------
(* Clocks. *)

\* What a leg reads as says whether it is there and was read.
LEMMA LegStates ==
    ASSUME WellFormed
    PROVE  /\ LegState(input.client, input.clientSeen) = "NoLeg" <=> input.client = NoLeg
           /\ LegState(input.client, input.clientSeen) = "Absent" => input.clientSeen \in Observation
           /\ HasPoint(input.client, input.clientSeen) =>
                 /\ input.client \in ContractRef /\ input.clientSeen \in Observation
                 /\ input.clientSeen.point \in ChainPoint
           /\ HasPoint(input.server, input.serverSeen) =>
                 /\ input.server \in ContractRef /\ input.serverSeen \in Observation
                 /\ input.serverSeen.point \in ChainPoint
  <1>1. /\ input.client \in ContractRef \union {NoLeg} /\ input.server \in ContractRef \union {NoLeg}
        /\ input.clientSeen \in Observation \union {NoObservation}
        /\ input.serverSeen \in Observation \union {NoObservation}
    BY DEF WellFormed, ActionInput
  <1>2. \A seen \in Observation : seen.state \in HtlcState /\ seen.point \in ChainPoint \union {NoPoint}
    BY DEF Observation
  <1>3. LegState(input.client, input.clientSeen) = "NoLeg" <=> input.client = NoLeg
    BY <1>1, <1>2 DEF LegState, HtlcState
  <1>4. LegState(input.client, input.clientSeen) = "Absent" => input.clientSeen \in Observation
    BY <1>1 DEF LegState
  <1> QED
    BY <1>1, <1>2, <1>3, <1>4 DEF HasPoint

\* A confirmed deposit whose payout leg is no claim's away is refunded or claimed.
LEMMA ExpiredRecovers ==
    ASSUME WellFormed
    PROVE  ExpiredDepositRecoverable
  <1> DEFINE c == LegState(input.client, input.clientSeen)
             s == LegState(input.server, input.serverSeen)
  <1> SUFFICES ASSUME c = "Confirmed", HasPoint(input.client, input.clientSeen),
                      Expired(input.client.timelock, input.clientSeen.point),
                      s \in {"NoLeg", "Absent", "Mempool", "Confirmed", "Invalid", "SpentRefund"},
                      s = "Confirmed" => HasPoint(input.server, input.serverSeen),
                      ~input.submissionUncertain, ~input.claimSubmitted
               PROVE  Recommended(input) \in {<<"RefundUnilateral">>, <<"Claim">>}
    BY DEF ExpiredDepositRecoverable
  <1>1. \A waiting : Refunds(input, waiting) = <<"RefundUnilateral">>
    BY DEF Refunds
  <1>2. Claimable(input) \in {<<"RefundUnilateral">>, <<"Claim">>} \/ s # "Confirmed"
    <2> SUFFICES ASSUME s = "Confirmed"
                 PROVE  Claimable(input) \in {<<"RefundUnilateral">>, <<"Claim">>}
      OBVIOUS
    <2>1. input.client # NoLeg /\ HasPoint(input.server, input.serverSeen)
      BY DEF HasPoint
    <2>2. input.server # NoLeg
      BY <2>1 DEF HasPoint
    <2> QED
      BY <1>1, <2>1, <2>2 DEF Claimable
  <1>3. StatusOf(input) = DeriveStatus("Confirmed", s)
    BY DEF StatusOf
  <1>4. CASE s = "Confirmed"
    <2>1. StatusOf(input) = "ServerFunded"
      BY <1>3, <1>4 DEF DeriveStatus, BothLegsStatus
    <2> QED
      BY <1>2, <1>4, <2>1 DEF Recommended
  <1>5. CASE s = "NoLeg"
    <2>1. StatusOf(input) = "ClientFunded"
      BY <1>3, <1>5 DEF DeriveStatus, ClientOnlyStatus
    <2> QED
      BY <1>1, <2>1 DEF Recommended
  <1>6. CASE s \in {"Absent", "Mempool", "Invalid"}
    <2>1. StatusOf(input) = "ClientFunded"
      BY <1>3, <1>6 DEF DeriveStatus, BothLegsStatus, Unspent
    <2> QED
      BY <1>1, <2>1 DEF Recommended
  <1>7. CASE s = "SpentRefund"
    <2>1. StatusOf(input) = "ClientFundedServerRefunded"
      BY <1>3, <1>7 DEF DeriveStatus, BothLegsStatus, Unspent
    <2> QED
      BY <1>1, <2>1 DEF Recommended
  <1> QED
    BY <1>4, <1>5, <1>6, <1>7

\* Past its timelock, an untouched deposit is refunded, or claimed against, for every policy,
\* clock and input: it is never left to wait.
THEOREM ExpiredIsRecovered == Spec => []ExpiredDepositRecoverable
  BY ExpiredRecovers, InputType, PTL

\* The kinds the derivation tells apart.
LEMMA KindsDiffer ==
    /\ \A on : Wait(on) # <<"Claim">> /\ \A o : Wait(on) # Complete(o)
    /\ \A o : Complete(o) # <<"Claim">>
    /\ \A k \in {"Fund", "Claim", "RefundCollaborative", "RefundUnilateral", "RecoverCctp",
                  "RecoverBridge"} : \A o : <<k>> # Complete(o)
    /\ \A o, p : Complete(o) = Complete(p) => o = p
  BY DEF Wait, Complete

\* A claim is recommended of two confirmed legs, or of a payout alone, before the margin.
LEMMA ClaimsWhen ==
    ASSUME NEW in, HasPoint(in.server, in.serverSeen)
    PROVE  Recommended(in) = <<"Claim">> <=>
             /\ StatusOf(in) = "ServerFunded" /\ ~in.submissionUncertain /\ ~in.claimSubmitted
             /\ BeforeClaimMargin(in.server.timelock, in.serverSeen.point)
  <1>1. \A waiting : Refunds(in, waiting) # <<"Claim">>
    BY RefundsKinds, KindsDiffer
  <1>2. Unfunded(in) # <<"Claim">>
    BY KindsDiffer DEF Unfunded, ToFund, UnpaidInvoice
  <1>3. Redeemed(in) # <<"Claim">>
    BY KindsDiffer DEF Redeemed
  <1>4. in.server # NoLeg
    BY DEF HasPoint
  <1>5. Claimable(in) = <<"Claim">> <=>
            ~in.claimSubmitted /\ BeforeClaimMargin(in.server.timelock, in.serverSeen.point)
    BY <1>1, <1>4, KindsDiffer DEF Claimable
  <1>6. CASE StatusOf(in) = "ServerFunded"
    BY <1>5, <1>6, KindsDiffer DEF Recommended
  <1>7. CASE StatusOf(in) # "ServerFunded"
    BY <1>1, <1>2, <1>3, <1>7, KindsDiffer DEF Recommended
  <1> QED
    BY <1>6, <1>7

\* A swap with a deposit to make is closed as expired when the deposit is not there and the
\* grace is over.
LEMMA ExpiresWhen ==
    ASSUME NEW in, in.client # NoLeg
    PROVE  Recommended(in) = Complete("Expired") <=>
             /\ StatusOf(in) = "Pending" /\ ~in.submissionUncertain /\ ~in.fundingUncertain
             /\ ~in.fundingSubmitted /\ HasPoint(in.client, in.clientSeen)
             /\ Expired(in.client.timelock, in.clientSeen.point)
             /\ PastGrace(in.client.timelock, in.clientSeen.point)
  <1>1. \A waiting : Refunds(in, waiting) # Complete("Expired")
    BY RefundsKinds, KindsDiffer
  <1>2. Claimable(in) # Complete("Expired")
    BY <1>1, KindsDiffer DEF Claimable
  <1>3. Redeemed(in) # Complete("Expired")
    BY KindsDiffer DEF Redeemed
  <1>4. ToFund(in) = Complete("Expired") <=>
            /\ HasPoint(in.client, in.clientSeen)
            /\ Expired(in.client.timelock, in.clientSeen.point)
            /\ PastGrace(in.client.timelock, in.clientSeen.point)
    BY KindsDiffer DEF ToFund
  <1>5. Unfunded(in) = Complete("Expired") <=>
            ~in.fundingUncertain /\ ~in.fundingSubmitted /\ ToFund(in) = Complete("Expired")
    BY KindsDiffer DEF Unfunded
  <1>6. CASE StatusOf(in) = "Pending"
    BY <1>4, <1>5, <1>6, KindsDiffer DEF Recommended
  <1>7. CASE StatusOf(in) # "Pending"
    BY <1>1, <1>2, <1>3, <1>7, KindsDiffer DEF Recommended
  <1> QED
    BY <1>6, <1>7

\* Both clock tests go one way in time, and neither sum wraps.
LEMMA ClocksGoOneWay ==
    ASSUME NEW lock \in Timelock, NEW p \in ChainPoint, NEW q \in ChainPoint,
           p.height <= q.height, p.timestamp <= q.timestamp
    PROVE  /\ BeforeClaimMargin(lock, q) => BeforeClaimMargin(lock, p) /\ ~Expired(lock, q)
           /\ Expired(lock, p) => Expired(lock, q)
           /\ PastGrace(lock, p) => PastGrace(lock, q)
  <1>1. /\ lock.at \in Nat /\ lock.kind \in {"Height", "Timestamp", "MedianTime"}
        /\ p.height \in Nat /\ p.timestamp \in Nat /\ q.height \in Nat /\ q.timestamp \in Nat
        /\ MaxWord \in Nat
        /\ ClaimMarginSeconds \in Nat /\ ClaimMarginBlocks \in Nat
        /\ FundingGraceSeconds \in Nat /\ FundingGraceBlocks \in Nat
    BY PolicyAssumption DEF Timelock, ChainPoint, Word
  <1>2. BeforeClaimMargin(lock, q) => BeforeClaimMargin(lock, p)
    BY <1>1 DEF BeforeClaimMargin, CheckedSumBelow
  <1>3. BeforeClaimMargin(lock, q) => ~Expired(lock, q)
    <2>1. CASE lock.kind = "Height"
      BY <1>1, <2>1 DEF BeforeClaimMargin, CheckedSumBelow, Expired
    <2>2. CASE lock.kind = "Timestamp"
      BY <1>1, <2>2 DEF BeforeClaimMargin, CheckedSumBelow, Expired
    <2>3. CASE lock.kind = "MedianTime"
      BY <1>1, <2>3 DEF BeforeClaimMargin, CheckedSumBelow, Expired
    <2> QED
      BY <1>1, <2>1, <2>2, <2>3
  <1>4. Expired(lock, p) => Expired(lock, q)
    <2>1. CASE lock.kind = "Height"
      BY <1>1, <2>1 DEF Expired
    <2>2. CASE lock.kind = "Timestamp"
      BY <1>1, <2>2 DEF Expired
    <2>3. CASE lock.kind = "MedianTime"
      BY <1>1, <2>3 DEF Expired
    <2> QED
      BY <1>1, <2>1, <2>2, <2>3
  <1>5. PastGrace(lock, p) => PastGrace(lock, q)
    BY <1>1 DEF PastGrace, SaturatingSum
  <1> QED
    BY <1>2, <1>3, <1>4, <1>5

\* A claim that is open was open earlier, before the server may refund.
LEMMA ClaimWindow ==
    ASSUME WellFormed, HasPoint(input.server, input.serverSeen), Recommended(input) = <<"Claim">>
    PROVE  /\ ~Expired(input.server.timelock, input.serverSeen.point)
           /\ \A h, t \in Word :
                 LET earlier == [input EXCEPT !.serverSeen.point = [height |-> h, timestamp |-> t]]
                 IN h <= input.serverSeen.point.height /\ t <= input.serverSeen.point.timestamp
                       => Recommended(earlier) = <<"Claim">>
  <1>1. /\ input.server \in ContractRef /\ input.serverSeen \in Observation
        /\ input.serverSeen.point \in ChainPoint /\ input \in ActionInput
    BY LegStates DEF WellFormed
  <1>2. input.server.timelock \in Timelock
    BY <1>1 DEF ContractRef
  <1>3. /\ StatusOf(input) = "ServerFunded" /\ ~input.submissionUncertain /\ ~input.claimSubmitted
        /\ BeforeClaimMargin(input.server.timelock, input.serverSeen.point)
    BY ClaimsWhen
  <1>4. ~Expired(input.server.timelock, input.serverSeen.point)
    <2>1. input.serverSeen.point.height \in Nat /\ input.serverSeen.point.timestamp \in Nat
      BY <1>1, PolicyAssumption DEF ChainPoint, Word
    <2> QED
      BY <1>1, <1>2, <1>3, <2>1, ClocksGoOneWay
  <1>5. ASSUME NEW h \in Word, NEW t \in Word, h <= input.serverSeen.point.height,
               t <= input.serverSeen.point.timestamp
        PROVE  Recommended([input EXCEPT !.serverSeen.point = [height |-> h, timestamp |-> t]])
                   = <<"Claim">>
    <2> DEFINE point == [height |-> h, timestamp |-> t]
               earlier == [input EXCEPT !.serverSeen.point = point]
    <2>1. point \in ChainPoint /\ point.height = h /\ point.timestamp = t
      BY DEF ChainPoint
    <2>2. point # NoPoint
      BY <2>1, InputsAssumption
    <2> HIDE DEF point
    <2>3. /\ earlier.client = input.client /\ earlier.clientSeen = input.clientSeen
          /\ earlier.server = input.server
          /\ earlier.submissionUncertain = input.submissionUncertain
          /\ earlier.claimSubmitted = input.claimSubmitted
      BY <1>1 DEF ActionInput
    <2>4. earlier.serverSeen = [input.serverSeen EXCEPT !.point = point]
      BY <1>1 DEF ActionInput
    <2> HIDE DEF earlier
    <2>5. earlier.serverSeen.state = input.serverSeen.state /\ earlier.serverSeen.point = point
          /\ earlier.serverSeen # NoObservation
      <3>1. earlier.serverSeen \in Observation
        BY <1>1, <2>1, <2>4 DEF Observation
      <3> QED
        BY <1>1, <2>4, <3>1, InputsAssumption DEF Observation
    <2>6. StatusOf(earlier) = StatusOf(input) /\ HasPoint(earlier.server, earlier.serverSeen)
      BY <1>1, <2>2, <2>3, <2>5, InputsAssumption DEF StatusOf, LegState, HasPoint
    <2>7. BeforeClaimMargin(earlier.server.timelock, earlier.serverSeen.point)
      BY <1>1, <1>2, <1>3, <1>5, <2>1, <2>3, <2>5, ClocksGoOneWay
    <2>8. Recommended(earlier) = <<"Claim">>
      BY <1>3, <2>3, <2>6, <2>7, ClaimsWhen
    <2> QED
      BY <2>8 DEF earlier, point
  <1> QED
    BY <1>4, <1>5

\* A swap that was never funded is closed when its grace is over, and stays closed.
LEMMA ExpiredForGood ==
    ASSUME WellFormed, Recommended(input) = Complete("Expired"), input.client # NoLeg
    PROVE  LET lock == input.client.timelock
               point == input.clientSeen.point
               now == IF lock.kind = "Height" THEN point.height ELSE point.timestamp
               grace == IF lock.kind = "Height" THEN FundingGraceBlocks ELSE FundingGraceSeconds
           IN /\ LegState(input.client, input.clientSeen) = "Absent"
              /\ now >= lock.at + grace \/ now = MaxWord
              /\ \A h \in point.height .. MaxWord, t \in point.timestamp .. MaxWord :
                    LET later == [input EXCEPT !.clientSeen.point = [height |-> h, timestamp |-> t]]
                    IN Recommended(later) = Complete("Expired")
  <1>1. /\ StatusOf(input) = "Pending" /\ ~input.submissionUncertain /\ ~input.fundingUncertain
        /\ ~input.fundingSubmitted /\ HasPoint(input.client, input.clientSeen)
        /\ Expired(input.client.timelock, input.clientSeen.point)
        /\ PastGrace(input.client.timelock, input.clientSeen.point)
    BY ExpiresWhen
  <1>2. /\ input.client \in ContractRef /\ input.clientSeen \in Observation
        /\ input.clientSeen.point \in ChainPoint /\ input \in ActionInput
    BY <1>1, LegStates DEF WellFormed
  <1>3. /\ input.client.timelock \in Timelock /\ input.client.timelock.at \in Nat
        /\ input.clientSeen.point.height \in Nat /\ input.clientSeen.point.timestamp \in Nat
        /\ input.clientSeen.point.height <= MaxWord /\ input.clientSeen.point.timestamp <= MaxWord
        /\ MaxWord \in Nat /\ FundingGraceBlocks \in Nat /\ FundingGraceSeconds \in Nat
    BY <1>2, PolicyAssumption DEF ContractRef, Timelock, ChainPoint, Word
  <1> DEFINE c == LegState(input.client, input.clientSeen)
             s == LegState(input.server, input.serverSeen)
  <1>4. c = "Absent"
    <2>1. c # "NoLeg" /\ c \in HtlcState
      BY <1>1, <1>2, LegStates DEF LegState, HasPoint, Observation
    <2>2. DeriveStatus(c, s) = "Pending"
      BY <1>1 DEF StatusOf
    <2> HIDE DEF c, s
    <2>3. CASE s = "NoLeg"
      BY <2>1, <2>2, <2>3 DEF DeriveStatus, ClientOnlyStatus, HtlcState
    <2>4. CASE s # "NoLeg"
      BY <2>1, <2>2, <2>4 DEF DeriveStatus, BothLegsStatus, HtlcState
    <2> QED
      BY <2>3, <2>4
  <1>5. LET lock == input.client.timelock
            point == input.clientSeen.point
            now == IF lock.kind = "Height" THEN point.height ELSE point.timestamp
            grace == IF lock.kind = "Height" THEN FundingGraceBlocks ELSE FundingGraceSeconds
        IN now >= lock.at + grace \/ now = MaxWord
    BY <1>1, <1>3 DEF PastGrace, SaturatingSum
  <1>6. ASSUME NEW h \in input.clientSeen.point.height .. MaxWord,
               NEW t \in input.clientSeen.point.timestamp .. MaxWord
        PROVE  Recommended([input EXCEPT !.clientSeen.point = [height |-> h, timestamp |-> t]])
                   = Complete("Expired")
    <2> DEFINE point == [height |-> h, timestamp |-> t]
               later == [input EXCEPT !.clientSeen.point = point]
    <2>0. h \in Word /\ t \in Word /\ input.clientSeen.point.height <= h
          /\ input.clientSeen.point.timestamp <= t
      BY <1>3 DEF Word
    <2>1. point \in ChainPoint /\ point.height = h /\ point.timestamp = t
      BY <2>0 DEF ChainPoint
    <2>2. point # NoPoint
      BY <2>1, InputsAssumption
    <2> HIDE DEF point
    <2>3. /\ later.client = input.client /\ later.server = input.server
          /\ later.serverSeen = input.serverSeen
          /\ later.submissionUncertain = input.submissionUncertain
          /\ later.fundingUncertain = input.fundingUncertain
          /\ later.fundingSubmitted = input.fundingSubmitted
      BY <1>2 DEF ActionInput
    <2>4. later.clientSeen = [input.clientSeen EXCEPT !.point = point]
      BY <1>2 DEF ActionInput
    <2> HIDE DEF later
    <2>5. later.clientSeen.state = input.clientSeen.state /\ later.clientSeen.point = point
          /\ later.clientSeen # NoObservation
      <3>1. later.clientSeen \in Observation
        BY <1>2, <2>1, <2>4 DEF Observation
      <3> QED
        BY <1>2, <2>4, <3>1, InputsAssumption DEF Observation
    <2>6. StatusOf(later) = StatusOf(input) /\ HasPoint(later.client, later.clientSeen)
      BY <1>2, <2>2, <2>3, <2>5, InputsAssumption DEF StatusOf, LegState, HasPoint
    <2>7. /\ Expired(later.client.timelock, later.clientSeen.point)
          /\ PastGrace(later.client.timelock, later.clientSeen.point)
      BY <1>1, <1>2, <1>3, <2>0, <2>1, <2>3, <2>5, ClocksGoOneWay
    <2>8. Recommended(later) = Complete("Expired")
      BY <1>1, <2>3, <2>6, <2>7, ExpiresWhen
    <2> QED
      BY <2>8 DEF later, point
  <1> QED
    BY <1>4, <1>5, <1>6

\* Time closes the claim and the funding for good, on clocks of any width.
THEOREM ClosedStaysClosed == Spec => []WindowsStayClosed
  <1>1. WellFormed => WindowsStayClosed
    BY ClaimWindow, ExpiredForGood DEF WindowsStayClosed
  <1> QED
    BY <1>1, InputType, PTL
==============================================================================
