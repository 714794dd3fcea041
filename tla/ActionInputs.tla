----------------------------- MODULE ActionInputs -----------------------------
(***************************************************************************)
(* Every input the tracker can hand to the derivation of Actions, reached  *)
(* the way the tracker assembles it: the contracts, the options and the    *)
(* server status are known, then each leg is read and the journal is       *)
(* consulted.  The derivation keeps no state, so every input is assembled  *)
(* once.                                                                   *)
(***************************************************************************)
EXTENDS Actions

CONSTANTS ClientRefs, ServerRefs,  \* the contracts of the swaps considered
          Points,                  \* chain points a reader returns
          Bridges, Statuses        \* bridge states and server statuses considered

ASSUME InputsAssumption ==
    /\ ClientRefs \subseteq ContractRef \union {NoLeg}
    /\ ServerRefs \subseteq ContractRef \union {NoLeg}
    /\ Points \subseteq ChainPoint \union {NoPoint}
    /\ Bridges \subseteq BridgeState
    /\ Statuses \subseteq SwapStatus
    /\ NoLeg \notin ContractRef
    /\ NoObservation \notin Observation
    /\ NoPoint \notin ChainPoint

VARIABLE input

vars == <<input>>

Reads == {NoObservation} \union [state : HtlcState, point : Points]

\* install refuses a record with neither leg.
Init ==
    \E c \in ClientRefs, s \in ServerRefs, collaborative \in BOOLEAN,
       bridge \in Bridges, status \in Statuses :
        /\ c # NoLeg \/ s # NoLeg
        /\ input = [client |-> c, clientSeen |-> NoObservation,
                    server |-> s, serverSeen |-> NoObservation,
                    fundingSubmitted |-> FALSE, claimSubmitted |-> FALSE,
                    fundingUncertain |-> FALSE, submissionUncertain |-> FALSE,
                    collaborativeRefundAvailable |-> collaborative,
                    bridge |-> bridge, serverStatus |-> status]

ReadClient ==
    \E seen \in Reads :
        /\ input.client # NoLeg /\ input.clientSeen = NoObservation
        /\ input' = [input EXCEPT !.clientSeen = seen]

ReadServer ==
    \E seen \in Reads :
        /\ input.server # NoLeg /\ input.serverSeen = NoObservation
        /\ input' = [input EXCEPT !.serverSeen = seen]

JournalFlags == {"fundingSubmitted", "claimSubmitted", "fundingUncertain", "submissionUncertain"}

ReadJournal ==
    \E flag \in JournalFlags :
        /\ \A other \in JournalFlags : ~input[other]
        /\ input' = [input EXCEPT ![flag] = TRUE]

Next == ReadClient \/ ReadServer \/ ReadJournal

Spec == Init /\ [][Next]_vars

-----------------------------------------------------------------------------
\* The kinds that move money.
Spending == {<<"Fund">>, <<"Claim">>, <<"RefundCollaborative">>, <<"RefundUnilateral">>,
             <<"RecoverCctp">>, <<"RecoverBridge">>}

\* The server's word never authorizes, withholds or changes a payment, claim or
\* refund: with any other reported status the spending action is the same one
\* (actions.rs, module comment and derive_actions).
ServerStatusNeverAuthorizes ==
    \A status \in SwapStatus :
        LET other == [input EXCEPT !.serverStatus = status]
        IN Recommended(input) \in Spending \/ Recommended(other) \in Spending
              => Recommended(other) = Recommended(input)

\* A deposit that is still in its contract keeps the swap at risk, and the swap
\* is never reported complete before its payout was redeemed (derive_actions).
DepositNeverForgotten ==
    LegState(input.client, input.clientSeen) \in {"Mempool", "Confirmed", "Invalid", "Unknown", "SpentUnknown"}
        => /\ AtRisk(input)
           /\ Recommended(input)[1] = "Complete"
                => LegState(input.server, input.serverSeen) = "SpentClaim"

\* Once the chain shows the deposit's timelock expired, an untouched deposit is
\* never left to wait: the swap is claimed or refunded, unless a submission is
\* already out or the read of the payout leg is missing (refunds, derive_actions).
ExpiredDepositRecoverable ==
    /\ LegState(input.client, input.clientSeen) = "Confirmed"
    /\ HasPoint(input.client, input.clientSeen)
    /\ Expired(input.client.timelock, input.clientSeen.point)
    /\ LegState(input.server, input.serverSeen) \in {"NoLeg", "Absent", "Mempool", "Confirmed", "Invalid", "SpentRefund"}
    /\ LegState(input.server, input.serverSeen) = "Confirmed" => HasPoint(input.server, input.serverSeen)
    /\ ~input.submissionUncertain
    /\ ~input.claimSubmitted
    => Recommended(input) \in {<<"RefundUnilateral">>, <<"Claim">>}

\* Time closes windows for good, up to the largest clock value: a claim open at some
\* moment was open at every earlier one (before_claim_margin), and a swap never funded is
\* closed as expired only when its timelock and the whole grace after it have passed on
\* its own clock, or the clock can go no further, and no later clock reopens it
\* (past_grace): neither sum wraps.
WindowsStayClosed ==
    /\ HasPoint(input.server, input.serverSeen) /\ Recommended(input) = <<"Claim">> =>
        /\ ~Expired(input.server.timelock, input.serverSeen.point)
        /\ \A h, t \in Word :
              LET earlier == [input EXCEPT !.serverSeen.point = [height |-> h, timestamp |-> t]]
              IN h <= input.serverSeen.point.height /\ t <= input.serverSeen.point.timestamp
                    => Recommended(earlier) = <<"Claim">>
    /\ Recommended(input) = Complete("Expired") /\ input.client # NoLeg =>
        LET lock == input.client.timelock
            point == input.clientSeen.point
            now == IF lock.kind = "Height" THEN point.height ELSE point.timestamp
            grace == IF lock.kind = "Height" THEN FundingGraceBlocks ELSE FundingGraceSeconds
        IN /\ LegState(input.client, input.clientSeen) = "Absent"
           /\ now >= lock.at + grace \/ now = MaxWord
           /\ \A h \in point.height .. MaxWord, t \in point.timestamp .. MaxWord :
                 LET later == [input EXCEPT !.clientSeen.point = [height |-> h, timestamp |-> t]]
                 IN Recommended(later) = Complete("Expired")

\* While a submission may be out, nothing is spent that the submission could
\* duplicate: only recovery of a bridge that follows a confirmed claim is offered.
InDoubtNeverSpends ==
    /\ input.submissionUncertain => Recommended(input) \notin Spending \ {<<"RecoverBridge">>}
    /\ input.claimSubmitted => Recommended(input) # <<"Claim">>
    /\ input.fundingSubmitted \/ input.fundingUncertain
          => Recommended(input) \notin {<<"Fund">>, <<"RecoverCctp">>}
==============================================================================
