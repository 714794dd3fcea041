----------------------------- MODULE FundingPins -----------------------------
(***************************************************************************)
(* The funding payload the server answers with, checked against the terms   *)
(* the client recorded at creation, signed, and run by the coordinator      *)
(* (ts-pure-sdk/src/evm/funding-pins.ts, evm/coordinator.ts).              *)
(*                                                                         *)
(* The check reads the calls one by one; what they do together, and with    *)
(* the lock created after them, is seen only when the coordinator runs     *)
(* them holding the input.  Amounts are small naturals, addresses names.   *)
(***************************************************************************)
EXTENDS Naturals, Sequences, FiniteSets, SequencesExt

CONSTANTS
    Input,      \* the input agreed at creation
    MaxAmount,  \* the largest amount that is named
    MaxCalls    \* calls in a payload

ASSUME PinsAssumption == Input \in 1..MaxAmount /\ MaxAmount \in Nat /\ MaxCalls \in Nat

VARIABLES
    agreed,     \* EvmFundingTerms: is the lock token named, is it the source token
    pins,       \* FundingPins
    signed,     \* the payload last signed, or NotSigned
    exec        \* the coordinator's execution of it

pinVars == <<agreed, pins, signed, exec>>

Amounts == 0..MaxAmount
Unset == MaxAmount + 1
Routers == {"router", "other"}
LockToken == IF agreed.pegged THEN "source" ELSE "lock"

\* The words of a payload that must be the swap's own; one of them may differ.
BoundWords == {"spender", "permit2", "hash", "claimer", "timelock", "sourceToken",
               "callsHash"}

NotSigned == [calls |-> <<>>, amount |-> 0, lockToken |-> "lock"]
Executing(p) == [at |-> "calls", next |-> 1, held |-> p.amount, out |-> 0, fee |-> 0,
               pulled |-> [r \in Routers |-> 0], allowance |-> [r \in Routers |-> 0]]
Halted == [Executing(NotSigned) EXCEPT !.at = "none"]

-----------------------------------------------------------------------------
(* What the server may answer.                                             *)

TokenCalls ==
    [target : {"source", "lock"}, value : {0}, does : {"transfer", "approve", "burn"},
     to : {"server"} \cup Routers, amount : 1..MaxAmount]
RouterCalls ==
    [target : Routers, value : {0, 1}, does : {"swap"}, to : {"server"}, amount : {0}]
Batches == BoundedSeq(
    {c \in TokenCalls : c.target = "source" /\ (c.does = "burn" => c.to = "server" /\ c.amount = 1)}
    \cup {c \in TokenCalls : c.target = "lock" /\ c.does = "transfer" /\ c.to = "other"
                                /\ c.amount = 1}
    \cup RouterCalls, MaxCalls)
\* A token is `sourceToken` or not; the payload names the lock token itself.
Payloads ==
    [differs : {"none"}, amount : Amounts, quote : {1, Unset}, calls : Batches,
     lockToken : {"source", "lock"}]
    \cup [differs : BoundWords, amount : {Input}, quote : {Unset}, calls : {<<>>},
          lockToken : {LockToken}]

-----------------------------------------------------------------------------
(* checkFundingPayload.                                                    *)

Allowed(target) == pins.allowed = {} \/ target \in pins.allowed

\* Mistake: any call may be the fee.
IsTransfer(p, i) == p.calls[i].does = "transfer"

\* Only the first call may be the relay fee.
IsFee(p, i) == i = 1 /\ p.calls[i].does = "transfer"

\* It goes to the server, within the cap and as quoted.
FeeAllowed(p, i) ==
    /\ p.calls[i].to = "server" /\ p.calls[i].amount <= pins.maxRelayFee
    /\ p.quote \in {Unset, p.calls[i].amount}

\* An approval names a pinned contract, or one a later call targets.
SpenderCalled(p, i) ==
    IF pins.allowed # {} THEN p.calls[i].to \in pins.allowed
    ELSE \E j \in (i + 1)..Len(p.calls) : p.calls[j].target = p.calls[i].to

ApprovalAllowed(p, i) ==
    /\ p.calls[i].does = "approve" /\ p.calls[i].amount <= p.amount
    /\ SpenderCalled(p, i)

CheckCalls(p) ==
    \A i \in DOMAIN p.calls :
        LET call == p.calls[i] IN
        /\ call.value = 0
        /\ IF call.target # "source" THEN call.target # p.lockToken /\ Allowed(call.target)
           ELSE IF IsFee(p, i) THEN FeeAllowed(p, i) ELSE ApprovalAllowed(p, i)

CheckFundingPayload(p) ==
    /\ p.differs = "none"
    /\ agreed.named => p.lockToken = LockToken
    /\ p.amount > 0 /\ p.amount <= pins.maxSourceAmount
    /\ CheckCalls(p)

-----------------------------------------------------------------------------
(* The coordinator: executeAndCreateWithPermit2.                           *)

\* checkedFunding, then the Permit2 signature over what it returned.
SignFunding ==
    /\ exec.at \in {"none", "reverted"} /\ signed = NotSigned
    /\ \E p \in Payloads :
        /\ CheckFundingPayload(p)
        /\ signed' = [calls |-> p.calls, amount |-> p.amount, lockToken |-> p.lockToken]
        /\ exec' = Executing(p)
    /\ UNCHANGED <<agreed, pins>>

ThisCall == signed.calls[exec.next]
AtCall == exec.at = "calls" /\ exec.next <= Len(signed.calls)
Steps(state) == exec' = [state EXCEPT !.next = @ + 1] /\ UNCHANGED <<agreed, pins, signed>>
Reverts == exec' = [Halted EXCEPT !.at = "reverted"] /\ UNCHANGED <<agreed, pins, signed>>

RunTransfer ==
    /\ AtCall /\ ThisCall.target = "source" /\ ThisCall.does = "transfer"
    /\ IF ThisCall.amount > exec.held THEN Reverts
       ELSE Steps([exec EXCEPT !.held = @ - ThisCall.amount,
                              !.fee = @ + (IF ThisCall.to = "server" THEN ThisCall.amount ELSE 0),
                              !.pulled = [r \in Routers |->
                                  @[r] + (IF ThisCall.to = r THEN ThisCall.amount ELSE 0)]])

RunApprove ==
    /\ AtCall /\ ThisCall.target = "source" /\ ThisCall.does = "approve"
    /\ IF ThisCall.to \in Routers
       THEN Steps([exec EXCEPT !.allowance[ThisCall.to] = ThisCall.amount])
       ELSE Steps(exec)

\* A contract that is called takes what it was approved, or less, and may pay the lock token.
RunSwap ==
    /\ AtCall /\ ThisCall.target \in Routers
    /\ \E amount \in 0..MaxAmount, gets \in {0, 1} :
        /\ amount <= exec.allowance[ThisCall.target] /\ amount <= exec.held
        /\ gets <= amount
        /\ Steps([exec EXCEPT !.held = @ - amount, !.out = @ + gets,
                             !.pulled[ThisCall.target] = @ + amount,
                             !.allowance[ThisCall.target] = @ - amount])

RunOther ==
    /\ AtCall /\ (ThisCall.target = "lock" \/ ThisCall.does = "burn")
    /\ Steps(exec) \/ Reverts

\* What the coordinator holds of the lock token goes into the lock; none reverts.
CreateLock ==
    /\ exec.at = "calls" /\ exec.next > Len(signed.calls)
    /\ IF signed.lockToken = "source"
       THEN IF exec.held > 0
            THEN exec' = [exec EXCEPT !.at = "locked", !.out = exec.held, !.held = 0]
            ELSE exec' = [Halted EXCEPT !.at = "reverted"]
       ELSE IF exec.out > 0 THEN exec' = [exec EXCEPT !.at = "locked"]
            ELSE exec' = [Halted EXCEPT !.at = "reverted"]
    /\ UNCHANGED <<agreed, pins, signed>>

\* A reverted funding took nothing, so the next payload may be signed.
SignAgain ==
    /\ exec.at = "reverted" /\ signed # NotSigned
    /\ signed' = NotSigned /\ exec' = Halted
    /\ UNCHANGED <<agreed, pins>>

PinsInit ==
    /\ agreed \in [pegged : BOOLEAN, named : BOOLEAN]
    /\ pins \in [maxSourceAmount : {Input, MaxAmount}, maxRelayFee : {0, 1},
                 allowed : {{}, {"router"}}]
    /\ signed = NotSigned /\ exec = Halted

PinsNext ==
    \/ SignFunding \/ RunTransfer \/ RunApprove \/ RunSwap \/ RunOther
    \/ CreateLock \/ SignAgain

PinsSpec == PinsInit /\ [][PinsNext]_pinVars

-----------------------------------------------------------------------------
PinsTypeOK ==
    /\ agreed \in [pegged : BOOLEAN, named : BOOLEAN]
    /\ pins.maxSourceAmount \in Amounts /\ pins.maxRelayFee \in Amounts
    /\ pins.allowed \subseteq Routers
    /\ signed.amount \in Amounts /\ signed.lockToken \in {"source", "lock"}
    /\ exec.at \in {"none", "calls", "locked", "reverted"} /\ exec.held \in Amounts
    /\ \A r \in Routers : exec.pulled[r] \in Amounts /\ exec.allowance[r] \in Amounts

\* Whatever calls the server put in the batch, what a funding takes of the depositor is
\* within the accepted limit, and all of it is in the lock, still with the coordinator, the
\* relay fee within its cap, or with a contract that is pinned or, without pins, called by
\* the batch; no other contract keeps an allowance (checkFundingPayload,
\* checkCalls).
Taken == exec.held + exec.fee + exec.pulled["router"] + exec.pulled["other"]
           + (IF exec.at = "locked" /\ signed.lockToken = "source" THEN exec.out ELSE 0)
Called == {signed.calls[i].target : i \in DOMAIN signed.calls}
FundingIsBound ==
    exec.at \in {"calls", "locked"} =>
        /\ signed.amount <= pins.maxSourceAmount /\ Taken = signed.amount
        /\ exec.fee <= pins.maxRelayFee
        /\ agreed.named /\ agreed.pegged /\ exec.at = "locked" => signed.lockToken = "source"
        /\ \A r \in Routers :
            exec.pulled[r] > 0 \/ (exec.at = "locked" /\ exec.allowance[r] > 0)
                => IF pins.allowed = {} THEN r \in Called ELSE r \in pins.allowed
=============================================================================
