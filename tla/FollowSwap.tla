---------------------------- MODULE FollowSwap ----------------------------
(***************************************************************************)
(* How the TypeScript swap client follows one swap to its end               *)
(* (ts-sdk/packages/swap/src): the contract managers read the legs, the     *)
(* SwapTracker (or, trusting the server's status, the HintTracker) derives  *)
(* the next action, and the SwapWorker claims by itself, retries, and       *)
(* surfaces what needs the user.                                            *)
(*                                                                         *)
(* A chain read is sampled at one moment and stored at a later one; reads   *)
(* of several callers overlap.  Time is the passing of the server's refund  *)
(* locktime (1), of the client's (2) and of the grace for a late funding (3).*)
(***************************************************************************)
EXTENDS DeriveActions, Sequences, SequencesExt

CONSTANTS
    Directions,     \* the pairs of ledgers swapped, of those in Ledgers
    Modes,          \* of "chain", "hints": what tracking trusts
    MaxReads,       \* legs being read at a time (bounds the model)
    MaxAttempts,    \* maxAttempts of the worker's retry policy
    MaxWire,        \* status pushes in flight (bounds the model)
    FollowFaults    \* of "rpc", "feed", "reload"

Legs == {"client", "server"}
Ledgers ==
    [evm_to_bitcoin       |-> [client |-> "evm",     server |-> "bitcoin"],
     evm_to_lightning     |-> [client |-> "evm",     server |-> "noleg"],
     bitcoin_to_lightning |-> [client |-> "bitcoin", server |-> "noleg"],
     lightning_to_bitcoin |-> [client |-> "noleg",   server |-> "bitcoin"],
     lightning_to_arkade  |-> [client |-> "noleg",   server |-> "arkade"]]

ASSUME FollowAssumption ==
    /\ Directions \subseteq DOMAIN Ledgers
    /\ Modes \subseteq {"chain", "hints"}
    /\ MaxReads \in Nat \ {0} /\ MaxAttempts \in Nat /\ MaxWire \in Nat
    /\ FollowFaults \subseteq {"rpc", "feed", "reload"}

VARIABLES
    direction, mode,
    chain,      \* each leg's contract as the chain has it
    relayed,    \* a claim of the server's leg was broadcast
    time,
    served,     \* the server's status of the swap
    inFlight,   \* statuses pushed and not delivered
    feed,       \* the status socket is up
    stored,     \* the status in the client's storage; "none" before creation
    client,     \* the managers', the tracker's and the worker's state
    calls       \* the client's reading calls in flight

followVars == <<direction, mode, chain, relayed, time, served, inFlight, feed, stored, client, calls>>

Ledger(leg) == Ledgers[direction][leg]
LegsOf == {leg \in Legs : Ledger(leg) # "noleg"}

Moments(t) == [claimClosed |-> t >= 1, clientUnlocked |-> t >= 2, reapable |-> t >= 3]

\* Statuses under which storage holds nothing more to follow.
SettledStored ==
    {"serverredeemed", "clientrefunded", "clientrefundedserverfunded",
     "clientrefundedserverrefunded", "clientredeemedandclientrefunded", "expired"}
ClaimSubmitted == {"clientredeeming", "clientredeemed", "serverredeemed"}
Spent == {"spent_claim", "spent_refund"}

NoOffer == [offer |-> NothingOffered, seen |-> [leg \in Legs |-> "never"]]
Unseen == [leg \in Legs |-> IF leg \in LegsOf THEN "unseen" ELSE "noleg"]
Stopped ==
    [refs |-> {}, seen |-> Unseen, clocks |-> {}, listening |-> FALSE, tracked |-> FALSE,
     unregistered |-> FALSE, last |-> NoOffer, hint |-> "none", working |-> FALSE,
     subscribed |-> FALSE, executing |-> FALSE, attempts |-> 0, timer |-> FALSE,
     needsUser |-> FALSE, surfaced |-> "nothing", settled |-> FALSE,
     loaded |-> FALSE]

-----------------------------------------------------------------------------
(* The worker's reaction to an action; c is the client's state.            *)

CancelRetry(c) == [c EXCEPT !.attempts = 0, !.timer = FALSE]
SurfaceTo(c, what) == [c EXCEPT !.surfaced = what]

\* One run per swap; the run itself is RunSends, RunSucceeds and RunFails.
AutoExecute(c) == IF c.executing THEN c ELSE [c EXCEPT !.executing = TRUE]

\* Mistake: the attempts are counted after they are compared.
ScheduleRetryOnceMore(c) ==
    IF c.attempts > MaxAttempts THEN SurfaceTo(CancelRetry(c), "claim")
    ELSE [c EXCEPT !.attempts = @ + 1, !.timer = TRUE]

\* Mistake: the last attempt fails without a word.
ScheduleRetrySilently(c) ==
    IF c.attempts = MaxAttempts THEN CancelRetry(c)
    ELSE [c EXCEPT !.attempts = @ + 1, !.timer = TRUE]

ScheduleRetry(c) ==
    IF c.attempts = MaxAttempts THEN SurfaceTo(CancelRetry(c), "claim")
    ELSE [c EXCEPT !.attempts = @ + 1, !.timer = TRUE]

OnActions(c, offer) ==
    CASE ~c.working -> c
      [] c.working /\ offer.recommended = "none" -> CancelRetry([c EXCEPT !.subscribed = FALSE])
      [] c.working /\ offer.recommended = "claim" ->
            LET s == [c EXCEPT !.subscribed = TRUE] IN IF c.needsUser THEN s ELSE AutoExecute(s)
      [] OTHER ->
            LET s == CancelRetry([c EXCEPT !.subscribed = TRUE, !.needsUser = FALSE])
            IN IF Automation(offer) \in {"manual", "confirm"} THEN SurfaceTo(s, offer.recommended) ELSE s

-----------------------------------------------------------------------------
(* The tracker.                                                            *)

\* The EVM chain's clock goes with its last contract.
Release(c, legs) ==
    [c EXCEPT !.refs = @ \ legs, !.seen = [l \in Legs |-> IF l \in legs THEN Unseen[l] ELSE @[l]],
              !.clocks = {l \in @ : l \notin legs \/ Ledger(l) # "evm"}]

Untrack(c) == Release([c EXCEPT !.tracked = FALSE], LegsOf)

\* A submitted claim the chain does not show yet, while the claim window is open.
WithClaimHint(c, derived) ==
    IF derived = "serverfunded" /\ c.hint \in ClaimSubmitted /\ ~Moments(time).claimClosed
    THEN c.hint ELSE derived

Known(c) == \A leg \in LegsOf : c.seen[leg] # "unseen" /\ leg \in c.clocks

Emit(c, status, seen, force) ==
    LET offer == DeriveSwapActions(status, Moments(time), "client" \in LegsOf, "server" \in LegsOf)
        new == [offer |-> offer, seen |-> seen]
        told == OnActions([c EXCEPT !.last = new, !.loaded = FALSE], offer)
    IN IF ~force /\ c.last = new THEN c
       ELSE IF offer.recommended = "none" THEN Untrack(told) ELSE told

\* SwapTracker#recompute.
RecomputeFromChain(c, force) ==
    LET derived == DeriveSwapStatus(c.seen["client"], c.seen["server"]) IN
    IF ~Known(c) \/ derived = "none" THEN c
    ELSE Emit(c, WithClaimHint(c, derived), c.seen, force)

\* HintTracker#recompute.
RecomputeFromHint(c, force) ==
    IF c.hint = "none" THEN c ELSE Emit(c, c.hint, Unseen, force)

Recompute(c, force) ==
    IF mode = "chain" THEN RecomputeFromChain(c, force) ELSE RecomputeFromHint(c, force)
RecomputeAll(c) == IF c.tracked THEN Recompute(c, FALSE) ELSE c

\* A client leg last read as unfunded is the server's hints to report.
IsAtRisk == "client" \notin LegsOf \/ client.seen["client"] # "absent"

-----------------------------------------------------------------------------
(* Calls that read: of the chain in "chain" mode, of the server in "hints". *)

Ask(legs) == [leg \in Legs |-> IF leg \in legs THEN "ask" ELSE "done"]
Call(why, phase, legs, force) ==
    [why |-> why, phase |-> phase, got |-> Ask(legs), force |-> force, status |-> "ask"]
Start(call) ==
    /\ (Len(calls) + 1) * Cardinality(LegsOf) <= MaxReads
    /\ calls' = Append(calls, call)

\* Only a Bitcoin leg is read as it is registered.
Registering(why) == Call(why, "register", {l \in LegsOf : Ledger(l) = "bitcoin"}, FALSE)
Reading(force) ==
    IF mode = "chain" THEN Call("hint", "refresh", LegsOf, force)
    ELSE Call("hint", "fetch", {}, force)

Env == <<direction, mode, chain, relayed, time>>
Server == <<served, inFlight, feed>>

\* HintTracker#admit seeds the status from storage.
Admit(c) ==
    [c EXCEPT !.tracked = TRUE, !.refs = IF mode = "chain" THEN LegsOf ELSE {},
              !.hint = IF mode = "hints" /\ c.hint = "none" THEN stored ELSE c.hint]

\* worker.start: subscribes, and hears of the actions derived so far.
WorkerStarts(c) ==
    LET on == [c EXCEPT !.working = TRUE, !.subscribed = c.tracked]
    IN IF c.last = NoOffer THEN on ELSE OnActions(on, c.last.offer)

\* startTracking; the stored swap is loaded unless its status is settled.
StartTracking ==
    /\ ~client.listening /\ ~client.working /\ ~client.tracked /\ calls = <<>>
    /\ IF stored \in SettledStored \cup {"none"}
       THEN client' = WorkerStarts([client EXCEPT !.listening = TRUE]) /\ UNCHANGED calls
       ELSE IF mode = "chain"
       THEN client' = Admit([client EXCEPT !.loaded = TRUE]) /\ Start(Registering("start"))
       ELSE client' = WorkerStarts(Recompute([Admit(client) EXCEPT !.listening = TRUE], FALSE))
            /\ UNCHANGED calls
    /\ UNCHANGED <<Env, Server, stored>>

\* #trackAfterCreate: the swap is stored, then tracked unless it already was.
TrackAfterCreate ==
    /\ stored = "none"
    /\ stored' = "pending"
    /\ IF ~client.working THEN UNCHANGED <<client, calls>>
       ELSE IF mode = "chain" THEN client' = Admit(client) /\ Start(Registering("track"))
       ELSE LET c == Recompute([Admit(client) EXCEPT !.hint = "pending"], FALSE)
            IN client' = [c EXCEPT !.subscribed = c.tracked] /\ UNCHANGED calls
    /\ UNCHANGED <<Env, Server>>

\* #retryUnregistered; the tick's timer is set when startTracking is over.
RetryUnregistered ==
    /\ client.unregistered /\ client.working /\ mode = "chain"
    /\ IF client.tracked \/ client.last # NoOffer
       THEN client' = [client EXCEPT !.unregistered = FALSE] /\ UNCHANGED calls
       ELSE client' = Admit(client) /\ Start(Registering("again"))
    /\ UNCHANGED <<Env, Server, stored>>

\* The local tick: the clocks alone move what is recommended.
LocalTick ==
    /\ client.working
    /\ client' = RecomputeAll(client) /\ client' # client
    /\ UNCHANGED <<Env, Server, stored, calls>>

\* The tick's chain read of a swap with funds at stake.
RiskTick ==
    /\ client.working /\ client.tracked /\ mode = "chain" /\ IsAtRisk
    /\ \A i \in DOMAIN calls : calls[i].why # "tick"
    /\ Start([Reading(FALSE) EXCEPT !.why = "tick"])
    /\ UNCHANGED <<Env, Server, stored, client>>

\* applyHint with a pushed status.
HearStatus ==
    /\ feed /\ inFlight # <<>> /\ client.working
    /\ inFlight' = Tail(inFlight)
    /\ IF ~client.tracked THEN UNCHANGED <<client, calls>>
       ELSE IF mode = "chain"
       THEN client' = [client EXCEPT !.hint = Head(inFlight)] /\ Start(Reading(FALSE))
       ELSE client' = Recompute([client EXCEPT !.hint = Head(inFlight)], FALSE) /\ UNCHANGED calls
    /\ UNCHANGED <<Env, served, feed, stored>>

\* applyHint without one: after a reconnect, or with fundSwap's receipt.
Reverify == client.tracked /\ Start(Reading(FALSE))

\* Mistake: a retry claims again without deriving the action anew.
RetryRuns ==
    /\ client.timer
    /\ client' = [client EXCEPT !.timer = FALSE, !.executing = client.tracked]
    /\ UNCHANGED <<Env, Server, stored, calls>>

\* A scheduled retry derives the action anew and reports it though unchanged.
RetryFires ==
    /\ client.timer
    /\ IF client.tracked THEN Start(Reading(TRUE)) ELSE UNCHANGED calls
    /\ client' = [client EXCEPT !.timer = FALSE]
    /\ UNCHANGED <<Env, Server, stored>>

\* A Bitcoin address's history changed: the manager reads it again.
PushReconcile ==
    /\ mode = "chain" /\ \E leg \in client.refs : Ledger(leg) = "bitcoin" /\ client.seen[leg] # chain[leg]
    /\ \A i \in DOMAIN calls : calls[i].why # "push"
    /\ Start(Call("push", "pushed", {l \in LegsOf : Ledger(l) = "bitcoin"}, FALSE))
    /\ UNCHANGED <<Env, Server, stored, client>>

-----------------------------------------------------------------------------
(* The steps of a call.                                                    *)

Done1(i, leg, what) == calls' = [calls EXCEPT ![i].got[leg] = what]
ReadsClock(i) == calls[i].phase = "refresh"

\* The contract is read, its clock first; one nobody registered any more is not.
Sample(i, leg) ==
    /\ calls[i].got[leg] = "ask"
    /\ IF leg \in client.refs
       THEN /\ Done1(i, leg, chain[leg])
            /\ client' = IF ReadsClock(i) THEN [client EXCEPT !.clocks = @ \cup {leg}] ELSE client
       ELSE Done1(i, leg, "done") /\ UNCHANGED client
    /\ UNCHANGED <<Env, Server, stored>>

SampleFails(i, leg) ==
    /\ "rpc" \in FollowFaults /\ calls[i].got[leg] = "ask"
    /\ Done1(i, leg, "failed")
    /\ UNCHANGED <<Env, Server, stored, client>>

\* The managers' #set: a spend seen stays seen; a change is an event.
Store(c, leg, seen) ==
    IF leg \notin c.refs \/ c.seen[leg] = seen \/ (c.seen[leg] \in Spent /\ seen \notin Spent) THEN c
    ELSE LET s == [c EXCEPT !.seen[leg] = seen] IN IF c.listening THEN RecomputeAll(s) ELSE s

Land(i, leg) ==
    /\ calls[i].got[leg] \in HtlcObservation
    /\ client' = Store(client, leg, calls[i].got[leg])
    /\ Done1(i, leg, "done")
    /\ UNCHANGED <<Env, Server, stored>>

Over(i) == \A leg \in Legs : calls[i].got[leg] \in {"done", "failed"}
Failed(i) == {leg \in Legs : calls[i].got[leg] = "failed"}
Forget(i) == calls' = RemoveAt(calls, i)

\* The legs registered before the one that failed are released.
RegisterFails(i) ==
    /\ calls[i].phase = "register" /\ Failed(i) # {} /\ Over(i)
    /\ client' = LET c == Release([client EXCEPT !.tracked = FALSE], LegsOf \ Failed(i))
                 IN IF calls[i].why = "start"
                    THEN [c EXCEPT !.unregistered = TRUE, !.listening = TRUE] ELSE c
    /\ IF calls[i].why = "start"
       THEN calls' = [calls EXCEPT ![i] = Call("start", "refresh", {}, FALSE)] ELSE Forget(i)
    /\ UNCHANGED <<Env, Server, stored>>

\* Then every manager the swap touches is refreshed.
Registered(i) ==
    /\ calls[i].phase = "register" /\ Failed(i) = {} /\ Over(i)
    /\ client' = [client EXCEPT !.listening = TRUE]
    /\ calls' = [calls EXCEPT ![i] = Call(calls[i].why, "refresh", LegsOf, FALSE)]
    /\ UNCHANGED <<Env, Server, stored>>

\* track's refresh rejects with its manager's; the EVM manager's never does.
Rejects(i) == \E leg \in Failed(i) : Ledger(leg) # "evm"

Refreshed(i) ==
    /\ calls[i].phase = "refresh" /\ Over(i)
    /\ client' = CASE calls[i].why = "start" -> WorkerStarts(RecomputeAll(client))
                   [] calls[i].why \in {"track", "again"} ->
                        IF Rejects(i) THEN client
                        ELSE LET c == Recompute(client, FALSE) IN
                             IF calls[i].why = "again" THEN [c EXCEPT !.unregistered = FALSE]
                             ELSE [c EXCEPT !.subscribed = @ \/ c.tracked]
                   [] calls[i].why = "hint" -> Recompute(client, calls[i].force)
                   [] calls[i].why = "tick" -> RecomputeAll(client)
    /\ Forget(i)
    /\ UNCHANGED <<Env, Server, stored>>

PushRead(i) ==
    /\ calls[i].phase = "pushed" /\ Over(i) /\ Forget(i)
    /\ UNCHANGED <<Env, Server, stored, client>>

\* getSwap(updateStorage), applied when it answers if the swap is still followed.
FetchStatus(i) ==
    /\ calls[i].phase = "fetch" /\ calls[i].status = "ask"
    /\ calls' = [calls EXCEPT ![i].status = served]
    /\ stored' = served
    /\ UNCHANGED <<Env, Server, client>>

Fetched(i) ==
    /\ calls[i].phase = "fetch" /\ calls[i].status # "ask"
    /\ client' = IF client.tracked
                 THEN Recompute([client EXCEPT !.hint = calls[i].status], calls[i].force) ELSE client
    /\ Forget(i)
    /\ UNCHANGED <<Env, Server, stored>>

\* A retry that could not re-verify backs off again.
FetchFails(i) ==
    /\ "rpc" \in FollowFaults /\ calls[i].phase = "fetch" /\ calls[i].status = "ask"
    /\ client' = IF calls[i].force THEN ScheduleRetry(client) ELSE client
    /\ Forget(i)
    /\ UNCHANGED <<Env, Server, stored>>

\* #syncSettledStatus, once a session.
SyncSettledStatus ==
    /\ client.working /\ client.last.offer.recommended = "none" /\ ~client.settled
    /\ client' = [client EXCEPT !.settled = TRUE]
    /\ \E answered \in IF "rpc" \in FollowFaults THEN BOOLEAN ELSE {TRUE} :
            stored' = IF answered /\ stored \notin SettledStored THEN served ELSE stored
    /\ UNCHANGED <<Env, Server, calls>>

-----------------------------------------------------------------------------
(* The claim the worker runs.                                              *)

Env1 == <<direction, mode, chain, time>>

\* client.claim(swapId) gets its transaction out.
RunSends ==
    /\ client.executing /\ ~relayed /\ chain["server"] = "confirmed"
    /\ relayed' = TRUE
    /\ UNCHANGED <<Env1, Server, stored, client, calls>>

RunSucceeds ==
    /\ client.executing /\ relayed
    /\ client' = [CancelRetry(client) EXCEPT !.executing = FALSE]
    /\ UNCHANGED <<Env, Server, stored, calls>>

\* Whether or not the transaction got out.
RunFails ==
    /\ client.executing /\ ("rpc" \in FollowFaults \/ chain["server"] # "confirmed")
    /\ client' = [ScheduleRetry(client) EXCEPT !.executing = FALSE]
    /\ UNCHANGED <<Env, Server, stored, calls>>

\* WalletClaimRequiredError: only the user's wallet can sign.
RunNeedsWallet ==
    /\ client.executing /\ ~relayed
    /\ client' = [SurfaceTo(CancelRetry(client), "claim") EXCEPT !.needsUser = TRUE, !.executing = FALSE]
    /\ UNCHANGED <<Env, Server, stored, calls>>

-----------------------------------------------------------------------------
(* The chains, the server, the user and the network.                       *)

Client == <<client, calls>>

UserFunds ==
    /\ stored # "none" /\ "client" \in LegsOf /\ chain["client"] = "absent" /\ time < 2
    /\ \E as \in {"mempool", "confirmed", "invalid"} :
            /\ as # "mempool" \/ Ledger("client") # "evm"
            /\ chain' = [chain EXCEPT !["client"] = as]
    /\ UNCHANGED <<direction, mode, relayed, time, Server, stored, client>>
    /\ \/ UNCHANGED calls
       \/ mode = "chain" /\ Reverify     \* #reverifyAfterFunding

ServerFunds ==
    /\ stored # "none" /\ "server" \in LegsOf /\ chain["server"] = "absent" /\ time = 0
    /\ "client" \in LegsOf => chain["client"] = "confirmed"
    /\ chain' = [chain EXCEPT !["server"] = "confirmed"]
    /\ UNCHANGED <<direction, mode, relayed, time, Server, stored, Client>>

ServerRefunds ==
    /\ chain["server"] = "confirmed" /\ time >= 1
    /\ chain' = [chain EXCEPT !["server"] = "spent_refund"]
    /\ UNCHANGED <<direction, mode, relayed, time, Server, stored, Client>>

ClaimLands ==
    /\ relayed /\ chain["server"] = "confirmed"
    /\ chain' = [chain EXCEPT !["server"] = "spent_claim"]
    /\ UNCHANGED <<direction, mode, relayed, time, Server, stored, Client>>

\* With the preimage the claim revealed, or the Lightning payment did.
ServerSweeps ==
    /\ chain["client"] = "confirmed" /\ chain["server"] \in {"noleg", "spent_claim"}
    /\ chain' = [chain EXCEPT !["client"] = "spent_claim"]
    /\ UNCHANGED <<direction, mode, relayed, time, Server, stored, Client>>

UserRefunds ==
    /\ chain["client"] \in {"confirmed", "invalid"} /\ time >= 2
    /\ client.surfaced = "refund_unilateral"
    /\ chain' = [chain EXCEPT !["client"] = "spent_refund"]
    /\ UNCHANGED <<direction, mode, relayed, time, Server, stored, Client>>

TimePasses ==
    /\ time < 3 /\ time' = time + 1
    /\ UNCHANGED <<direction, mode, chain, relayed, Server, stored, Client>>

\* What an honest server makes of the chain.
ServerStatus ==
    LET status == DeriveSwapStatus(chain["client"], chain["server"]) IN
    IF status = "pending" /\ time >= 2 THEN "expired"
    ELSE IF status = "serverfunded" /\ relayed THEN "clientredeeming" ELSE status

ServerSees ==
    /\ stored # "none" /\ ServerStatus \notin {served, "none"}
    /\ served' = ServerStatus
    /\ inFlight' = IF feed /\ client.subscribed /\ Len(inFlight) < MaxWire THEN Append(inFlight, served') ELSE inFlight
    /\ feed /\ client.subscribed => Len(inFlight) < MaxWire
    /\ UNCHANGED <<Env, feed, stored, Client>>

\* What was pushed and not delivered is lost with the socket.
FeedDrops ==
    /\ "feed" \in FollowFaults /\ feed
    /\ feed' = FALSE /\ inFlight' = <<>>
    /\ UNCHANGED <<Env, served, stored, Client>>

\* #reverifyAllTracked, and the server's snapshot for the ids subscribed.
FeedReturns ==
    /\ ~feed /\ client.working
    /\ feed' = TRUE
    /\ inFlight' = IF client.subscribed /\ MaxWire > 0 THEN <<served>> ELSE <<>>
    /\ IF client.tracked THEN Reverify ELSE UNCHANGED calls
    /\ UNCHANGED <<Env, served, stored, client>>

\* The application ends anywhere and starts again.
Reload ==
    /\ "reload" \in FollowFaults /\ client # Stopped
    /\ client' = Stopped /\ calls' = <<>> /\ inFlight' = <<>>
    /\ UNCHANGED <<Env, served, feed, stored>>

-----------------------------------------------------------------------------
FollowInit ==
    /\ direction \in Directions /\ mode \in Modes
    /\ chain = [leg \in Legs |-> IF leg \in LegsOf THEN "absent" ELSE "noleg"]
    /\ relayed = FALSE /\ time = 0
    /\ served = "pending" /\ inFlight = <<>> /\ feed = TRUE
    /\ stored = "none"
    /\ client = Stopped /\ calls = <<>>

CallSteps(i) ==
    \/ \E leg \in Legs : Sample(i, leg) \/ SampleFails(i, leg) \/ Land(i, leg)
    \/ RegisterFails(i) \/ Registered(i) \/ Refreshed(i) \/ PushRead(i)
    \/ FetchStatus(i) \/ Fetched(i) \/ FetchFails(i)

FollowNext ==
    \/ StartTracking \/ TrackAfterCreate \/ RetryUnregistered \/ LocalTick \/ RiskTick
    \/ HearStatus \/ RetryFires \/ PushReconcile \/ SyncSettledStatus
    \/ \E i \in DOMAIN calls : CallSteps(i)
    \/ RunSends \/ RunSucceeds \/ RunFails \/ RunNeedsWallet
    \/ UserFunds \/ ServerFunds \/ ServerRefunds \/ ClaimLands \/ ServerSweeps \/ UserRefunds
    \/ TimePasses \/ ServerSees \/ FeedDrops \/ FeedReturns \/ Reload

FollowSpec == FollowInit /\ [][FollowNext]_followVars

\* The step of a call that some answer or the event loop takes.
Proceeds(i) ==
    i \in DOMAIN calls /\ (\/ Registered(i) \/ Refreshed(i) \/ RegisterFails(i) \/ PushRead(i)
                           \/ FetchStatus(i) \/ Fetched(i) \/ \E leg \in Legs : Land(i, leg))
Answered(i, leg) == i \in DOMAIN calls /\ Sample(i, leg)

\* The timers fire, a call that is answered goes on, a read tried again and again is
\* answered, and a claim run returns.
FollowFairness ==
    /\ WF_followVars(StartTracking) /\ WF_followVars(LocalTick)
    /\ SF_followVars(RiskTick) /\ SF_followVars(RetryUnregistered) /\ SF_followVars(RetryFires)
    /\ WF_followVars(RunSucceeds \/ RunFails \/ RunNeedsWallet)
    /\ \A i \in 1..MaxReads : WF_followVars(Proceeds(i))
    /\ \A i \in 1..MaxReads : \A leg \in Legs : SF_followVars(Answered(i, leg))

\* A session nobody ends, with its feed up: after a drop, a status fetched before a newer
\* one was pushed may be applied after it, and a claim waits until the feed tells it again.
Uninterrupted == FollowNext /\ feed' = feed /\ (client.working => client'.working)

FollowFairSpec == FollowInit /\ [][Uninterrupted]_followVars /\ FollowFairness

-----------------------------------------------------------------------------
(* Properties.                                                             *)

\* Every variable has its type.
FollowTypeOK ==
    /\ direction \in Directions /\ mode \in Modes /\ relayed \in BOOLEAN /\ time \in 0..3
    /\ chain \in [Legs -> HtlcObservation \cup {"noleg"}]
    /\ served \in SwapStatus /\ stored \in SwapStatus /\ feed \in BOOLEAN /\ Len(inFlight) <= MaxWire
    /\ client.refs \subseteq LegsOf /\ client.clocks \subseteq LegsOf
    /\ client.seen \in [Legs -> HtlcObservation \cup {"unseen", "noleg"}]
    /\ client.hint \in SwapStatus /\ client.last.offer \in Offers
    /\ client.attempts \in 0..MaxAttempts
    /\ Len(calls) <= MaxReads

\* The preimage is never revealed by the worker once the server can refund: a run that
\* may reveal it starts only while the server's refund locktime has not passed, a retried
\* one too (actions/derive.ts, hints/swap-worker.ts #retry).  An action older than its
\* window stands in two cases: reads that contradict each other keep it, and then the
\* preimage is out already; a swap whose registration failed at the start keeps what a
\* call overtaking it derived, and the worker's start hears that.
ClaimsOnlyInWindow ==
    [][client'.executing /\ ~client.executing =>
          time = 0 \/ relayed \/ (client.unregistered /\ ~client.tracked)]_followVars

\* A swap is given up as completed or refunded only when the chain says so: the
\* user's deposit has come back, or the leg it was swapped for was claimed, or there
\* was no deposit (tracker/swap-tracker.ts #recompute, #untrack).
NoneMeansSettled ==
    mode = "chain" /\ client.last.offer.recommended = "none" =>
        CASE client.last.offer.as = "completed" ->
                chain["server"] = "spent_claim" \/ chain["client"] = "spent_claim"
          [] client.last.offer.as = "refunded" ->
                "client" \notin LegsOf \/ chain["client"] = "spent_refund"
          [] OTHER -> TRUE

\* A swap the session started with is watched, or waits on the retry list, until an
\* action has been derived for it (tracker/swap-tracker.ts #unregistered).
StartupSwapIsKept ==
    client.loaded /\ client.listening =>
        client.tracked \/ client.unregistered

\* A deposit the tracker has seen on chain is not forgotten, whatever the server
\* says: it is spent, or its refund is put to the user before the session ends
\* (tracker/swap-tracker.ts #tick, #isAtRisk).
RefundSurfaces ==
    (/\ mode = "chain" /\ client.working /\ client.tracked /\ time >= 2
     /\ client.seen["client"] \in {"confirmed", "invalid"}
     /\ \A i \in DOMAIN calls : calls[i].phase # "register")
        ~> (client.surfaced = "refund_unilateral" \/ chain["client"] \in Spent \/ ~client.working)

\* A claim the worker took on ends while its window is open and the session lasts: it
\* is broadcast or the user is told (hints/swap-worker.ts #retry, #scheduleRetry).
ClaimIsHandled ==
    (client.executing \/ client.timer)
        ~> (relayed \/ client.surfaced = "claim" \/ time >= 1 \/ ~client.working)
=============================================================================
