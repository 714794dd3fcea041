----------------------------- MODULE SwapTracker -----------------------------
(***************************************************************************)
(* rust-sdk/src/tracker.rs: the worker that watches stored swaps, derives  *)
(* their actions from chain reads and runs claims and CCTP recoveries      *)
(* automatically, with the journal that makes a run survive a crash, and   *)
(* the execution rails it drives: EVM claims and fundings and Bitcoin      *)
(* claims (tracker/auto_claim.rs, evm/claim.rs, evm/funding.rs,            *)
(* bitcoin.rs).                                                            *)
(*                                                                         *)
(* Tasks interleave at every await: the worker's slots run reconcile, the  *)
(* application's operators call the tracker and the client.  A tracked     *)
(* swap is an Entry object behind an Arc; a task that looked an entry up   *)
(* keeps that object even after the swap was untracked and resumed as a    *)
(* new one, so records live in numbered objects.                           *)
(***************************************************************************)
EXTENDS Actions, FiniteSets

CONSTANTS
    Swaps,
    Slots,        \* the worker's concurrent reconciles (TrackerOptions::concurrency)
    Operators,    \* application tasks that call the tracker
    Contracts,    \* [Swaps -> [client, server]], the journalled references
    WatchKeys,    \* [Swaps -> set of contract keys]; two swaps may share one
    Options,      \* TrackingOptions the application uses
    Views,        \* what reading both legs and the stored response can show
    Hints,        \* statuses the application may pass to hint_status
    MaxSwaps, MaxAttempts,
    MaxObjects,   \* bound: Entry objects of one swap alive at a time
    MaxSent,      \* bound: broadcasts of one action of one swap
    Faults,       \* environment faults considered
    Provable,     \* attempt states the application resolves as not submitted
    Calls,        \* the tracker calls the application makes
    NoJournal, NoAttempt, NoStatus, Free

Tasks == Slots \union Operators
Objects == 1 .. MaxObjects
RailLocks == {"evm", "bitcoin"}

Claim == <<"Claim">>
RecoverCctp == <<"RecoverCctp">>
Kinds == {Claim, RecoverCctp}

AttemptState == {"Running", "Submitted", "Retryable", "Uncertain"}
Attempt == [action : Kinds, count : 1 .. MaxAttempts, state : AttemptState]
TrackingOptions == [autoClaim : BOOLEAN, autoCctp : BOOLEAN,
                    collaborativeRefundAvailable : BOOLEAN, bridge : BridgeState]

\* completed stands for completed_ms being set; the clock is in aged.
TrackingRecord == [enabled : BOOLEAN, options : Options, attempt : Attempt \union {NoAttempt},
                   completed : BOOLEAN, status : Hints \union {NoStatus}]

View == [client : Observation \union {NoObservation}, server : Observation \union {NoObservation},
         stored : SwapStatus]

Seen == [view : Views, status : Hints \union {NoStatus}]

Place == {"idle", "lock", "decide", "finish", "enter", "reserve", "send", "note", "confirm",
          "retire", "untrackLock", "retireLock", "sweep",
          "options", "proveLock", "release", "forget", "attestLock"}

\* object 0: the task holds no entry (Inner.entries is 1-based here).
Task == [at : Place, swap : Swaps, object : 0 .. MaxObjects, kind : Kinds, seen : Seen]

ASSUME TrackerAssumption ==
    /\ Slots \intersect Operators = {}
    /\ Free \notin Tasks
    /\ Swaps # {}
    /\ Options \subseteq TrackingOptions /\ Options # {}
    /\ Views \subseteq View /\ Views # {}
    /\ Hints \subseteq SwapStatus
    /\ MaxSwaps \in Nat \ {0} /\ MaxAttempts \in Nat \ {0}
    /\ MaxObjects \in Nat \ {0} /\ MaxSent \in Nat \ {0}
    /\ Faults \subseteq {"crash", "cancel", "storage", "view"}
    /\ Provable \subseteq AttemptState
    /\ Calls \subseteq {"hint", "reconcile", "untrack", "options", "prove", "attest", "byHand"}
    /\ \A s \in Swaps : Contracts[s].server # NoLeg => Contracts[s].server.rail # "Arkade"
    /\ NoAttempt \notin Attempt
    /\ NoJournal \notin TrackingRecord

VARIABLES
    \* durable: the swap store
    journal,       \* metadata.tracking
    meta,          \* the rails' reservations and hashes, per action
    \* the chains, the bundler and the relay
    view,          \* what a reconcile started now would read
    sent,          \* transactions that left the process, per action
    \* the tracker's memory
    installed,     \* Inner.entries: the object of a tracked swap, 0 when untracked
    record,        \* Entry.record
    hinted,        \* Entry.server_status
    watched,       \* contract keys registered with the ContractManager
    pending,       \* coalesced hints
    batch,         \* swaps of the current refresh not yet started
    due,           \* swaps whose retry deadline has passed
    aged,          \* swaps whose completion is older than retire_after
    \* locks
    holder,        \* record mutex of each object
    registration,  \* registration mutex
    execution,     \* Client::evm_execution and bitcoin_execution
    task,          \* where each task is, on which swap and entry, with which read
    sweep          \* what the disable holding registration has to visit and found used

durable == <<journal, meta>>
chain == <<view, sent>>
memory == <<installed, record, hinted, watched>>
queue == <<pending, batch>>
clock == <<due, aged>>
locks == <<holder, registration, execution>>
vars == <<durable, chain, memory, queue, clock, locks, task, sweep>>

Tracked == {s \in Swaps : installed[s] # 0}

IdleTask == [at |-> "idle", swap |-> CHOOSE s \in Swaps : TRUE, object |-> 0, kind |-> Claim,
             seen |-> [view |-> CHOOSE v \in Views : TRUE, status |-> NoStatus]]

NewRecord(options) == [enabled |-> TRUE, options |-> options, attempt |-> NoAttempt,
                       completed |-> FALSE, status |-> NoStatus]

\* What memory holds before an object is first used.
BlankRecord == [NewRecord(CHOOSE options \in Options : TRUE) EXCEPT !.enabled = FALSE]

\* left: the entries still to lock; used: the contract keys of those visited.
NoSweep == [left |-> {}, used |-> {}]

NothingInstalled == [s \in Swaps |-> 0]
BlankRecords == [s \in Swaps |-> [o \in Objects |-> BlankRecord]]
NothingHinted == [s \in Swaps |-> [o \in Objects |-> NoStatus]]
RecordsFree == [s \in Swaps |-> [o \in Objects |-> Free]]
RailsFree == [l \in RailLocks |-> Free]

-----------------------------------------------------------------------------
(* Derivation: the journal's flags and one read of the chain, as derive     *)
(* passes them to derive_actions.                                           *)

InState(attempt, states) == attempt # NoAttempt /\ attempt.state \in states

\* The rail of an action: EVM submissions reserve (evm_claim_started) and then record
\* a hash (evm_claim_txid); a Bitcoin claim journals the id of its transaction before
\* it broadcasts and stays in doubt until the chain shows it.
OnEvm(s, k) == k = RecoverCctp \/ (Contracts[s].server # NoLeg /\ Contracts[s].server.rail = "Evm")
RailLock(s, k) == IF OnEvm(s, k) THEN "evm" ELSE "bitcoin"

DeriveInput(s, rec, read) ==
    LET submitted(k) == InState(rec.attempt, {"Submitted"}) /\ rec.attempt.action = k
        recorded(k) == k \in meta[s].recorded /\ OnEvm(s, k)
        reserved(k) == k \in meta[s].started /\ ~recorded(k)
    IN [client |-> Contracts[s].client, clientSeen |-> read.view.client,
        server |-> Contracts[s].server, serverSeen |-> read.view.server,
        fundingSubmitted |-> recorded(RecoverCctp) \/ submitted(RecoverCctp),
        claimSubmitted |-> recorded(Claim) \/ submitted(Claim),
        fundingUncertain |-> reserved(RecoverCctp),
        submissionUncertain |-> InState(rec.attempt, {"Running", "Uncertain"}) \/ reserved(Claim),
        collaborativeRefundAvailable |-> rec.options.collaborativeRefundAvailable,
        bridge |-> rec.options.bridge,
        serverStatus |-> IF read.status # NoStatus THEN read.status ELSE read.view.stored]

\* The action an executor may run, if the application opted in to it.
Permitted(rec, k) ==
    \/ k = Claim /\ rec.options.autoClaim
    \/ k = RecoverCctp /\ rec.options.autoCctp

\* Mistake: runs are counted without a limit.
NextCountUnlimited(s, attempt, k) ==
    IF attempt = NoAttempt \/ attempt.action # k THEN 1
    ELSE IF attempt.state = "Retryable" /\ s \in due THEN attempt.count + 1 ELSE 0

\* Mistake: the last allowed run is never begun.
NextCountOneShort(s, attempt, k) ==
    IF attempt = NoAttempt \/ attempt.action # k THEN 1
    ELSE IF attempt.state = "Retryable" /\ attempt.count + 1 < MaxAttempts /\ s \in due THEN attempt.count + 1 ELSE 0

\* The count of the run that may begin now; 0 when none may.
NextCount(s, attempt, k) ==
    IF attempt = NoAttempt THEN 1
    ELSE IF attempt.action = k
    THEN IF attempt.state = "Retryable" /\ attempt.count < MaxAttempts /\ s \in due THEN attempt.count + 1 ELSE 0
    ELSE IF attempt.state = "Retryable" \/ (attempt.state = "Submitted" /\ attempt.action = RecoverCctp) THEN 1
    ELSE 0

\* Burned USDC of an expired swap still needs a manual mint, so it is not over.
Terminal(rec, k) ==
    /\ k[1] = "Complete"
    /\ ~(k = Complete("Expired") /\ rec.options.bridge \in {"CctpUnattested", "CctpAttested"})

-----------------------------------------------------------------------------
(* Hints *)

\* insert + notify_one; an untracked swap is ignored.
Wake(s) == pending' = IF s \in Tracked THEN pending \union {s} ELSE pending

Hint(s) ==
    /\ "hint" \in Calls /\ s \in Tracked
    /\ Wake(s)
    /\ UNCHANGED <<durable, chain, memory, batch, clock, locks, task, sweep>>

HintStatus(s) ==
    /\ s \in Tracked
    /\ \E status \in Hints : hinted' = [hinted EXCEPT ![s][installed[s]] = status]
    /\ Wake(s)
    /\ UNCHANGED <<durable, chain, installed, record, watched, batch, clock, locks, task, sweep>>

-----------------------------------------------------------------------------
(* Registration: track, restore, resume.  Everything after the registration *)
(* lock is synchronous.                                                     *)

Idle(t) == task[t].at = "idle"

Fresh(s) == {o \in Objects : o # installed[s] /\ \A t \in Tasks : ~(task[t].swap = s /\ task[t].object = o)}
NewObject(s) == CHOOSE o \in Fresh(s) : TRUE

\* The swaps of S become tracked with the records of recs.
Install(S, recs) ==
    LET with(f, g, blank, s) ==
            IF s \in S
            THEN [o \in Objects |-> IF o = NewObject(s) THEN g ELSE IF o \in Fresh(s) THEN blank ELSE f[s][o]]
            ELSE f[s]
    IN /\ registration = Free
       /\ \A s \in S : s \notin Tracked /\ Fresh(s) # {}
       /\ Cardinality(Tracked \union S) <= MaxSwaps
       /\ watched' = watched \union UNION {WatchKeys[s] : s \in S}
       /\ journal' = [s \in Swaps |-> IF s \in S THEN recs[s] ELSE journal[s]]
       /\ installed' = [s \in Swaps |-> IF s \in S THEN NewObject(s) ELSE installed[s]]
       /\ record' = [s \in Swaps |-> with(record, recs[s], BlankRecord, s)]
       /\ hinted' = [s \in Swaps |-> with(hinted, recs[s].status, NoStatus, s)]
       /\ pending' = pending \union S
       /\ aged' = aged \ {s \in S : ~recs[s].completed}
       /\ UNCHANGED <<meta, chain, batch, due, locks, task, sweep>>

TrackSwap(t, s) ==
    /\ Idle(t)
    /\ journal[s] = NoJournal
    /\ \E options \in Options : Install({s}, [r \in {s} |-> NewRecord(options)])

Restorable == {s \in Swaps \ Tracked : journal[s] # NoJournal /\ journal[s].enabled}

\* A swap that does not fit is reported as a failure and stays in the store.
Restore(t) ==
    /\ Idle(t)
    /\ \E S \in SUBSET Restorable :
          /\ S # {}
          /\ S = Restorable \/ Cardinality(Tracked \union S) = MaxSwaps
          /\ Install(S, journal)

Resume(t, s) ==
    /\ Idle(t)
    /\ journal[s] # NoJournal
    /\ Install({s}, [r \in {s} |-> [journal[s] EXCEPT !.enabled = TRUE, !.completed = FALSE]])

-----------------------------------------------------------------------------
(* Task plumbing *)

LockFree(t) == holder[task[t].swap][task[t].object] = Free
Record(t) == record[task[t].swap][task[t].object]

Goes(t, place) == task' = [task EXCEPT ![t].at = place]

\* A call on a tracked swap keeps the entry it looked up.
Looks(t, s, place) ==
    task' = [task EXCEPT ![t] = [IdleTask EXCEPT !.at = place, !.swap = s, !.object = installed[s]]]

\* The guards a task holds are returned when it ends or is dropped.
Returned(t, lock) == IF lock = t THEN Free ELSE lock

Ends(t) ==
    /\ task' = [task EXCEPT ![t] = IdleTask]
    /\ holder' = [s \in Swaps |-> [o \in Objects |-> Returned(t, holder[s][o])]]
    /\ registration' = Returned(t, registration)
    /\ execution' = [l \in RailLocks |-> Returned(t, execution[l])]
    /\ sweep' = IF registration = t THEN NoSweep ELSE sweep

TakeRecord(t) ==
    /\ LockFree(t)
    /\ holder' = [holder EXCEPT ![task[t].swap][task[t].object] = t]

\* The journal is written first; memory follows only if the write succeeded.
Save(t, rec) ==
    /\ journal' = [journal EXCEPT ![task[t].swap] = rec]
    /\ record' = [record EXCEPT ![task[t].swap][task[t].object] = rec]

-----------------------------------------------------------------------------
(* The worker *)

WorkerIdle == batch = {} /\ \A t \in Slots : Idle(t)

Refresh(S) ==
    /\ WorkerIdle /\ S # {}
    /\ batch' = S
    /\ UNCHANGED <<durable, chain, memory, pending, clock, locks, task, sweep>>

FullTick == Refresh(Tracked)

\* The filter reads the cached actions of each entry; here any part of the swaps.
RiskTick == \E S \in SUBSET Tracked : Refresh(S)

WorkerWake ==
    /\ WorkerIdle /\ pending # {}
    /\ batch' = pending
    /\ pending' = {}
    /\ UNCHANGED <<durable, chain, memory, clock, locks, task, sweep>>

\* reconcile looks the entry up; a swap untracked meanwhile is only an error event.
StartReconcile(t) ==
    /\ Idle(t)
    /\ \E s \in batch :
          /\ batch' = batch \ {s}
          /\ IF s \in Tracked THEN Looks(t, s, "lock") ELSE UNCHANGED task
    /\ UNCHANGED <<durable, chain, memory, pending, clock, locks, sweep>>

-----------------------------------------------------------------------------
(* reconcile *)

CallReconcile(t, s) ==
    /\ "reconcile" \in Calls /\ Idle(t) /\ s \in Tracked
    /\ Looks(t, s, "lock")
    /\ UNCHANGED <<durable, chain, memory, queue, clock, locks, sweep>>

LockRecord(t) ==
    /\ task[t].at = "lock"
    /\ IF Record(t).enabled
       THEN /\ TakeRecord(t)
            /\ LET s == task[t].swap
               IN task' = [task EXCEPT ![t].at = "decide",
                                       ![t].seen = [view |-> view[s], status |-> hinted[s][task[t].object]]]
            /\ UNCHANGED <<registration, execution, sweep>>
       ELSE LockFree(t) /\ Ends(t)
    /\ UNCHANGED <<durable, chain, memory, queue, clock>>

Derived(t) == Recommended(DeriveInput(task[t].swap, Record(t), task[t].seen))

RunsNow(t) ==
    /\ Permitted(Record(t), Derived(t))
    /\ NextCount(task[t].swap, Record(t).attempt, Derived(t)) # 0

\* Mistake: the attempt is noted in memory and written with its outcome.
BeginAttemptInMemory(t) ==
    /\ task[t].at = "decide" /\ RunsNow(t)
    /\ LET run == [action |-> Derived(t), state |-> "Running",
                   count |-> NextCount(task[t].swap, Record(t).attempt, Derived(t))]
       IN record' = [record EXCEPT ![task[t].swap][task[t].object].attempt = run]
    /\ due' = due \ {task[t].swap}
    /\ task' = [task EXCEPT ![t].at = "enter", ![t].kind = Derived(t), ![t].seen.view = IdleTask.seen.view]
    /\ UNCHANGED <<journal, meta, chain, installed, hinted, watched, queue, aged, locks, sweep>>

\* Persist Running, then hand the action to the executor.
BeginAttempt(t) ==
    /\ task[t].at = "decide" /\ RunsNow(t)
    /\ LET run == [action |-> Derived(t), state |-> "Running",
                   count |-> NextCount(task[t].swap, Record(t).attempt, Derived(t))]
       IN Save(t, [Record(t) EXCEPT !.attempt = run])
    /\ due' = due \ {task[t].swap}
    /\ task' = [task EXCEPT ![t].at = "enter", ![t].kind = Derived(t), ![t].seen.view = IdleTask.seen.view]
    /\ UNCHANGED <<meta, chain, installed, hinted, watched, queue, aged, locks, sweep>>

\* Mistake: retirement does not look at the clock again under its locks.
SettledEarlier(rec, s) == rec.enabled /\ rec.completed

Settled(rec, s) == rec.enabled /\ rec.completed /\ s \in aged

\* Mistake: the status that completed the swap is not kept.
ConcludedWithoutStatus(t) ==
    [Record(t) EXCEPT !.completed = Terminal(Record(t), Derived(t))]

Concluded(t) ==
    [Record(t) EXCEPT !.completed = Terminal(Record(t), Derived(t)), !.status = task[t].seen.status]

\* Mistake: every terminal read begins the retirement period anew.
ConcludeAnew(t) ==
    /\ task[t].at = "finish" \/ (task[t].at = "decide" /\ ~RunsNow(t))
    /\ Save(t, Concluded(t))
    /\ aged' = aged \ {task[t].swap}
    /\ holder' = [holder EXCEPT ![task[t].swap][task[t].object] = Free]
    /\ task' = [task EXCEPT ![t] = IdleTask]
    /\ UNCHANGED <<meta, chain, installed, hinted, watched, queue, due, registration, execution, sweep>>

\* Mistake: retirement begins under the record's lock.
ConcludeLocked(t) ==
    /\ task[t].at = "finish" \/ (task[t].at = "decide" /\ ~RunsNow(t))
    /\ Save(t, Concluded(t))
    /\ aged' = IF Concluded(t).completed /\ Record(t).completed THEN aged ELSE aged \ {task[t].swap}
    /\ IF Concluded(t).completed /\ task[t].swap \in aged'
       THEN Goes(t, "retire") /\ UNCHANGED holder
       ELSE /\ task' = [task EXCEPT ![t] = IdleTask]
            /\ holder' = [holder EXCEPT ![task[t].swap][task[t].object] = Free]
    /\ UNCHANGED <<meta, chain, installed, hinted, watched, queue, due, registration, execution, sweep>>

\* With nothing left to run: note completion and the status used, publish, and
\* retire a swap whose completion has lasted.
Conclude(t) ==
    /\ task[t].at = "finish" \/ (task[t].at = "decide" /\ ~RunsNow(t))
    /\ LET s == task[t].swap
           next == Concluded(t)
       IN /\ Save(t, next)
          /\ aged' = IF next.completed /\ Record(t).completed THEN aged ELSE aged \ {s}
          /\ holder' = [holder EXCEPT ![s][task[t].object] = Free]
          /\ task' = [task EXCEPT ![t] = IF next.completed /\ s \in aged'
                                         THEN [IdleTask EXCEPT !.at = "retire", !.swap = s] ELSE IdleTask]
    /\ UNCHANGED <<meta, chain, installed, hinted, watched, queue, due, registration, execution, sweep>>

-----------------------------------------------------------------------------
(* The execution rails.  A task with object 0 is the application's own call. *)

Outstanding(s, k) == k \in meta[s].started \union meta[s].recorded

\* The run's execution guard is gone, the attempt's new state is saved, and the
\* swap is read again; the deadline of a retry is yet to pass.
EndRun(t, state) ==
    LET s == task[t].swap
        o == task[t].object
    IN /\ execution' = [l \in RailLocks |-> Returned(t, execution[l])]
       /\ IF o = 0
          THEN task' = [task EXCEPT ![t] = IdleTask] /\ UNCHANGED <<journal, record>>
          ELSE /\ Save(t, [Record(t) EXCEPT !.attempt.state = state])
               /\ task' = [task EXCEPT ![t].at = "finish", ![t].seen.view = view[s]]
       /\ UNCHANGED <<meta, chain, installed, hinted, watched, queue, clock, holder, registration, sweep>>

\* Mistake: what is already reserved or recorded is not looked up.
EntersAnyway(t, s, k) ==
    /\ execution[RailLock(s, k)] = Free
    /\ execution' = [execution EXCEPT ![RailLock(s, k)] = t]
    /\ UNCHANGED <<durable, chain, memory, queue, clock, holder, registration, sweep>>

\* Under its execution lock an EVM rail refuses what is already reserved or recorded.
\* The Bitcoin one trusts the chain instead.
Enters(t, s, k) ==
    /\ execution[RailLock(s, k)] = Free
    /\ execution' = [execution EXCEPT ![RailLock(s, k)] = t]
    /\ OnEvm(s, k) => ~Outstanding(s, k)
    /\ UNCHANGED <<durable, chain, memory, queue, clock, holder, registration, sweep>>

\* Mistake: the transaction goes out first and is written down with its hash.
EnterRailSending(t) ==
    /\ task[t].at = "enter"
    /\ Enters(t, task[t].swap, task[t].kind)
    /\ Goes(t, "send")

EnterRail(t) ==
    /\ task[t].at = "enter"
    /\ Enters(t, task[t].swap, task[t].kind)
    /\ Goes(t, "reserve")

\* A Bitcoin claim of ours that the address's history shows is answered, not repeated.
FindOwnSpend(t) ==
    /\ task[t].at = "reserve" /\ ~OnEvm(task[t].swap, task[t].kind)
    /\ sent[task[t].swap][task[t].kind] > 0
    /\ EndRun(t, "Submitted")

\* Mistake: the reservation is not flushed to the store.
ReserveInMemory(t) ==
    /\ task[t].at = "reserve"
    /\ Goes(t, "send")
    /\ UNCHANGED <<durable, chain, memory, queue, clock, locks, sweep>>

Reserve(t) ==
    /\ task[t].at = "reserve"
    /\ meta' = [meta EXCEPT ![task[t].swap].started = @ \union {task[t].kind}]
    /\ Goes(t, "send")
    /\ UNCHANGED <<journal, chain, memory, queue, clock, locks, sweep>>

Send(t) ==
    /\ task[t].at = "send"
    /\ sent[task[t].swap][task[t].kind] < MaxSent
    /\ sent' = [sent EXCEPT ![task[t].swap][task[t].kind] = @ + 1]
    /\ Goes(t, IF OnEvm(task[t].swap, task[t].kind) THEN "note" ELSE "confirm")
    /\ UNCHANGED <<durable, view, memory, queue, clock, locks, sweep>>

NoteHash(t) ==
    /\ task[t].at = "note"
    /\ meta' = [meta EXCEPT ![task[t].swap].recorded = @ \union {task[t].kind}]
    /\ Goes(t, "confirm")
    /\ UNCHANGED <<journal, chain, memory, queue, clock, locks, sweep>>

Confirm(t) == task[t].at = "confirm" /\ EndRun(t, "Submitted")

OnRail(t) == task[t].at \in {"enter", "reserve", "send", "note", "confirm"}

\* An error, a timeout or a panic.  The claimer reports NotSent only while the rail
\* has nothing reserved; the tracker's own timeout is uncertain in any case.
FailRun(t) ==
    /\ OnRail(t)
    /\ \/ EndRun(t, "Uncertain")
       \/ ~Outstanding(task[t].swap, task[t].kind) /\ EndRun(t, "Retryable")

\* The legs a client can act on by hand: its own EVM funding and the server's HTLC.
Manual(s) ==
    {k \in Kinds : IF k = Claim THEN Contracts[s].server # NoLeg
                               ELSE Contracts[s].client # NoLeg /\ Contracts[s].client.rail = "Evm"}

\* The application claims or funds by itself, outside the tracker.
RunByHand(t, s) ==
    /\ "byHand" \in Calls /\ Idle(t)
    /\ \E k \in Manual(s) :
          /\ Enters(t, s, k)
          /\ task' = [task EXCEPT ![t] = [IdleTask EXCEPT !.at = "reserve", !.swap = s, !.kind = k]]

-----------------------------------------------------------------------------
(* disable: untrack, and the retirement that ends a reconcile *)

Untrack(t, s) ==
    /\ "untrack" \in Calls /\ Idle(t) /\ s \in Tracked
    /\ registration = Free /\ registration' = t
    /\ Looks(t, s, "untrackLock")
    /\ UNCHANGED <<durable, chain, memory, queue, clock, holder, execution, sweep>>

\* The entry is looked up under the registration lock.
Retire(t) ==
    LET s == task[t].swap
    IN /\ task[t].at = "retire"
       /\ registration = Free
       /\ IF s \in Tracked
          THEN registration' = t /\ Looks(t, s, "retireLock") /\ UNCHANGED <<holder, execution, sweep>>
          ELSE Ends(t)
       /\ UNCHANGED <<durable, chain, memory, queue, clock>>

Disable(t) ==
    LET s == task[t].swap
    IN /\ \/ task[t].at = "untrackLock"
          \/ task[t].at = "retireLock" /\ Settled(Record(t), s)
       /\ TakeRecord(t)
       /\ Save(t, [Record(t) EXCEPT !.enabled = FALSE])
       /\ installed' = [installed EXCEPT ![s] = 0]
       /\ pending' = pending \ {s}
       /\ sweep' = [NoSweep EXCEPT !.left = Tracked \ {s}]
       /\ Goes(t, "sweep")
       /\ UNCHANGED <<meta, chain, hinted, watched, batch, clock, registration, execution>>

\* A later reconcile cleared the completion.
SpareUnsettled(t) ==
    /\ task[t].at = "retireLock" /\ LockFree(t) /\ ~Settled(Record(t), task[t].swap)
    /\ Ends(t)
    /\ UNCHANGED <<durable, chain, memory, queue, clock>>

\* Mistake: what the other entries use is not collected.
SweepOneBlindly(t) ==
    /\ task[t].at = "sweep"
    /\ \E s \in sweep.left :
          /\ holder[s][installed[s]] = Free
          /\ sweep' = [sweep EXCEPT !.left = @ \ {s}]
    /\ UNCHANGED <<durable, chain, memory, queue, clock, locks, task>>

\* Every other record is locked in turn to learn which contracts it uses.
SweepOne(t) ==
    /\ task[t].at = "sweep"
    /\ \E s \in sweep.left :
          /\ holder[s][installed[s]] = Free
          /\ sweep' = [left |-> sweep.left \ {s}, used |-> sweep.used \union WatchKeys[s]]
    /\ UNCHANGED <<durable, chain, memory, queue, clock, locks, task>>

\* The last reference to the removed entry goes with the call that removed it.
UnregisterUnused(t) ==
    /\ task[t].at = "sweep" /\ sweep.left = {}
    /\ watched' = watched \ (WatchKeys[task[t].swap] \ sweep.used)
    /\ IF \A u \in Tasks \ {t} : task[u].swap # task[t].swap \/ task[u].object # task[t].object
       THEN record' = [record EXCEPT ![task[t].swap][task[t].object] = BlankRecord]
       ELSE UNCHANGED record
    /\ Ends(t)
    /\ UNCHANGED <<durable, chain, installed, hinted, queue, clock>>

-----------------------------------------------------------------------------
(* update_options and resolve_attempt *)

CallUpdateOptions(t, s) ==
    /\ "options" \in Calls /\ Idle(t) /\ s \in Tracked
    /\ Looks(t, s, "options")
    /\ UNCHANGED <<durable, chain, memory, queue, clock, locks, sweep>>

\* Mistake: new options do not wait for the run in progress.
UpdateOptionsAtOnce(t) ==
    /\ task[t].at = "options"
    /\ \E options \in Options : Save(t, [Record(t) EXCEPT !.options = options])
    /\ Wake(task[t].swap)
    /\ Ends(t)
    /\ UNCHANGED <<meta, chain, installed, hinted, watched, batch, clock>>

UpdateOptions(t) ==
    /\ task[t].at = "options" /\ LockFree(t)
    /\ IF Record(t).enabled
       THEN /\ \E options \in Options : Save(t, [Record(t) EXCEPT !.options = options])
            /\ Wake(task[t].swap)
       ELSE UNCHANGED <<journal, record, pending>>
    /\ Ends(t)
    /\ UNCHANGED <<meta, chain, installed, hinted, watched, batch, clock>>

InFlight(s, k) == \E t \in Tasks : OnRail(t) /\ task[t].swap = s /\ task[t].kind = k

\* Attempts that will not run again: in doubt, or out of runs.
Stopped(attempt) ==
    /\ InState(attempt, Provable)
    /\ attempt.state = "Retryable" => attempt.count = MaxAttempts

\* The application has inspected the chain and the rail's journal: the attempt it
\* saw sent nothing, and nothing of it is still running.
CallProveUnsent(t, s) ==
    LET attempt == record[s][installed[s]].attempt
    IN /\ "prove" \in Calls /\ Idle(t) /\ s \in Tracked
       /\ Stopped(attempt) /\ sent[s][attempt.action] = 0 /\ ~InFlight(s, attempt.action)
       /\ Looks(t, s, "proveLock")
       /\ UNCHANGED <<durable, chain, memory, queue, clock, locks, sweep>>

\* The record lock is held while evm_execution is awaited.
TakeAttempt(t) ==
    /\ task[t].at = "proveLock"
    /\ IF Record(t).attempt # NoAttempt
       THEN TakeRecord(t) /\ Goes(t, "release") /\ UNCHANGED <<registration, execution, sweep>>
       ELSE LockFree(t) /\ Ends(t)
    /\ UNCHANGED <<durable, chain, memory, queue, clock>>

\* Under evm_execution the attempt's unsent reservation is released; a recorded hash
\* is kept.
ReleaseReservation(t) ==
    LET s == task[t].swap
        k == Record(t).attempt.action
    IN /\ task[t].at = "release" /\ execution["evm"] = Free
       /\ meta' = IF k \in meta[s].recorded \/ ~OnEvm(s, k) THEN meta ELSE [meta EXCEPT ![s].started = @ \ {k}]
       /\ Goes(t, "forget")
       /\ UNCHANGED <<journal, chain, memory, queue, clock, locks, sweep>>

\* Then the attempt is dropped from the journal.
ForgetAttempt(t) ==
    /\ task[t].at = "forget"
    /\ Save(t, [Record(t) EXCEPT !.attempt = NoAttempt])
    /\ Wake(task[t].swap)
    /\ Ends(t)
    /\ UNCHANGED <<meta, chain, installed, hinted, watched, batch, clock>>

CallAttestSent(t, s) ==
    LET attempt == record[s][installed[s]].attempt
    IN /\ "attest" \in Calls /\ Idle(t) /\ s \in Tracked
       /\ InState(attempt, {"Running", "Uncertain"}) /\ sent[s][attempt.action] > 0
       /\ Looks(t, s, "attestLock")
       /\ UNCHANGED <<durable, chain, memory, queue, clock, locks, sweep>>

AttestSent(t) ==
    /\ task[t].at = "attestLock" /\ LockFree(t)
    /\ IF Record(t).attempt # NoAttempt
       THEN Save(t, [Record(t) EXCEPT !.attempt.state = "Submitted"]) /\ Wake(task[t].swap)
       ELSE UNCHANGED <<journal, record, pending>>
    /\ Ends(t)
    /\ UNCHANGED <<meta, chain, installed, hinted, watched, batch, clock>>

-----------------------------------------------------------------------------
(* Time and the environment *)

\* The retry deadline passes; the timer hints, unless its process is gone.
DeadlinePasses(s) ==
    /\ s \notin due /\ journal[s] # NoJournal /\ InState(journal[s].attempt, {"Retryable"})
    /\ due' = due \union {s}
    /\ Wake(s) \/ UNCHANGED pending
    /\ UNCHANGED <<durable, chain, memory, batch, aged, locks, task, sweep>>

RetirePeriodPasses(s) ==
    /\ s \notin aged /\ journal[s] # NoJournal /\ journal[s].completed
    /\ aged' = aged \union {s}
    /\ UNCHANGED <<durable, chain, memory, queue, due, locks, task, sweep>>

\* Blocks, reorganizations, failed reads and API refreshes: any view may follow any.
ViewChanges(s) ==
    /\ "view" \in Faults
    /\ \E v \in Views \ {view[s]} : view' = [view EXCEPT ![s] = v]
    /\ UNCHANGED <<durable, sent, memory, queue, clock, locks, task, sweep>>

\* A journal write that fails: the caller returns the error, and memory keeps what
\* the journal holds.
StorageFails(t) ==
    /\ "storage" \in Faults
    /\ \/ task[t].at \in {"decide", "finish", "release", "forget"} \/ OnRail(t)
       \/ task[t].at \in {"options", "attestLock", "untrackLock", "retireLock"} /\ LockFree(t)
    /\ Ends(t)
    /\ UNCHANGED <<durable, chain, memory, queue, clock>>

\* A caller drops its future at an await: its guards go, its effects stay.
DropCall(t) ==
    /\ "cancel" \in Faults
    /\ ~Idle(t)
    /\ Ends(t)
    /\ UNCHANGED <<durable, chain, memory, queue, clock>>

\* Shutdown aborts every reconcile of the worker; start begins a new one.
DropWorker ==
    LET returned(lock) == IF lock \in Slots THEN Free ELSE lock
    IN /\ "cancel" \in Faults
       /\ ~WorkerIdle
       /\ batch' = {}
       /\ task' = [t \in Tasks |-> IF t \in Slots THEN IdleTask ELSE task[t]]
       /\ holder' = [s \in Swaps |-> [o \in Objects |-> returned(holder[s][o])]]
       /\ registration' = returned(registration)
       /\ execution' = [l \in RailLocks |-> returned(execution[l])]
       /\ sweep' = IF registration \in Slots THEN NoSweep ELSE sweep
       /\ UNCHANGED <<durable, chain, memory, pending, clock>>

\* A new process has nothing in memory; the store, the chains and the clocks go on.
Crash ==
    /\ "crash" \in Faults
    /\ Tracked # {} \/ \E t \in Tasks : ~Idle(t)
    /\ installed' = NothingInstalled /\ record' = BlankRecords /\ hinted' = NothingHinted
    /\ watched' = {} /\ pending' = {} /\ batch' = {}
    /\ sweep' = NoSweep
    /\ holder' = RecordsFree /\ registration' = Free /\ execution' = RailsFree
    /\ task' = [t \in Tasks |-> IdleTask]
    /\ UNCHANGED <<durable, chain, due, aged>>

-----------------------------------------------------------------------------
Init ==
    /\ journal = [s \in Swaps |-> NoJournal]
    /\ meta = [s \in Swaps |-> [started |-> {}, recorded |-> {}]]
    /\ view \in [Swaps -> Views]
    /\ sent = [s \in Swaps |-> [k \in Kinds |-> 0]]
    /\ installed = NothingInstalled /\ record = BlankRecords /\ hinted = NothingHinted
    /\ watched = {} /\ pending = {} /\ batch = {}
    /\ due = {} /\ aged = {} /\ sweep = NoSweep
    /\ holder = RecordsFree /\ registration = Free /\ execution = RailsFree
    /\ task = [t \in Tasks |-> IdleTask]

Reconcile(t) == LockRecord(t) \/ BeginAttempt(t) \/ Conclude(t)

Rail(t) == EnterRail(t) \/ FindOwnSpend(t) \/ Reserve(t) \/ Send(t) \/ NoteHash(t) \/ Confirm(t) \/ FailRun(t)

Disabling(t) == Retire(t) \/ Disable(t) \/ SpareUnsettled(t) \/ SweepOne(t) \/ UnregisterUnused(t)

Resolving(t) == UpdateOptions(t) \/ TakeAttempt(t) \/ ReleaseReservation(t) \/ ForgetAttempt(t) \/ AttestSent(t)

Call(t, s) ==
    \/ TrackSwap(t, s) \/ Resume(t, s) \/ CallReconcile(t, s) \/ Untrack(t, s) \/ CallUpdateOptions(t, s)
    \/ CallProveUnsent(t, s) \/ CallAttestSent(t, s) \/ RunByHand(t, s)

Worker == FullTick \/ RiskTick \/ WorkerWake \/ (\E t \in Slots : StartReconcile(t))

Environment(s) ==
    Hint(s) \/ HintStatus(s) \/ DeadlinePasses(s) \/ RetirePeriodPasses(s) \/ ViewChanges(s)

Next ==
    \/ Worker
    \/ \E t \in Tasks : Reconcile(t) \/ Rail(t) \/ Disabling(t) \/ Resolving(t) \/ StorageFails(t)
    \/ \E t \in Operators : Restore(t) \/ DropCall(t)
    \/ \E t \in Operators, s \in Swaps : Call(t, s)
    \/ \E s \in Swaps : Environment(s)
    \/ DropWorker
    \/ Crash

Spec == Init /\ [][Next]_vars
==============================================================================
