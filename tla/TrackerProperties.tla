-------------------------- MODULE TrackerProperties --------------------------
(***************************************************************************)
(* What the tracker promises.                                              *)
(***************************************************************************)
EXTENDS SwapTracker

AllKeys == UNION {WatchKeys[s] : s \in Swaps}

TypeOK ==
    /\ journal \in [Swaps -> TrackingRecord \union {NoJournal}]
    /\ meta \in [Swaps -> [started : SUBSET Kinds, recorded : SUBSET Kinds]]
    /\ view \in [Swaps -> Views]
    /\ sent \in [Swaps -> [Kinds -> 0 .. MaxSent]]
    /\ installed \in [Swaps -> 0 .. MaxObjects]
    /\ record \in [Swaps -> [Objects -> TrackingRecord]]
    /\ hinted \in [Swaps -> [Objects -> Hints \union {NoStatus}]]
    /\ watched \subseteq AllKeys
    /\ sweep \in [left : SUBSET Swaps, used : SUBSET AllKeys]
    /\ pending \subseteq Swaps /\ batch \subseteq Swaps
    /\ due \subseteq Swaps /\ aged \subseteq Swaps
    /\ holder \in [Swaps -> [Objects -> Tasks \union {Free}]]
    /\ registration \in Tasks \union {Free}
    /\ execution \in [RailLocks -> Tasks \union {Free}]
    /\ task \in [Tasks -> Task]

\* Executor callbacks of the tracker, as opposed to the application's own calls.
Automatic(t) == OnRail(t) /\ task[t].object # 0

\* A claim or a funding leaves the process at most once, whatever crashes, fails,
\* times out, is retried, or is run by hand beside the worker: the rail reserves
\* before it sends, and only a resolution that nothing was sent releases it
\* (evm/claim.rs, evm/funding.rs, tracker/auto_claim.rs, tracker.rs).  Bitcoin claims
\* of one swap spend the same outputs, so there the chain decides.
AtMostOnce == \A s \in Swaps, k \in Kinds : OnEvm(s, k) => sent[s][k] <= 1

\* What was sent is always on record durably, so a restart finds it.
SentIsRecorded == \A s \in Swaps, k \in Kinds : sent[s][k] > 0 => Outstanding(s, k)

\* What a restart reads is what the tracker acted on.  The journal and the entry in memory
\* never part, through failed writes, dropped callers and restarts; and while the
\* tracker's callback runs the journal already shows its attempt as running, so a crash
\* at any point of it restarts in doubt, never with a clean record ("persist before any
\* callback", reconcile).
JournalTellsTruth ==
    /\ \A s \in Tracked : journal[s] = record[s][installed[s]]
    /\ \A t \in Tasks : Automatic(t) =>
        LET s == task[t].swap
        IN /\ journal[s] # NoJournal
           /\ InState(journal[s].attempt, {"Running"})
           /\ journal[s].attempt.action = task[t].kind

\* An application that opted a swap out of automation, and saw the call return, has
\* no callback of the tracker running for it (update_options takes the record lock).
OptOutHolds ==
    \A t \in Tasks : Automatic(t) => Permitted(journal[task[t].swap], task[t].kind)

\* Untracking one swap never stops the observation of a contract that another
\* tracked swap uses (disable, install).
TrackedAreWatched == \A s \in Tracked : WatchKeys[s] \subseteq watched

\* Retirement only ends a swap whose terminal outcome lasted.  A concurrent reconcile
\* may find it unfinished, and finished again, after the one that retires it has let
\* go of its record: what retirement disables is complete in the journal and has been
\* for the whole period (reconcile, disable).
RetiresOnlyLasting ==
    [][\A t \in Tasks :
        task[t].at = "retireLock" /\ task'[t].at = "sweep"
            => journal[task[t].swap].completed /\ task[t].swap \in aged]_vars

\* Who a task waits for: the holder of the record, rail or registration lock it needs
\* next, or of any record its sweep has left.
WaitsFor(t) ==
    LET at == task[t].at
        s == task[t].swap
        wanted ==
            CASE at \in {"lock", "options", "proveLock", "attestLock", "untrackLock", "retireLock"} ->
                    {holder[s][task[t].object]}
              [] at = "enter" -> {execution[RailLock(s, task[t].kind)]}
              [] at = "release" -> {execution["evm"]}
              [] at = "retire" -> {registration}
              [] at = "sweep" -> {holder[r][installed[r]] : r \in sweep.left}
              [] OTHER -> {Free}
    IN wanted \ {Free}

\* Nobody waits for nobody: every group of tasks has one that waits for none of the
\* group, and no lock stays with a task that is gone.  untrack holds registration and
\* a record while it locks all the others; a run holds a record while it waits for
\* its rail; retirement starts inside a reconcile (disable, reconcile).
NoCircularWait ==
    /\ \A S \in (SUBSET Tasks) \ {{}} : \E t \in S : WaitsFor(t) \intersect S = {}
    /\ \A t \in Tasks : Idle(t) =>
          /\ registration # t
          /\ \A l \in RailLocks : execution[l] # t
          /\ \A s \in Swaps, o \in Objects : holder[s][o] # t

\* Completion outlives the process: the journal alone, with the same chain, derives
\* the terminal outcome again, so a restart does not undo a terminal that a pushed
\* status produced and begin its retirement period anew (TrackingRecord::server_status).
CompletionReproducible ==
    \A s \in Swaps : journal[s] # NoJournal /\ journal[s].completed =>
        LET read == [view |-> view[s], status |-> journal[s].status]
        IN Terminal(journal[s], Recommended(DeriveInput(s, journal[s], read)))

Actionable == Swaps \X Kinds
OnRecord == {a \in Actionable : Outstanding(a[1], a[2])}
Broadcasts == [a \in Actionable |-> sent[a[1]][a[2]]]

Ledger == INSTANCE Submission WITH
    Submissions <- Actionable,
    Repeatable <- {a \in Actionable : ~OnEvm(a[1], a[2])},
    reserved <- OnRecord,
    broadcasts <- Broadcasts

\* The tracker and its rails implement the submission journal: nothing leaves the
\* process unreserved or twice, and no reservation of something sent is dropped, in
\* any interleaving of runs, resolutions, failures and restarts.
ImplementsSubmission == Ledger!Spec

\* A resolution releases only reservations of what was not sent: the documented effect
\* of ProvenNotSubmitted, whatever happens between the proof and the release.
ReleasesOnlyUnsent ==
    [][\A s \in Swaps, k \in Kinds :
        k \in meta[s].started /\ k \notin meta'[s].started => sent[s][k] = 0]_vars

\* A tracked swap is enabled in its journal, so a restart goes on tracking it: untrack
\* disables, resume enables again, and nothing else decides it.
TrackedIsEnabled == \A s \in Tracked : journal[s].enabled
==============================================================================
