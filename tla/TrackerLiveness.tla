--------------------------- MODULE TrackerLiveness ---------------------------
(***************************************************************************)
(* What the tracker eventually does while its process lives, its worker    *)
(* runs and the application polls the futures it started.                  *)
(***************************************************************************)
EXTENDS TrackerProperties

\* Tokio's mutexes are first in, first out, and a ready future is polled again, so a
\* task that can take its step time and again takes it.  Every run is bounded by
\* execution_timeout.
TaskFairness(t) == SF_vars(Reconcile(t) \/ Rail(t) \/ Disabling(t) \/ Resolving(t))

\* The interval stays ready until select! picks it, and it picks among the ready
\* branches at random, so hints do not starve the full refresh.
WorkerFairness ==
    /\ SF_vars(FullTick)
    /\ \A t \in Slots : WF_vars(StartReconcile(t))

ClockFairness == \A s \in Swaps : WF_vars(DeadlinePasses(s)) /\ WF_vars(RetirePeriodPasses(s))

FairSpec == Spec /\ WorkerFairness /\ ClockFairness /\ \A t \in Tasks : TaskFairness(t)

-----------------------------------------------------------------------------
ShowsClaim(s) ==
    Recommended(DeriveInput(s, NewRecord(CHOOSE options \in Options : TRUE),
                            [view |-> view[s], status |-> NoStatus])) = Claim

\* A claim the application left to the tracker is made, or ends where the user is
\* told: runs exhausted, an outcome in doubt, or a submission on record.  Retries are
\* never forgotten (reconcile, hint_after).
ClaimSettles ==
    \A s \in Swaps :
        (s \in Tracked /\ ShowsClaim(s)) ~>
            \/ s \notin Tracked
            \/ ~ShowsClaim(s)
            \/ Outstanding(s, Claim)
            \/ InState(journal[s].attempt, {"Uncertain"})
            \/ InState(journal[s].attempt, {"Retryable"}) /\ journal[s].attempt.count = MaxAttempts

\* The end of a swap is reached and kept.  A status pushed for a tracked swap reaches its
\* journal, unless a later one replaces it or the swap is untracked; and a swap whose
\* terminal outcome lasts is retired and frees its slot (hint_status, reconcile, disable).
EndIsReached ==
    /\ \A s \in Swaps, status \in Hints :
        (s \in Tracked /\ hinted[s][installed[s]] = status) ~>
            \/ s \notin Tracked
            \/ hinted[s][installed[s]] # status
            \/ journal[s].status = status
    /\ \A s \in Swaps :
        (s \in Tracked /\ journal[s].completed) ~> (s \notin Tracked \/ ~journal[s].completed)
==============================================================================
