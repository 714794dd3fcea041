--------------------------- MODULE SubmissionProofs ---------------------------
(***************************************************************************)
(* What is journalled, for every number of swaps, tasks and faults.        *)
(* Nothing is spent twice: the tracker and its rails implement the         *)
(* submission journal, provided the proofs the application resolves with   *)
(* are true when they are applied.  And the record in the store is what    *)
(* the tracker acts on, provided no resolution goes through an entry that  *)
(* was replaced; and what it says is complete, it proves complete again    *)
(* after a restart, as long as the chain stands still.                     *)
(***************************************************************************)
EXTENDS SwapTrackerProofs

(***************************************************************************)
(* The inductive invariant.  AtMostOnce is not inductive: a run that has   *)
(* passed its rail's check must find nothing sent when it sends, so the    *)
(* rail lock must have been its own ever since (HoldsRail, NotYetSent),    *)
(* and what was sent must have kept every later run out (SentIsRecorded).  *)
(***************************************************************************)

HoldsRail ==
    \A t \in Tasks : task[t].at \in Sending => execution[RailLock(task[t].swap, task[t].kind)] = t

NotYetSent ==
    \A t \in Tasks : task[t].at \in {"reserve", "send"} /\ OnEvm(task[t].swap, task[t].kind)
        => sent[task[t].swap][task[t].kind] = 0

ReservedFirst == \A t \in Tasks : task[t].at = "send" => task[t].kind \in meta[task[t].swap].started

RailInv == HoldsRail /\ NotYetSent /\ ReservedFirst /\ SentIsRecorded /\ AtMostOnce

LEMMA RailLockType == \A s, k : RailLock(s, k) \in RailLocks
  BY DEF RailLock, RailLocks

LEMMA TaskTypes ==
    ASSUME TypeInv, NEW t \in Tasks
    PROVE  task[t].swap \in Swaps /\ task[t].kind \in Kinds
  BY DEF TypeInv, TypeOK, Task

LEMMA InitRailInv == Init => RailInv
  BY IdleTaskFacts DEF Init, RailInv, HoldsRail, NotYetSent, ReservedFirst, Sending, SentIsRecorded, AtMostOnce

-----------------------------------------------------------------------------
(* Steps that leave the ledger alone and put no task past a rail's check    *)
(* keep the invariant: almost all of them.                                  *)

Quiet ==
    /\ UNCHANGED <<meta, sent>>
    /\ \A u \in Tasks : task'[u].at \in Sending =>
           /\ task'[u].at = task[u].at /\ task'[u].swap = task[u].swap /\ task'[u].kind = task[u].kind
           /\ \A l \in RailLocks : execution[l] = u => execution'[l] = u

LEMMA QuietRailInv ==
    ASSUME TypeInv, RailInv, Quiet
    PROVE  RailInv'
  <1>1. HoldsRail'
    <2> SUFFICES ASSUME NEW u \in Tasks, task'[u].at \in Sending
                 PROVE  execution'[RailLock(task'[u].swap, task'[u].kind)] = u
      BY DEF HoldsRail, RailLock, OnEvm
    <2>1. execution[RailLock(task[u].swap, task[u].kind)] = u
      BY DEF RailInv, HoldsRail, Quiet
    <2> QED
      BY <2>1, RailLockType DEF Quiet
  <1>2. NotYetSent' /\ ReservedFirst'
    BY DEF RailInv, NotYetSent, ReservedFirst, Quiet, Sending, OnEvm
  <1>3. SentIsRecorded' /\ AtMostOnce'
    BY DEF RailInv, SentIsRecorded, AtMostOnce, Outstanding, Quiet
  <1> QED
    BY <1>1, <1>2, <1>3 DEF RailInv

\* One task moves to a place off the rails.
LEMMA AsideQuiet ==
    ASSUME NEW t \in Tasks, UNCHANGED <<meta, sent>>, task'[t].at \notin Sending,
           \A u \in Tasks \ {t} : task'[u] = task[u],
           \A u \in Tasks \ {t}, l \in RailLocks : execution[l] = u => execution'[l] = u
    PROVE  Quiet
  BY DEF Quiet

LEMMA EndsQuiet ==
    ASSUME TypeInv, NEW t \in Tasks, Ends(t), UNCHANGED <<meta, sent>>
    PROVE  Quiet
  <1>1. task'[t].at \notin Sending /\ \A u \in Tasks \ {t} : task'[u] = task[u]
    BY EndsFacts, IdleTaskFacts DEF Sending
  <1>2. \A u \in Tasks \ {t}, l \in RailLocks : execution[l] = u => execution'[l] = u
    BY DEF Ends, Returned
  <1> QED
    BY <1>1, <1>2, AsideQuiet

LEMMA EndRunQuiet ==
    ASSUME TypeInv, NEW t \in Tasks, NEW state, EndRun(t, state)
    PROVE  Quiet
  <1>1. \A u \in Tasks \ {t}, l \in RailLocks : execution[l] = u => execution'[l] = u
    BY DEF EndRun, Returned
  <1>2. UNCHANGED <<meta, sent>>
    BY DEF EndRun, chain
  <1>3. task'[t].at \in {"idle", "finish"} /\ \A u \in Tasks \ {t} : task'[u] = task[u]
    <2>1. CASE task[t].object = 0
      BY <2>1, IdleTaskFacts DEF EndRun, TypeInv, TypeOK
    <2>2. CASE task[t].object # 0
      <3>1. task[t] \in Task
        BY DEF TypeInv, TypeOK
      <3> DEFINE m == [task[t] EXCEPT !.at = "finish", !.seen.view = view[task[t].swap]]
      <3>2. m.at = "finish"
        BY <3>1 DEF Task
      <3>3. task' = [task EXCEPT ![t] = m]
        BY <2>2 DEF EndRun
      <3> HIDE DEF m
      <3> QED
        BY <3>2, <3>3 DEF TypeInv, TypeOK
    <2> QED
      BY <2>1, <2>2
  <1> QED
    BY <1>1, <1>2, <1>3, AsideQuiet DEF Sending

LEMMA CallQuiet ==
    ASSUME TypeInv, NEW t \in Tasks, NEW s \in Swaps,
           \/ TrackSwap(t, s) \/ Resume(t, s) \/ Restore(t)
           \/ CallReconcile(t, s) \/ Untrack(t, s) \/ CallUpdateOptions(t, s)
           \/ CallProveUnsent(t, s) \/ CallAttestSent(t, s)
    PROVE  Quiet
  <1>1. CASE TrackSwap(t, s) \/ Resume(t, s) \/ Restore(t)
    BY <1>1 DEF TrackSwap, Resume, Restore, Install, Quiet, chain, locks
  <1>2. CASE \/ CallReconcile(t, s) \/ Untrack(t, s) \/ CallUpdateOptions(t, s)
             \/ CallProveUnsent(t, s) \/ CallAttestSent(t, s)
    <2>1. PICK place \in {"lock", "untrackLock", "options", "proveLock", "attestLock"} :
              Looks(t, s, place) /\ s \in Tracked
      BY <1>2 DEF CallReconcile, Untrack, CallUpdateOptions, CallProveUnsent, CallAttestSent
    <2>2. UNCHANGED <<meta, sent, execution>>
      BY <1>2 DEF CallReconcile, Untrack, CallUpdateOptions, CallProveUnsent, CallAttestSent, durable, chain, locks
    <2>3. task'[t].at = place /\ \A u \in Tasks \ {t} : task'[u] = task[u]
      BY <2>1, LooksFacts DEF Place
    <2> QED
      BY <2>1, <2>2, <2>3, AsideQuiet DEF Sending
  <1> QED
    BY <1>1, <1>2

LEMMA WorkerQuiet ==
    ASSUME TypeInv, Worker
    PROVE  Quiet
  <1>1. CASE FullTick \/ RiskTick \/ WorkerWake
    BY <1>1 DEF FullTick, RiskTick, WorkerWake, Refresh, Quiet, durable, chain, locks
  <1>2. ASSUME NEW t \in Slots, StartReconcile(t)
        PROVE  Quiet
    <2>1. PICK s \in batch : IF s \in Tracked THEN Looks(t, s, "lock") ELSE UNCHANGED task
      BY <1>2 DEF StartReconcile
    <2>2. UNCHANGED <<meta, sent, execution>> /\ t \in Tasks
      BY <1>2 DEF StartReconcile, durable, chain, locks, Tasks
    <2>3. CASE s \in Tracked
      <3>1. task'[t].at = "lock" /\ \A u \in Tasks \ {t} : task'[u] = task[u]
        BY <2>1, <2>2, <2>3, LooksFacts DEF Place
      <3> QED
        BY <2>2, <3>1, AsideQuiet DEF Sending
    <2>4. CASE s \notin Tracked
      BY <2>1, <2>2, <2>4 DEF Quiet
    <2> QED
      BY <2>3, <2>4
  <1> QED
    BY <1>1, <1>2 DEF Worker

LEMMA EnvironmentQuiet ==
    ASSUME NEW s \in Swaps, Environment(s)
    PROVE  Quiet
  BY DEF Environment, Hint, HintStatus, DeadlinePasses, RetirePeriodPasses, ViewChanges, Quiet, durable, chain, locks

LEMMA ReconcileQuiet ==
    ASSUME TypeInv, NEW t \in Tasks, Reconcile(t)
    PROVE  Quiet
  <1>1. CASE LockRecord(t)
    <2>1. UNCHANGED <<meta, sent>>
      BY <1>1 DEF LockRecord, durable, chain
    <2>2. CASE Record(t).enabled
      <3>1. UNCHANGED execution /\ \A u \in Tasks \ {t} : task'[u] = task[u]
        BY <1>1, <2>2 DEF LockRecord, TypeInv, TypeOK
      <3>2. task'[t].at = "decide"
        BY <1>1, <2>2 DEF LockRecord, TypeInv, TypeOK, Task
      <3> QED
        BY <2>1, <3>1, <3>2, AsideQuiet DEF Sending
    <2>3. CASE ~Record(t).enabled
      BY <1>1, <2>1, <2>3, EndsQuiet DEF LockRecord
    <2> QED
      BY <2>2, <2>3
  <1>2. CASE BeginAttempt(t)
    <2>1. UNCHANGED <<meta, sent, execution>> /\ \A u \in Tasks \ {t} : task'[u] = task[u]
      BY <1>2 DEF BeginAttempt, TypeInv, TypeOK, chain, locks
    <2>2. task'[t].at = "enter"
      <3>1. task[t] \in Task
        BY DEF TypeInv, TypeOK
      <3> DEFINE m == [task[t] EXCEPT !.at = "enter", !.kind = Derived(t), !.seen.view = IdleTask.seen.view]
      <3>2. m.at = "enter"
        BY <3>1 DEF Task
      <3>3. task' = [task EXCEPT ![t] = m]
        BY <1>2 DEF BeginAttempt
      <3> HIDE DEF m
      <3> QED
        BY <3>2, <3>3 DEF TypeInv, TypeOK
    <2> QED
      BY <2>1, <2>2, AsideQuiet DEF Sending
  <1>3. CASE Conclude(t)
    <2>1. UNCHANGED <<meta, sent, execution>> /\ \A u \in Tasks \ {t} : task'[u] = task[u]
      BY <1>3 DEF Conclude, TypeInv, TypeOK, chain
    <2>2. \/ task' = [task EXCEPT ![t] = IdleTask]
          \/ task' = [task EXCEPT ![t] = [IdleTask EXCEPT !.at = "retire", !.swap = task[t].swap]]
      BY <1>3 DEF Conclude
    <2>3. [IdleTask EXCEPT !.at = "retire", !.swap = task[t].swap].at = "retire"
      BY IdleTaskFacts DEF Task
    <2>4. task'[t].at \in {"idle", "retire"}
      BY <2>2, <2>3, IdleTaskFacts DEF TypeInv, TypeOK
    <2> QED
      BY <2>1, <2>4, AsideQuiet DEF Sending
  <1> QED
    BY <1>1, <1>2, <1>3 DEF Reconcile

LEMMA DisablingQuiet ==
    ASSUME TypeInv, NEW t \in Tasks, Disabling(t)
    PROVE  Quiet
  <1>1. CASE Retire(t)
    <2>1. UNCHANGED <<meta, sent>>
      BY <1>1 DEF Retire, durable, chain
    <2>2. CASE task[t].swap \in Tracked
      <3>1. Looks(t, task[t].swap, "retireLock") /\ UNCHANGED execution
        BY <1>1, <2>2 DEF Retire
      <3>2. task'[t].at = "retireLock" /\ \A u \in Tasks \ {t} : task'[u] = task[u]
        BY <2>2, <3>1, LooksFacts DEF Place
      <3> QED
        BY <2>1, <3>1, <3>2, AsideQuiet DEF Sending
    <2>3. CASE task[t].swap \notin Tracked
      BY <1>1, <2>1, <2>3, EndsQuiet DEF Retire
    <2> QED
      BY <2>2, <2>3
  <1>2. CASE Disable(t)
    <2>1. Goes(t, "sweep") /\ UNCHANGED <<meta, sent, execution>>
      BY <1>2 DEF Disable, chain
    <2>2. task'[t].at = "sweep" /\ \A u \in Tasks \ {t} : task'[u] = task[u]
      BY <2>1, GoesFacts DEF Place
    <2> QED
      BY <2>1, <2>2, AsideQuiet DEF Sending
  <1>3. CASE SpareUnsettled(t) \/ UnregisterUnused(t)
    BY <1>3, EndsQuiet DEF SpareUnsettled, UnregisterUnused, durable, chain
  <1>4. CASE SweepOne(t)
    BY <1>4 DEF SweepOne, Quiet, durable, chain, locks
  <1> QED
    BY <1>1, <1>2, <1>3, <1>4 DEF Disabling

LEMMA ResolvingQuiet ==
    ASSUME TypeInv, NEW t \in Tasks, UpdateOptions(t) \/ TakeAttempt(t) \/ ForgetAttempt(t) \/ AttestSent(t)
    PROVE  Quiet
  <1>1. CASE UpdateOptions(t) \/ ForgetAttempt(t) \/ AttestSent(t)
    BY <1>1, EndsQuiet DEF UpdateOptions, ForgetAttempt, AttestSent, chain
  <1>2. CASE TakeAttempt(t)
    <2>1. UNCHANGED <<meta, sent>>
      BY <1>2 DEF TakeAttempt, durable, chain
    <2>2. CASE Record(t).attempt # NoAttempt
      <3>1. Goes(t, "release") /\ UNCHANGED execution
        BY <1>2, <2>2 DEF TakeAttempt
      <3>2. task'[t].at = "release" /\ \A u \in Tasks \ {t} : task'[u] = task[u]
        BY <3>1, GoesFacts DEF Place
      <3> QED
        BY <2>1, <3>1, <3>2, AsideQuiet DEF Sending
    <2>3. CASE Record(t).attempt = NoAttempt
      BY <1>2, <2>1, <2>3, EndsQuiet DEF TakeAttempt
    <2> QED
      BY <2>2, <2>3
  <1> QED
    BY <1>1, <1>2

LEMMA FaultQuiet ==
    ASSUME TypeInv, DropWorker \/ Crash
    PROVE  Quiet
  <1>1. CASE DropWorker
    <2>1. UNCHANGED <<meta, sent>>
      BY <1>1 DEF DropWorker, durable, chain
    <2>2. ASSUME NEW u \in Tasks, task'[u].at \in Sending
          PROVE  task'[u] = task[u] /\ u \notin Slots
      BY <1>1, <2>2, IdleTaskFacts DEF DropWorker, Sending
    <2>3. \A u \in Tasks \ Slots, l \in RailLocks : execution[l] = u => execution'[l] = u
      BY <1>1 DEF DropWorker
    <2> QED
      BY <2>1, <2>2, <2>3 DEF Quiet
  <1>2. CASE Crash
    BY <1>2, IdleTaskFacts DEF Crash, Quiet, Sending, durable, chain
  <1> QED
    BY <1>1, <1>2

-----------------------------------------------------------------------------
(* The steps that touch the ledger, with the step of the submission journal *)
(* each of them is.                                                         *)

LedgerStep == [Ledger!Next]_<<OnRecord, Broadcasts>>

LEMMA QuietLedger == Quiet => LedgerStep
  BY DEF Quiet, LedgerStep, OnRecord, Broadcasts, Outstanding

LEMMA SentType ==
    ASSUME TypeInv, NEW s \in Swaps, NEW k \in Kinds
    PROVE  sent[s][k] \in Nat /\ meta[s].started \subseteq Kinds /\ meta[s].recorded \subseteq Kinds
  BY TrackerAssumption DEF TypeInv, TypeOK

\* A rail is entered only when it is free and, on EVM, nothing is on record.
LEMMA EntersRailInv ==
    ASSUME TypeInv, RailInv, NEW t \in Tasks, NEW s \in Swaps, NEW k \in Kinds, Enters(t, s, k),
           task'[t].at = "reserve", task'[t].swap = s, task'[t].kind = k,
           \A u \in Tasks \ {t} : task'[u] = task[u]
    PROVE  RailInv' /\ LedgerStep
  <1>1. UNCHANGED <<meta, sent>>
    BY DEF Enters, durable, chain
  <1>2. HoldsRail'
    <2> SUFFICES ASSUME NEW u \in Tasks, task'[u].at \in Sending
                 PROVE  execution'[RailLock(task'[u].swap, task'[u].kind)] = u
      BY DEF HoldsRail, RailLock, OnEvm
    <2>1. RailLock(s, k) \in RailLocks /\ RailLock(task'[u].swap, task'[u].kind) \in RailLocks
      BY RailLockType
    <2>2. CASE u = t
      BY <2>1, <2>2 DEF Enters, TypeInv, TypeOK
    <2>3. CASE u # t
      <3>1. task'[u] = task[u] /\ execution[RailLock(task[u].swap, task[u].kind)] = u
        BY <2>3 DEF RailInv, HoldsRail
      <3>2. RailLock(task[u].swap, task[u].kind) # RailLock(s, k)
        BY <3>1, TrackerAssumption DEF Enters
      <3> QED
        BY <2>1, <3>1, <3>2 DEF Enters, TypeInv, TypeOK
    <2> QED
      BY <2>2, <2>3
  <1>3. OnEvm(s, k) => sent[s][k] = 0
    BY SentType DEF Enters, RailInv, SentIsRecorded
  <1>4. NotYetSent' /\ ReservedFirst'
    BY <1>1, <1>3 DEF RailInv, NotYetSent, ReservedFirst, OnEvm
  <1>5. SentIsRecorded' /\ AtMostOnce'
    BY <1>1 DEF RailInv, SentIsRecorded, AtMostOnce, Outstanding
  <1>6. LedgerStep
    BY <1>1 DEF LedgerStep, OnRecord, Broadcasts, Outstanding
  <1> QED
    BY <1>2, <1>4, <1>5, <1>6 DEF RailInv

\* A run that moves along its rail keeps it.
LEMMA AlongHoldsRail ==
    ASSUME TypeInv, RailInv, NEW t \in Tasks, task[t].at \in Sending, NEW place \in Place, Goes(t, place),
           UNCHANGED execution
    PROVE  /\ HoldsRail'
           /\ task'[t].at = place /\ task'[t].swap = task[t].swap /\ task'[t].kind = task[t].kind
           /\ \A u \in Tasks \ {t} : task'[u] = task[u]
  <1>1. /\ task'[t].at = place /\ task'[t].swap = task[t].swap /\ task'[t].kind = task[t].kind
        /\ \A u \in Tasks \ {t} : task'[u] = task[u]
    BY GoesFacts
  <1> QED
    BY <1>1 DEF RailInv, HoldsRail, RailLock, OnEvm

\* A reservation of an action, fresh or repeated.
LEMMA ReservesLedger ==
    ASSUME TypeInv, NEW s \in Swaps, NEW k \in Kinds, UNCHANGED sent,
           Outstanding(s, k)',
           \A r \in Swaps, j \in Kinds : r # s \/ j # k => Outstanding(r, j)' = Outstanding(r, j)
    PROVE  LedgerStep
  <1>1. UNCHANGED Broadcasts
    BY DEF Broadcasts
  <1>2. <<s, k>> \in Actionable
    BY DEF Actionable
  <1>3. OnRecord' = OnRecord \union {<<s, k>>}
    BY DEF OnRecord, Actionable
  <1>4. CASE <<s, k>> \in OnRecord
    BY <1>1, <1>3, <1>4 DEF LedgerStep
  <1>5. CASE <<s, k>> \notin OnRecord
    <2>1. Ledger!Reserve(<<s, k>>)
      BY <1>1, <1>3, <1>5 DEF Ledger!Reserve
    <2> QED
      BY <1>2, <2>1 DEF LedgerStep, Ledger!Next
  <1> QED
    BY <1>4, <1>5

LEMMA ReserveRailInv ==
    ASSUME TypeInv, RailInv, NEW t \in Tasks, Reserve(t)
    PROVE  RailInv' /\ LedgerStep
  <1>1. PICK s \in Swaps, k \in Kinds : s = task[t].swap /\ k = task[t].kind
    BY TaskTypes
  <1>2. /\ HoldsRail'
        /\ task'[t].at = "send" /\ task'[t].swap = s /\ task'[t].kind = k
        /\ \A u \in Tasks \ {t} : task'[u] = task[u]
    BY <1>1, AlongHoldsRail DEF Reserve, Place, locks, Sending
  <1>3. UNCHANGED sent
    BY DEF Reserve, chain
  <1>4. /\ meta'[s].started = meta[s].started \union {k} /\ meta'[s].recorded = meta[s].recorded
        /\ \A r \in Swaps : r # s => meta'[r] = meta[r]
    <2> DEFINE new == [meta[s] EXCEPT !.started = @ \union {k}]
    <2>1. meta' = [meta EXCEPT ![s] = new]
      BY <1>1 DEF Reserve
    <2>2. meta[s] \in [started : SUBSET Kinds, recorded : SUBSET Kinds]
      BY <1>1 DEF TypeInv, TypeOK
    <2>3. new.started = meta[s].started \union {k} /\ new.recorded = meta[s].recorded
      BY <2>2
    <2> HIDE DEF new
    <2> QED
      BY <1>1, <2>1, <2>3 DEF TypeInv, TypeOK
  <1>5. NotYetSent'
    BY <1>1, <1>2, <1>3 DEF Reserve, RailInv, NotYetSent, OnEvm
  <1>6. ReservedFirst'
    <2> SUFFICES ASSUME NEW u \in Tasks, task'[u].at = "send"
                 PROVE  task'[u].kind \in meta'[task'[u].swap].started
      BY DEF ReservedFirst
    <2>1. CASE u = t
      BY <1>2, <1>4, <2>1
    <2>2. CASE u # t
      BY <1>2, <1>4, <2>2, TaskTypes DEF RailInv, ReservedFirst
    <2> QED
      BY <2>1, <2>2
  <1>7. /\ Outstanding(s, k)'
        /\ \A r \in Swaps, j \in Kinds : r # s \/ j # k => Outstanding(r, j)' = Outstanding(r, j)
    BY <1>1, <1>4 DEF Outstanding
  <1>8. SentIsRecorded' /\ AtMostOnce'
    BY <1>3, <1>7 DEF RailInv, SentIsRecorded, AtMostOnce
  <1>9. LedgerStep
    BY <1>1, <1>3, <1>7, ReservesLedger
  <1> QED
    BY <1>2, <1>5, <1>6, <1>8, <1>9 DEF RailInv

LEMMA NoteHashRailInv ==
    ASSUME TypeInv, RailInv, NEW t \in Tasks, NoteHash(t)
    PROVE  RailInv' /\ LedgerStep
  <1>1. PICK s \in Swaps, k \in Kinds : s = task[t].swap /\ k = task[t].kind
    BY TaskTypes
  <1>2. /\ HoldsRail'
        /\ task'[t].at = "confirm" /\ task'[t].swap = s /\ task'[t].kind = k
        /\ \A u \in Tasks \ {t} : task'[u] = task[u]
    BY <1>1, AlongHoldsRail DEF NoteHash, Place, locks, Sending
  <1>3. UNCHANGED sent
    BY DEF NoteHash, chain
  <1>4. /\ meta'[s].recorded = meta[s].recorded \union {k} /\ meta'[s].started = meta[s].started
        /\ \A r \in Swaps : r # s => meta'[r] = meta[r]
    <2> DEFINE new == [meta[s] EXCEPT !.recorded = @ \union {k}]
    <2>1. meta' = [meta EXCEPT ![s] = new]
      BY <1>1 DEF NoteHash
    <2>2. meta[s] \in [started : SUBSET Kinds, recorded : SUBSET Kinds]
      BY <1>1 DEF TypeInv, TypeOK
    <2>3. new.recorded = meta[s].recorded \union {k} /\ new.started = meta[s].started
      BY <2>2
    <2> HIDE DEF new
    <2> QED
      BY <1>1, <2>1, <2>3 DEF TypeInv, TypeOK
  <1>5. NotYetSent'
    BY <1>2, <1>3 DEF RailInv, NotYetSent, OnEvm
  <1>6. ReservedFirst'
    BY <1>2, <1>4, TaskTypes DEF RailInv, ReservedFirst
  <1>7. /\ Outstanding(s, k)'
        /\ \A r \in Swaps, j \in Kinds : r # s \/ j # k => Outstanding(r, j)' = Outstanding(r, j)
    BY <1>1, <1>4 DEF Outstanding
  <1>8. SentIsRecorded' /\ AtMostOnce'
    BY <1>3, <1>7 DEF RailInv, SentIsRecorded, AtMostOnce
  <1>9. LedgerStep
    BY <1>1, <1>3, <1>7, ReservesLedger
  <1> QED
    BY <1>2, <1>5, <1>6, <1>8, <1>9 DEF RailInv

LEMMA SendRailInv ==
    ASSUME TypeInv, RailInv, NEW t \in Tasks, Send(t)
    PROVE  RailInv' /\ LedgerStep
  <1>1. PICK s \in Swaps, k \in Kinds : s = task[t].swap /\ k = task[t].kind
    BY TaskTypes
  <1>2. PICK place \in {"note", "confirm"} : Goes(t, place)
    BY DEF Send
  <1>3. /\ HoldsRail'
        /\ task'[t].at = place /\ task'[t].swap = s /\ task'[t].kind = k
        /\ \A u \in Tasks \ {t} : task'[u] = task[u]
    BY <1>1, <1>2, AlongHoldsRail DEF Send, Place, locks, Sending
  <1>4. UNCHANGED meta
    BY DEF Send, durable
  <1>5. /\ sent'[s][k] = sent[s][k] + 1
        /\ \A r \in Swaps, j \in Kinds : r # s \/ j # k => sent'[r][j] = sent[r][j]
    BY <1>1 DEF Send, TypeInv, TypeOK
  <1>6. k \in meta[s].started /\ (OnEvm(s, k) => sent[s][k] = 0)
    BY <1>1 DEF Send, RailInv, ReservedFirst, NotYetSent
  <1>7. NotYetSent'
    <2> SUFFICES ASSUME NEW u \in Tasks, task'[u].at \in {"reserve", "send"},
                        OnEvm(task'[u].swap, task'[u].kind)
                 PROVE  sent'[task'[u].swap][task'[u].kind] = 0
      BY DEF NotYetSent, OnEvm
    <2>1. u # t /\ task'[u] = task[u]
      BY <1>3
    <2>2. sent[task[u].swap][task[u].kind] = 0
      BY <2>1 DEF RailInv, NotYetSent
    <2>3. task[u].swap \in Swaps /\ task[u].kind \in Kinds
      BY TaskTypes
    <2>4. ~(task[u].swap = s /\ task[u].kind = k)
      BY <1>1, <2>1 DEF Send, Sending, RailInv, HoldsRail
    <2> QED
      BY <1>5, <2>1, <2>2, <2>3, <2>4
  <1>8. ReservedFirst'
    BY <1>2, <1>3, <1>4 DEF RailInv, ReservedFirst
  <1>9. SentIsRecorded'
    <2> SUFFICES ASSUME NEW r \in Swaps, NEW j \in Kinds, sent'[r][j] > 0
                 PROVE  Outstanding(r, j)'
      BY DEF SentIsRecorded
    <2>1. CASE r = s /\ j = k
      BY <1>4, <1>6, <2>1 DEF Outstanding
    <2>2. CASE r # s \/ j # k
      BY <1>4, <1>5, <2>2 DEF RailInv, SentIsRecorded, Outstanding
    <2> QED
      BY <2>1, <2>2
  <1>10. AtMostOnce'
    BY <1>5, <1>6, SentType DEF RailInv, AtMostOnce, OnEvm
  <1>11. LedgerStep
    <2>1. UNCHANGED OnRecord
      BY <1>4 DEF OnRecord, Outstanding
    <2>2. <<s, k>> \in OnRecord /\ <<s, k>> \in Actionable
      BY <1>6 DEF OnRecord, Actionable, Outstanding
    <2>3. Broadcasts[<<s, k>>] = 0 \/ <<s, k>> \in {a \in Actionable : ~OnEvm(a[1], a[2])}
      BY <1>6, <2>2 DEF Broadcasts
    <2>4. Broadcasts' = [Broadcasts EXCEPT ![<<s, k>>] = @ + 1]
      <3>1. \A a \in Actionable : sent'[a[1]][a[2]] = IF a = <<s, k>> THEN sent[a[1]][a[2]] + 1 ELSE sent[a[1]][a[2]]
        BY <1>5 DEF Actionable
      <3>2. Broadcasts' = [a \in Actionable |-> IF a = <<s, k>> THEN Broadcasts[a] + 1 ELSE Broadcasts[a]]
        BY <3>1 DEF Broadcasts
      <3> QED
        BY <2>2, <3>2 DEF Broadcasts
    <2>5. Ledger!Broadcast(<<s, k>>)
      BY <2>1, <2>2, <2>3, <2>4 DEF Ledger!Broadcast
    <2> QED
      BY <2>2, <2>5 DEF LedgerStep, Ledger!Next
  <1> QED
    BY <1>3, <1>7, <1>8, <1>9, <1>10, <1>11 DEF RailInv

\* What ReleasesOnlyUnsent says of one step.
TrueRelease ==
    \A s \in Swaps, k \in Kinds : k \in meta[s].started /\ k \notin meta'[s].started => sent[s][k] = 0

\* A release finds no run between its reservation and its broadcast, for it holds
\* the rail's lock.
LEMMA ReleaseRailInv ==
    ASSUME TypeInv, RailInv, TrueRelease, NEW t \in Tasks, ReleaseReservation(t)
    PROVE  RailInv' /\ LedgerStep
  <1>1. UNCHANGED <<sent, execution>>
    BY DEF ReleaseReservation, chain, locks
  <1>2. task'[t].at = "forget" /\ \A u \in Tasks \ {t} : task'[u] = task[u]
    BY GoesFacts DEF ReleaseReservation, Place
  <1>3. CASE UNCHANGED meta
    <2>1. Quiet
      BY <1>1, <1>2, <1>3, AsideQuiet DEF Sending
    <2> QED
      BY <2>1, QuietRailInv, QuietLedger
  <1>4. CASE meta' # meta
    <2>0. PICK s \in Swaps : s = task[t].swap
      BY TaskTypes
    <2>1. PICK k : k = Record(t).attempt.action
      OBVIOUS
    <2>2. /\ k \notin meta[s].recorded /\ OnEvm(s, k)
          /\ meta' = [meta EXCEPT ![s].started = @ \ {k}]
      BY <1>4, <2>0, <2>1 DEF ReleaseReservation
    <2>3. /\ meta'[s].started = meta[s].started \ {k} /\ meta'[s].recorded = meta[s].recorded
          /\ \A r \in Swaps : r # s => meta'[r] = meta[r]
      <3> DEFINE new == [meta[s] EXCEPT !.started = @ \ {k}]
      <3>1. meta' = [meta EXCEPT ![s] = new]
        BY <2>2
      <3>2. meta[s] \in [started : SUBSET Kinds, recorded : SUBSET Kinds]
        BY DEF TypeInv, TypeOK
      <3>3. new.started = meta[s].started \ {k} /\ new.recorded = meta[s].recorded
        BY <3>2
      <3> HIDE DEF new
      <3> QED
        BY <3>1, <3>3 DEF TypeInv, TypeOK
    <2>4. k \in meta[s].started /\ k \in Kinds
      <3>1. CASE k \in meta[s].started
        BY <3>1, SentType, TaskTypes
      <3>2. CASE k \notin meta[s].started
        <4>1. meta[s].started \ {k} = meta[s].started
          BY <3>2
        <4>2. meta[s] \in [started : SUBSET Kinds, recorded : SUBSET Kinds] /\ meta \in [Swaps -> [started : SUBSET Kinds, recorded : SUBSET Kinds]]
          BY DEF TypeInv, TypeOK
        <4>3. [meta[s] EXCEPT !.started = @ \ {k}] = meta[s]
          BY <4>1, <4>2
        <4>4. meta' = [meta EXCEPT ![s] = [meta[s] EXCEPT !.started = @ \ {k}]]
          BY <2>2
        <4>5. meta' = meta
          BY <4>2, <4>3, <4>4
        <4> QED
          BY <1>4, <4>5
      <3> QED
        BY <3>1, <3>2
    <2>5. sent[s][k] = 0
      BY <2>3, <2>4 DEF TrueRelease
    <2>6. HoldsRail' /\ NotYetSent'
      BY <1>1, <1>2 DEF RailInv, HoldsRail, NotYetSent, Sending, RailLock, OnEvm
    <2>7. ReservedFirst'
      <3> SUFFICES ASSUME NEW u \in Tasks, task'[u].at = "send"
                   PROVE  task'[u].kind \in meta'[task'[u].swap].started
        BY DEF ReservedFirst
      <3>1. u # t /\ task'[u] = task[u]
        BY <1>2
      <3>2. task[u].kind \in meta[task[u].swap].started
        BY <3>1 DEF RailInv, ReservedFirst
      <3>3. execution[RailLock(task[u].swap, task[u].kind)] = u
        BY <3>1 DEF RailInv, HoldsRail, Sending
      <3>4. ~(task[u].swap = s /\ task[u].kind = k)
        BY <2>0, <2>1, <2>2, <3>3, TrackerAssumption DEF ReleaseReservation, RailLock
      <3> QED
        BY <2>3, <3>1, <3>2, <3>4, TaskTypes
    <2>8. /\ ~Outstanding(s, k)'
          /\ \A r \in Swaps, j \in Kinds : r # s \/ j # k => Outstanding(r, j)' = Outstanding(r, j)
      BY <2>2, <2>3 DEF Outstanding
    <2>9. SentIsRecorded' /\ AtMostOnce'
      BY <1>1, <2>5, <2>8 DEF RailInv, SentIsRecorded, AtMostOnce, OnEvm
    <2>10. LedgerStep
      <3>1. UNCHANGED Broadcasts
        BY <1>1 DEF Broadcasts
      <3>2. <<s, k>> \in Actionable
        BY <2>4 DEF Actionable
      <3>3. OnRecord' = OnRecord \ {<<s, k>>}
        BY <2>8 DEF OnRecord, Actionable
      <3>4. <<s, k>> \in OnRecord \ {a \in Actionable : ~OnEvm(a[1], a[2])}
        BY <2>2, <2>4, <3>2 DEF OnRecord, Outstanding
      <3>5. Broadcasts[<<s, k>>] = 0
        BY <2>5, <3>2 DEF Broadcasts
      <3>6. Ledger!Release(<<s, k>>)
        BY <3>1, <3>3, <3>4, <3>5 DEF Ledger!Release
      <3> QED
        BY <3>2, <3>6 DEF LedgerStep, Ledger!Next
    <2> QED
      BY <2>6, <2>7, <2>9, <2>10 DEF RailInv
  <1> QED
    BY <1>3, <1>4

LEMMA RailRailInv ==
    ASSUME TypeInv, RailInv, NEW t \in Tasks, Rail(t)
    PROVE  RailInv' /\ LedgerStep
  <1>1. CASE EnterRail(t)
    <2>1. PICK s \in Swaps, k \in Kinds : s = task[t].swap /\ k = task[t].kind
      BY TaskTypes
    <2>2. Enters(t, s, k)
      BY <1>1, <2>1 DEF EnterRail
    <2>3. /\ task'[t].at = "reserve" /\ task'[t].swap = s /\ task'[t].kind = k
          /\ \A u \in Tasks \ {t} : task'[u] = task[u]
      BY <1>1, <2>1, GoesFacts DEF EnterRail, Place
    <2> QED
      BY <2>2, <2>3, EntersRailInv
  <1>2. CASE FindOwnSpend(t) \/ Confirm(t) \/ FailRun(t)
    <2>1. Quiet
      BY <1>2, EndRunQuiet DEF FindOwnSpend, Confirm, FailRun
    <2> QED
      BY <2>1, QuietRailInv, QuietLedger
  <1> QED
    BY <1>1, <1>2, ReserveRailInv, SendRailInv, NoteHashRailInv DEF Rail

LEMMA RunByHandRailInv ==
    ASSUME TypeInv, RailInv, NEW t \in Tasks, NEW s \in Swaps, RunByHand(t, s)
    PROVE  RailInv' /\ LedgerStep
  <1>1. PICK k \in Kinds :
            /\ Enters(t, s, k)
            /\ task' = [task EXCEPT ![t] = [IdleTask EXCEPT !.at = "reserve", !.swap = s, !.kind = k]]
    BY DEF RunByHand, Manual
  <1> DEFINE m == [IdleTask EXCEPT !.at = "reserve", !.swap = s, !.kind = k]
  <1>2. m.at = "reserve" /\ m.swap = s /\ m.kind = k
    BY IdleTaskFacts DEF Task
  <1>3. task' = [task EXCEPT ![t] = m]
    BY <1>1
  <1> HIDE DEF m
  <1>4. /\ task'[t].at = "reserve" /\ task'[t].swap = s /\ task'[t].kind = k
        /\ \A u \in Tasks \ {t} : task'[u] = task[u]
    BY <1>2, <1>3 DEF TypeInv, TypeOK
  <1> QED
    BY <1>1, <1>4, EntersRailInv

LEMMA NextRailInv ==
    ASSUME TypeInv, RailInv, [Next]_vars, [TrueRelease]_vars
    PROVE  RailInv' /\ LedgerStep
  <1>1. CASE Quiet
    BY <1>1, QuietRailInv, QuietLedger
  <1>2. CASE UNCHANGED vars
    BY <1>1, <1>2 DEF Quiet, vars, durable, chain, locks
  <1>3. TrueRelease
    BY DEF TrueRelease, vars, durable
  <1>4. CASE Worker
    BY <1>1, <1>4, WorkerQuiet
  <1>5. ASSUME NEW t \in Tasks, Reconcile(t) \/ Disabling(t)
        PROVE  Quiet
    BY <1>5, ReconcileQuiet, DisablingQuiet
  <1>6. ASSUME NEW t \in Tasks, StorageFails(t) \/ DropCall(t)
        PROVE  Quiet
    BY <1>6, EndsQuiet DEF StorageFails, DropCall, durable, chain
  <1>7. ASSUME NEW t \in Tasks, Resolving(t)
        PROVE  RailInv' /\ LedgerStep
    <2>1. CASE ReleaseReservation(t)
      BY <1>3, <2>1, ReleaseRailInv
    <2> QED
      BY <1>1, <1>7, <2>1, ResolvingQuiet DEF Resolving
  <1>8. ASSUME NEW t \in Operators, NEW s \in Swaps, Call(t, s)
        PROVE  RailInv' /\ LedgerStep
    BY <1>1, <1>8, CallQuiet, RunByHandRailInv DEF Call, Tasks
  <1>9. ASSUME NEW t \in Operators, Restore(t)
        PROVE  Quiet
    <2>1. PICK s \in Swaps : TRUE
      BY TrackerAssumption
    <2> QED
      BY <1>9, <2>1, CallQuiet DEF Tasks
  <1>10. \A t \in Operators : t \in Tasks
    BY DEF Tasks
  <1>11. CASE Next
    BY <1>1, <1>4, <1>5, <1>6, <1>7, <1>8, <1>9, <1>10, <1>11, RailRailInv, EnvironmentQuiet, FaultQuiet DEF Next
  <1> QED
    BY <1>2, <1>11

-----------------------------------------------------------------------------
(* The theorems. *)

LEMMA Safely == Spec /\ ReleasesOnlyUnsent => []RailInv /\ [][LedgerStep]_vars
  <1>1. ReleasesOnlyUnsent => [][TrueRelease]_vars
    BY PTL DEF ReleasesOnlyUnsent, TrueRelease
  <1> QED
    BY <1>1, TypeInvariant, InitRailInv, NextRailInv, PTL DEF Spec

\* No claim and no funding on an EVM chain leaves the process twice, whatever
\* crashes, fails, races or is retried.
THEOREM SentAtMostOnce == Spec /\ ReleasesOnlyUnsent => []AtMostOnce
  <1>1. RailInv => AtMostOnce
    BY DEF RailInv
  <1> QED
    BY <1>1, Safely, PTL

\* Whatever left the process is on record in the store.
THEOREM SentStaysOnRecord == Spec /\ ReleasesOnlyUnsent => []SentIsRecorded
  <1>1. RailInv => SentIsRecorded
    BY DEF RailInv
  <1> QED
    BY <1>1, Safely, PTL

\* The tracker and its rails implement the submission journal.
THEOREM RefinesSubmission == Spec /\ ReleasesOnlyUnsent => ImplementsSubmission
  <1>1. Init => Ledger!Init
    BY DEF Init, Ledger!Init, OnRecord, Broadcasts, Outstanding, Actionable
  <1>2. TypeInv /\ RailInv /\ [Next]_vars /\ [TrueRelease]_vars => [Ledger!Next]_<<OnRecord, Broadcasts>>
    BY NextRailInv DEF LedgerStep
  <1>3. ReleasesOnlyUnsent => [][TrueRelease]_vars
    BY PTL DEF ReleasesOnlyUnsent, TrueRelease
  <1> QED
    BY <1>1, <1>2, <1>3, Safely, TypeInvariant, PTL DEF Spec, ImplementsSubmission, Ledger!Spec

-----------------------------------------------------------------------------
(***************************************************************************)
(* The journal says what the tracker acts on, for every number of swaps,   *)
(* tasks and faults, provided no resolution writes through an entry that   *)
(* was replaced (finding 1): the one check that update_options makes and   *)
(* resolve_attempt lacks.                                                  *)
(***************************************************************************)

\* A resolution that finds an attempt to settle finds its entry still enabled.
ResolvesOnlyEnabled ==
    [][\A t \in Tasks :
        (TakeAttempt(t) \/ AttestSent(t)) /\ Record(t).attempt # NoAttempt => Record(t).enabled]_vars

(***************************************************************************)
(* The inductive invariant.  Only the installed entry of a swap is enabled *)
(* and only it agrees with the journal, so that everybody who is about to  *)
(* write must be on it: those who hold its record, and those who hold      *)
(* registration, without which nothing is replaced.                        *)
(***************************************************************************)

EnabledIsInstalled == \A s \in Swaps, o \in Objects : record[s][o].enabled <=> installed[s] = o

JournalKept == \A s \in Tracked : journal[s] = record[s][installed[s]]

\* Places at which a task works on an entry that is not replaced.
Working == {"decide", "finish", "release", "forget", "untrackLock", "retireLock"}

OnItsEntry(t) ==
    /\ task[t].at \in Working \/ Automatic(t) => Record(t).enabled
    /\ task[t].at = "sweep" => ~Record(t).enabled
    /\ Automatic(t) =>
          /\ Record(t).attempt.action = task[t].kind /\ Record(t).attempt.state = "Running"
          /\ Permitted(Record(t), task[t].kind)

JournalInv == EnabledIsInstalled /\ JournalKept /\ \A t \in Tasks : OnItsEntry(t)

LEMMA BlankIsDisabled == ~BlankRecord.enabled
  BY DEF BlankRecord, NewRecord

LEMMA IdleOnItsEntry ==
    ASSUME NEW t, task[t] = IdleTask
    PROVE  OnItsEntry(t)
  BY IdleTaskFacts DEF OnItsEntry, Working, Automatic

LEMMA InitJournalInv == Init => JournalInv
  <1> SUFFICES ASSUME Init PROVE JournalInv
    OBVIOUS
  <1>1. \A t \in Tasks : OnItsEntry(t)
    BY IdleOnItsEntry DEF Init
  <1>2. EnabledIsInstalled
    BY BlankIsDisabled, TrackerAssumption DEF Init, NothingInstalled, BlankRecords, EnabledIsInstalled, Objects
  <1>3. JournalKept
    BY DEF Init, NothingInstalled, JournalKept, Tracked
  <1> QED
    BY <1>1, <1>2, <1>3 DEF JournalInv

\* What is true of one that has looked at the installed entry.
LEMMA EnabledFacts ==
    ASSUME TypeInv, JournalInv, NEW t \in Tasks, task[t].at \in EntryPlaces \/ Automatic(t), Record(t).enabled
    PROVE  /\ task[t].swap \in Tracked /\ task[t].object = installed[task[t].swap]
           /\ journal[task[t].swap] = Record(t)
  <1>1. task[t].swap \in Swaps /\ task[t].object \in Objects /\ task[t].object # 0
    BY EntryFacts
  <1>2. installed[task[t].swap] = task[t].object
    BY <1>1 DEF JournalInv, EnabledIsInstalled, Record
  <1> QED
    BY <1>1, <1>2 DEF JournalInv, JournalKept, Tracked, Record

\* What the run checks follows.
LEMMA JournalHolds ==
    ASSUME TypeInv, JournalInv
    PROVE  JournalTellsTruth /\ OptOutHolds /\ TrackedIsEnabled
  <1>1. ASSUME NEW t \in Tasks, Automatic(t)
        PROVE  /\ journal[task[t].swap] = Record(t) /\ Record(t) \in TrackingRecord
               /\ Record(t).attempt # NoAttempt
               /\ Record(t).attempt.action = task[t].kind /\ Record(t).attempt.state = "Running"
               /\ Permitted(Record(t), task[t].kind)
    BY <1>1, EnabledFacts, EntryFacts DEF JournalInv, OnItsEntry, TypeInv, RunHasAttempt
  <1>2. OptOutHolds
    BY <1>1 DEF OptOutHolds
  <1>3. \A s \in Tracked : journal[s] = record[s][installed[s]] /\ record[s][installed[s]].enabled
    BY TrackerAssumption DEF JournalInv, JournalKept, EnabledIsInstalled, Tracked, TypeInv, TypeOK, Objects
  <1>4. JournalTellsTruth
    BY <1>1, <1>3, TrackerAssumption DEF JournalTellsTruth, InState
  <1> QED
    BY <1>2, <1>3, <1>4 DEF TrackedIsEnabled

-----------------------------------------------------------------------------
(* Steps by what they do to the records. *)

\* Nothing is written, and one task moves.
LEMMA AsideJournal ==
    ASSUME TypeInv, JournalInv, NEW t \in Tasks, UNCHANGED <<journal, record, installed>>,
           \A u \in Tasks \ {t} : task'[u] = task[u], OnItsEntry(t)'
    PROVE  JournalInv'
  <1>1. \A u \in Tasks \ {t} : OnItsEntry(u)' = OnItsEntry(u)
    BY DEF OnItsEntry, Automatic, OnRail, Record
  <1>2. EnabledIsInstalled' /\ JournalKept'
    BY DEF JournalInv, EnabledIsInstalled, JournalKept, Tracked
  <1> QED
    BY <1>1, <1>2 DEF JournalInv

LEMMA TasksKeepJournal ==
    ASSUME JournalInv, UNCHANGED <<journal, record, installed, task>>
    PROVE  JournalInv'
  BY DEF JournalInv, EnabledIsInstalled, JournalKept, Tracked, OnItsEntry, Automatic, OnRail, Record

LEMMA EndsJournal ==
    ASSUME TypeInv, JournalInv, NEW t \in Tasks, Ends(t), UNCHANGED <<journal, record, installed>>
    PROVE  JournalInv'
  <1>1. OnItsEntry(t)'
    BY EndsFacts, IdleTaskFacts DEF OnItsEntry, Working, Automatic
  <1> QED
    BY <1>1, EndsFacts, AsideJournal

\* The entry a task works on is written, journal and memory alike: nobody else who
\* relies on more than its being enabled is on it.
LEMMA SaveJournal ==
    ASSUME TypeInv, JournalInv, NEW t \in Tasks, task[t].at \in EntryPlaces \/ Automatic(t),
           Record(t).enabled, holder[task[t].swap][task[t].object] \in {t, Free},
           NEW rec \in TrackingRecord, rec.enabled, Save(t, rec), UNCHANGED installed,
           \A u \in Tasks \ {t} : task'[u] = task[u], OnItsEntry(t)'
    PROVE  JournalInv'
  <1>1. /\ task[t].swap \in Tracked /\ task[t].object = installed[task[t].swap]
        /\ task[t].swap \in Swaps /\ task[t].object \in Objects /\ task[t].object # 0
    BY EnabledFacts, EntryFacts
  <1>2. /\ record' = [record EXCEPT ![task[t].swap][task[t].object] = rec]
        /\ journal' = [journal EXCEPT ![task[t].swap] = rec]
    BY DEF Save
  <1>7. /\ record'[task[t].swap][task[t].object] = rec
        /\ \A s \in Swaps, o \in Objects : s # task[t].swap \/ o # task[t].object => record'[s][o] = record[s][o]
    BY <1>1, <1>2, PutRecord DEF TypeInv, TypeOK
  <1>3. \A s \in Swaps, o \in Objects : record'[s][o].enabled <=> record[s][o].enabled
    BY <1>7 DEF Record
  <1>4. EnabledIsInstalled'
    BY <1>3 DEF JournalInv, EnabledIsInstalled
  <1>5. JournalKept'
    <2> SUFFICES ASSUME NEW s \in Tracked PROVE journal'[s] = record'[s][installed[s]]
      BY DEF JournalKept, Tracked
    <2>1. s \in Swaps /\ installed[s] \in Objects
      BY TrackerAssumption DEF Tracked, TypeInv, TypeOK, Objects
    <2>2. CASE s = task[t].swap
      BY <1>1, <1>2, <1>7, <2>2 DEF TypeInv, TypeOK
    <2>3. CASE s # task[t].swap
      BY <1>2, <1>7, <2>1, <2>3 DEF JournalInv, JournalKept, TypeInv, TypeOK
    <2> QED
      BY <2>2, <2>3
  <1>6. ASSUME NEW u \in Tasks \ {t}
        PROVE  OnItsEntry(u)'
    <2>1. Automatic(u)' = Automatic(u) /\ task'[u] = task[u]
      BY DEF Automatic, OnRail
    <2>2. CASE task[u].at \in RecordPlaces \/ Automatic(u)
      <3>1. /\ task[u].swap \in Swaps /\ task[u].object \in Objects
            /\ holder[task[u].swap][task[u].object] = u
        BY <2>2, EntryFacts DEF RecordPlaces, EntryPlaces
      <3>2. Record(u)' = Record(u)
        BY <1>7, <2>1, <3>1, TrackerAssumption DEF Record
      <3> QED
        BY <2>1, <3>2 DEF JournalInv, OnItsEntry
    <2>3. CASE task[u].at \in {"untrackLock", "retireLock"}
      <3>1. task[u].swap \in Swaps /\ task[u].object \in Objects /\ Record(u).enabled
        BY <2>3, EntryFacts DEF EntryPlaces, JournalInv, OnItsEntry, Working
      <3>2. Record(u)'.enabled
        BY <1>3, <2>1, <3>1 DEF Record
      <3>3. ~Automatic(u)
        BY <2>3 DEF Automatic, OnRail
      <3> QED
        BY <2>1, <2>3, <3>2, <3>3 DEF OnItsEntry
    <2>4. CASE task[u].at \notin RecordPlaces \union {"untrackLock", "retireLock"} /\ ~Automatic(u)
      BY <2>1, <2>4 DEF OnItsEntry, Working, RecordPlaces
    <2> QED
      BY <2>2, <2>3, <2>4
  <1> QED
    BY <1>4, <1>5, <1>6 DEF JournalInv

\* Steps of a task that write nothing and leave it at a place where nothing is owed.
LEMMA ElsewhereJournal ==
    ASSUME TypeInv, JournalInv, NEW t \in Tasks, UNCHANGED <<journal, record, installed>>,
           \A u \in Tasks \ {t} : task'[u] = task[u],
           task'[t].at \notin Working \union {"sweep"}, ~Automatic(t)'
    PROVE  JournalInv'
  BY AsideJournal DEF OnItsEntry

LEMMA LooksJournal ==
    ASSUME TypeInv, JournalInv, NEW t \in Tasks, NEW s \in Tracked, NEW place \in Place \ {"sweep"},
           Looks(t, s, place), UNCHANGED <<journal, record, installed>>, place \notin Sending, place # "enter"
    PROVE  JournalInv'
  <1>1. s \in Swaps /\ installed[s] \in Objects
    BY TrackerAssumption DEF Tracked, TypeInv, TypeOK, Objects
  <1> DEFINE moved == [IdleTask EXCEPT !.at = place, !.swap = s, !.object = installed[s]]
  <1>2. moved.at = place /\ moved.swap = s /\ moved.object = installed[s]
    BY IdleTaskFacts DEF Task
  <1>3. task' = [task EXCEPT ![t] = moved]
    BY DEF Looks
  <1> HIDE DEF moved
  <1>4. task'[t] = moved /\ \A u \in Tasks \ {t} : task'[u] = task[u]
    BY <1>3 DEF TypeInv, TypeOK
  <1>5. Record(t)'.enabled
    BY <1>1, <1>2, <1>4 DEF Record, JournalInv, EnabledIsInstalled
  <1>6. ~Automatic(t)'
    BY <1>2, <1>4 DEF Automatic, OnRail, Sending
  <1>7. OnItsEntry(t)'
    BY <1>2, <1>4, <1>5, <1>6 DEF OnItsEntry
  <1> QED
    BY <1>4, <1>7, AsideJournal

LEMMA CallJournal ==
    ASSUME TypeInv, JournalInv, NEW t \in Tasks, NEW s \in Swaps,
           \/ CallReconcile(t, s) \/ Untrack(t, s) \/ CallUpdateOptions(t, s)
           \/ CallProveUnsent(t, s) \/ CallAttestSent(t, s) \/ RunByHand(t, s)
    PROVE  JournalInv'
  <1> USE DEF durable, memory
  <1>1. CASE RunByHand(t, s)
    <2>1. PICK k \in Kinds :
              /\ Enters(t, s, k)
              /\ task' = [task EXCEPT ![t] = [IdleTask EXCEPT !.at = "reserve", !.swap = s, !.kind = k]]
      BY <1>1 DEF RunByHand, Manual
    <2> DEFINE m == [IdleTask EXCEPT !.at = "reserve", !.swap = s, !.kind = k]
    <2>2. m.at = "reserve" /\ m.object = 0
      BY IdleTaskFacts DEF Task
    <2>3. task' = [task EXCEPT ![t] = m]
      BY <2>1
    <2> HIDE DEF m
    <2>4. task'[t] = m /\ \A u \in Tasks \ {t} : task'[u] = task[u]
      BY <2>3 DEF TypeInv, TypeOK
    <2>5. task'[t].at \notin Working \union {"sweep"} /\ ~Automatic(t)'
      BY <2>2, <2>4 DEF Working, Automatic
    <2> QED
      BY <2>1, <2>4, <2>5, ElsewhereJournal DEF Enters
  <1>2. CASE ~RunByHand(t, s)
    <2>1. PICK place \in {"lock", "untrackLock", "options", "proveLock", "attestLock"} :
              Looks(t, s, place) /\ s \in Tracked
      BY <1>2 DEF CallReconcile, Untrack, CallUpdateOptions, CallProveUnsent, CallAttestSent
    <2>2. UNCHANGED <<journal, record, installed>>
      BY <1>2 DEF CallReconcile, Untrack, CallUpdateOptions, CallProveUnsent, CallAttestSent
    <2>3. place \in Place \ {"sweep"} /\ place \notin Sending /\ place # "enter"
      BY DEF Place, Sending
    <2> QED
      BY <2>1, <2>2, <2>3, LooksJournal
  <1> QED
    BY <1>1, <1>2

LEMMA WorkerJournal ==
    ASSUME TypeInv, JournalInv, Worker
    PROVE  JournalInv'
  <1> USE DEF durable, memory
  <1>1. CASE FullTick \/ RiskTick \/ WorkerWake
    BY <1>1, TasksKeepJournal DEF FullTick, RiskTick, WorkerWake, Refresh
  <1>2. ASSUME NEW t \in Slots, StartReconcile(t)
        PROVE  JournalInv'
    <2>1. PICK s \in batch : IF s \in Tracked THEN Looks(t, s, "lock") ELSE UNCHANGED task
      BY <1>2 DEF StartReconcile
    <2>2. UNCHANGED <<journal, record, installed>> /\ t \in Tasks
      BY <1>2 DEF StartReconcile, Tasks
    <2>3. "lock" \in Place \ {"sweep"} /\ "lock" \notin Sending
      BY DEF Place, Sending
    <2> QED
      BY <2>1, <2>2, <2>3, LooksJournal, TasksKeepJournal
  <1> QED
    BY <1>1, <1>2 DEF Worker

LEMMA EnvironmentJournal ==
    ASSUME JournalInv, NEW s \in Swaps, Environment(s)
    PROVE  JournalInv'
  BY TasksKeepJournal
     DEF Environment, Hint, HintStatus, DeadlinePasses, RetirePeriodPasses, ViewChanges, durable, memory

-----------------------------------------------------------------------------
(* Registration: a new entry takes the place of one that nobody works on. *)

LEMMA InstallJournal ==
    ASSUME TypeInv, JournalInv, NEW S \in SUBSET Swaps, NEW recs,
           \A s \in S : recs[s] \in TrackingRecord /\ recs[s].enabled, Install(S, recs)
    PROVE  JournalInv'
  <1>1. \A s \in S : NewObject(s) \in Fresh(s) /\ NewObject(s) \in Objects /\ NewObject(s) # 0
    BY NewObjectType DEF Install
  <1>2. \A s \in S : installed[s] = 0
    BY DEF Install, Tracked
  <1>3. /\ installed' = [s \in Swaps |-> IF s \in S THEN NewObject(s) ELSE installed[s]]
        /\ journal' = [s \in Swaps |-> IF s \in S THEN recs[s] ELSE journal[s]]
        /\ UNCHANGED task
    BY DEF Install
  <1>4. ASSUME NEW s \in Swaps, NEW o \in Objects
        PROVE  /\ s \notin S => record'[s][o] = record[s][o]
               /\ s \in S /\ o = NewObject(s) => record'[s][o] = recs[s]
               /\ s \in S /\ o # NewObject(s) => record'[s][o] \in {record[s][o], BlankRecord}
               /\ s \in S /\ o \notin Fresh(s) => record'[s][o] = record[s][o]
    BY <1>1 DEF Install
  <1>5. EnabledIsInstalled'
    <2> SUFFICES ASSUME NEW s \in Swaps, NEW o \in Objects
                 PROVE  record'[s][o].enabled <=> installed'[s] = o
      BY DEF EnabledIsInstalled
    <2>1. record[s][o].enabled <=> installed[s] = o
      BY DEF JournalInv, EnabledIsInstalled
    <2>2. CASE s \notin S
      BY <1>3, <1>4, <2>1, <2>2
    <2>3. CASE s \in S /\ o = NewObject(s)
      BY <1>3, <1>4, <2>3
    <2>4. CASE s \in S /\ o # NewObject(s)
      <3>1. ~record[s][o].enabled
        BY <1>2, <2>1, <2>4, TrackerAssumption DEF Objects
      <3> QED
        BY <1>3, <1>4, <2>4, <3>1, BlankIsDisabled
    <2> QED
      BY <2>2, <2>3, <2>4
  <1>6. JournalKept'
    <2> SUFFICES ASSUME NEW s \in Swaps, installed'[s] # 0
                 PROVE  journal'[s] = record'[s][installed'[s]]
      BY DEF JournalKept, Tracked
    <2>1. CASE s \in S
      BY <1>1, <1>3, <1>4, <2>1
    <2>2. CASE s \notin S
      <3>1. installed[s] \in Objects /\ s \in Tracked
        BY <1>3, <2>2, TrackerAssumption DEF TypeInv, TypeOK, Objects, Tracked
      <3> QED
        BY <1>3, <1>4, <2>2, <3>1 DEF JournalInv, JournalKept
    <2> QED
      BY <2>1, <2>2
  <1>7. ASSUME NEW t \in Tasks
        PROVE  OnItsEntry(t)'
    <2>1. Automatic(t)' = Automatic(t)
      BY <1>3 DEF Automatic, OnRail
    <2>2. CASE task[t].at \in EntryPlaces \/ Automatic(t)
      <3>1. task[t].swap \in Swaps /\ task[t].object \in Objects
        BY <2>2, EntryFacts
      <3>2. task[t].object \notin Fresh(task[t].swap)
        BY DEF Fresh
      <3>3. Record(t)' = Record(t)
        BY <1>3, <1>4, <3>1, <3>2 DEF Record
      <3> QED
        BY <1>3, <2>1, <3>3 DEF JournalInv, OnItsEntry
    <2>3. CASE task[t].at \notin EntryPlaces /\ ~Automatic(t)
      BY <1>3, <2>1, <2>3 DEF OnItsEntry, Working, EntryPlaces
    <2> QED
      BY <2>2, <2>3
  <1> QED
    BY <1>5, <1>6, <1>7 DEF JournalInv

LEMMA RegistrationJournal ==
    ASSUME TypeInv, JournalInv, NEW t \in Tasks, NEW s \in Swaps, TrackSwap(t, s) \/ Resume(t, s) \/ Restore(t)
    PROVE  JournalInv'
  <1>1. CASE TrackSwap(t, s)
    <2>1. PICK options \in Options : Install({s}, [r \in {s} |-> NewRecord(options)])
      BY <1>1 DEF TrackSwap
    <2>2. NewRecord(options) \in TrackingRecord /\ NewRecord(options).enabled
      BY DEF NewRecord, TrackingRecord
    <2> QED
      BY <2>1, <2>2, InstallJournal
  <1>2. CASE Resume(t, s)
    <2>1. journal[s] \in TrackingRecord
      BY <1>2 DEF Resume, TypeInv, TypeOK
    <2> DEFINE new == [journal[s] EXCEPT !.enabled = TRUE, !.completed = FALSE]
    <2>2. new \in TrackingRecord
      BY <2>1 DEF TrackingRecord
    <2>3. new.enabled
      BY <2>1 DEF TrackingRecord
    <2>4. Install({s}, [r \in {s} |-> new])
      BY <1>2 DEF Resume
    <2> HIDE DEF new
    <2> QED
      BY <2>2, <2>3, <2>4, InstallJournal
  <1>3. CASE Restore(t)
    <2>1. PICK S \in SUBSET Restorable : Install(S, journal)
      BY <1>3 DEF Restore
    <2>2. \A r \in S : journal[r] \in TrackingRecord /\ journal[r].enabled
      BY <2>1 DEF Restorable, TypeInv, TypeOK
    <2>3. S \in SUBSET Swaps
      BY <2>1 DEF Restorable
    <2> QED
      BY <2>1, <2>2, <2>3, InstallJournal
  <1> QED
    BY <1>1, <1>2, <1>3

-----------------------------------------------------------------------------
(* reconcile and the rails *)

LEMMA LockRecordJournal ==
    ASSUME TypeInv, JournalInv, NEW t \in Tasks, LockRecord(t)
    PROVE  JournalInv'
  <1> USE DEF durable, memory
  <1>1. CASE Record(t).enabled
    <2>1. task[t] \in Task /\ task \in [Tasks -> Task]
      BY DEF TypeInv, TypeOK
    <2> DEFINE m == [task[t] EXCEPT !.at = "decide",
                     !.seen = [view |-> view[task[t].swap], status |-> hinted[task[t].swap][task[t].object]]]
    <2>2. m.at = "decide" /\ m.swap = task[t].swap /\ m.object = task[t].object
      BY <2>1 DEF Task
    <2>3. task' = [task EXCEPT ![t] = m]
      BY <1>1, <2>1 DEF LockRecord
    <2> HIDE DEF m
    <2>4. task'[t] = m /\ \A u \in Tasks \ {t} : task'[u] = task[u]
      BY <2>1, <2>3
    <2>5. UNCHANGED <<journal, record, installed>>
      BY DEF LockRecord
    <2>6. Record(t)' = Record(t) /\ ~Automatic(t)'
      BY <2>2, <2>4, <2>5 DEF Record, Automatic, OnRail
    <2>7. OnItsEntry(t)'
      BY <1>1, <2>2, <2>4, <2>6 DEF OnItsEntry
    <2> QED
      BY <2>4, <2>5, <2>7, AsideJournal
  <1>2. CASE ~Record(t).enabled
    BY <1>2, EndsJournal DEF LockRecord
  <1> QED
    BY <1>1, <1>2

LEMMA BeginAttemptJournal ==
    ASSUME TypeInv, JournalInv, NEW t \in Tasks, BeginAttempt(t)
    PROVE  JournalInv'
  <1>1. /\ task[t].swap \in Swaps /\ task[t].object \in Objects /\ task[t].object # 0
        /\ Record(t) \in TrackingRecord
        /\ holder[task[t].swap][task[t].object] = t
        /\ task[t].at = "decide" /\ Record(t).enabled
    BY EntryFacts DEF BeginAttempt, EntryPlaces, RecordPlaces, JournalInv, OnItsEntry, Working
  <1>2. Derived(t) \in Kinds /\ Permitted(Record(t), Derived(t))
    BY DEF BeginAttempt, RunsNow, Permitted, Kinds
  <1> DEFINE count == NextCount(task[t].swap, Record(t).attempt, Derived(t))
             run == [action |-> Derived(t), state |-> "Running", count |-> count]
             rec == [Record(t) EXCEPT !.attempt = run]
  <1>3. count \in 1 .. MaxAttempts
    BY <1>1, <1>2, NextCountType DEF BeginAttempt, RunsNow, TrackingRecord
  <1>4. run \in Attempt /\ run.action = Derived(t) /\ run.state = "Running"
    BY <1>2, <1>3 DEF Attempt, AttemptState
  <1> HIDE DEF count, run
  <1>5. rec \in TrackingRecord
    BY <1>1, <1>4 DEF TrackingRecord
  <1>6. rec.attempt = run /\ rec.enabled /\ rec.options = Record(t).options
    BY <1>1 DEF TrackingRecord
  <1>7. Save(t, rec) /\ UNCHANGED installed
    BY DEF BeginAttempt, run, count
  <1> HIDE DEF rec
  <1> DEFINE m == [task[t] EXCEPT !.at = "enter", !.kind = Derived(t), !.seen.view = IdleTask.seen.view]
  <1>8. task[t] \in Task /\ task \in [Tasks -> Task]
    BY DEF TypeInv, TypeOK
  <1>9. m.at = "enter" /\ m.swap = task[t].swap /\ m.object = task[t].object /\ m.kind = Derived(t)
    BY <1>8 DEF Task
  <1>10. task' = [task EXCEPT ![t] = m]
    BY DEF BeginAttempt
  <1> HIDE DEF m
  <1>11. task'[t] = m /\ \A u \in Tasks \ {t} : task'[u] = task[u]
    BY <1>8, <1>10
  <1>12. Record(t)' = rec
    BY <1>1, <1>5, <1>7, <1>9, <1>11, SaveFacts DEF Record
  <1>13. Permitted(rec, Derived(t))
    BY <1>2, <1>6 DEF Permitted
  <1>14. OnItsEntry(t)'
    BY <1>4, <1>6, <1>9, <1>11, <1>12, <1>13 DEF OnItsEntry, Permitted
  <1> QED
    BY <1>1, <1>5, <1>6, <1>7, <1>11, <1>14, SaveJournal DEF EntryPlaces

LEMMA ConcludeJournal ==
    ASSUME TypeInv, JournalInv, NEW t \in Tasks, Conclude(t)
    PROVE  JournalInv'
  <1>1. /\ Record(t) \in TrackingRecord
        /\ holder[task[t].swap][task[t].object] = t
        /\ task[t].at \in {"decide", "finish"} /\ Record(t).enabled
    BY EntryFacts DEF Conclude, EntryPlaces, RecordPlaces, JournalInv, OnItsEntry, Working
  <1> DEFINE ended == Terminal(Record(t), Derived(t))
             next == Concluded(t)
  <1>2. ended \in BOOLEAN /\ task[t].seen.status \in Hints \union {NoStatus}
    BY DEF Terminal, TypeInv, TypeOK, Task, Seen
  <1> HIDE DEF ended
  <1>3. next \in TrackingRecord /\ next.enabled
    BY <1>1, <1>2 DEF Concluded, TrackingRecord, ended
  <1>4. Save(t, next) /\ UNCHANGED installed
    BY DEF Conclude
  <1>5. task' = [task EXCEPT ![t] = IdleTask]
        \/ task' = [task EXCEPT ![t] = [IdleTask EXCEPT !.at = "retire", !.swap = task[t].swap]]
    BY DEF Conclude
  <1> HIDE DEF next
  <1> DEFINE m == [IdleTask EXCEPT !.at = "retire", !.swap = task[t].swap]
  <1>6. m.at = "retire"
    BY IdleTaskFacts DEF Task
  <1>7. task' = [task EXCEPT ![t] = IdleTask] \/ task' = [task EXCEPT ![t] = m]
    BY <1>5
  <1> HIDE DEF m
  <1>8. task'[t].at \in {"idle", "retire"} /\ \A u \in Tasks \ {t} : task'[u] = task[u]
    BY <1>6, <1>7, IdleTaskFacts DEF TypeInv, TypeOK
  <1>9. OnItsEntry(t)'
    BY <1>8 DEF OnItsEntry, Working, Automatic, OnRail
  <1> QED
    BY <1>1, <1>3, <1>4, <1>8, <1>9, SaveJournal DEF EntryPlaces

LEMMA EndRunJournal ==
    ASSUME TypeInv, JournalInv, NEW t \in Tasks, OnRail(t), NEW state \in AttemptState, EndRun(t, state)
    PROVE  JournalInv'
  <1>0. task[t] \in Task /\ task \in [Tasks -> Task] /\ UNCHANGED installed
    BY DEF TypeInv, TypeOK, EndRun
  <1>1. CASE task[t].object = 0
    <2>1. task' = [task EXCEPT ![t] = IdleTask] /\ UNCHANGED <<journal, record>>
      BY <1>1 DEF EndRun
    <2>2. task'[t].at = "idle" /\ \A u \in Tasks \ {t} : task'[u] = task[u]
      BY <1>0, <2>1, IdleTaskFacts
    <2>3. task'[t].at \notin Working \union {"sweep"} /\ ~Automatic(t)'
      BY <2>2 DEF Working, Automatic, OnRail
    <2> QED
      BY <1>0, <2>1, <2>2, <2>3, ElsewhereJournal
  <1>2. CASE task[t].object # 0
    <2>1. Automatic(t)
      BY <1>2 DEF Automatic
    <2>2. /\ task[t].swap \in Swaps /\ task[t].object \in Objects
          /\ Record(t) \in TrackingRecord /\ Record(t).enabled
          /\ holder[task[t].swap][task[t].object] = t
      BY <2>1, EntryFacts DEF JournalInv, OnItsEntry
    <2>3. Record(t).attempt \in Attempt
      BY <2>1, <2>2 DEF TypeInv, RunHasAttempt, TrackingRecord
    <2> DEFINE rec == [Record(t) EXCEPT !.attempt.state = state]
    <2>4. rec \in TrackingRecord
      BY <2>2, <2>3 DEF TrackingRecord, Attempt
    <2>5. rec.enabled
      BY <2>2 DEF TrackingRecord
    <2>6. Save(t, rec)
      BY <1>2 DEF EndRun
    <2> HIDE DEF rec
    <2> DEFINE m == [task[t] EXCEPT !.at = "finish", !.seen.view = view[task[t].swap]]
    <2>7. m.at = "finish" /\ m.swap = task[t].swap /\ m.object = task[t].object
      BY <1>0 DEF Task
    <2>8. task' = [task EXCEPT ![t] = m]
      BY <1>2 DEF EndRun
    <2> HIDE DEF m
    <2>9. task'[t] = m /\ \A u \in Tasks \ {t} : task'[u] = task[u]
      BY <1>0, <2>8
    <2>10. Record(t)' = rec
      BY <2>2, <2>4, <2>6, <2>7, <2>9, SaveFacts DEF Record
    <2>11. OnItsEntry(t)'
      BY <2>5, <2>7, <2>9, <2>10 DEF OnItsEntry, Automatic, OnRail
    <2> QED
      BY <1>0, <2>1, <2>2, <2>4, <2>5, <2>6, <2>9, <2>11, SaveJournal
  <1> QED
    BY <1>1, <1>2

LEMMA RailJournal ==
    ASSUME TypeInv, JournalInv, NEW t \in Tasks, Rail(t)
    PROVE  JournalInv'
  <1> USE DEF durable, memory
  <1>1. OnRail(t)
    BY DEF Rail, EnterRail, FindOwnSpend, Reserve, Send, NoteHash, Confirm, FailRun, OnRail
  <1>2. CASE EnterRail(t) \/ Reserve(t) \/ Send(t) \/ NoteHash(t)
    <2>1. PICK place \in {"reserve", "send", "note", "confirm"} : Goes(t, place)
      BY <1>2 DEF EnterRail, Reserve, Send, NoteHash
    <2>2. UNCHANGED <<journal, record, installed>>
      BY <1>2 DEF EnterRail, Enters, Reserve, Send, NoteHash
    <2>3. place \in Place
      BY DEF Place
    <2>4. /\ task'[t].at = place /\ task'[t].swap = task[t].swap /\ task'[t].object = task[t].object
          /\ task'[t].kind = task[t].kind
          /\ \A u \in Tasks \ {t} : task'[u] = task[u]
      BY <2>1, <2>3, GoesFacts
    <2>5. Automatic(t)' => Automatic(t)
      BY <1>1, <2>4 DEF Automatic
    <2>6. Record(t)' = Record(t)
      BY <2>2, <2>4 DEF Record
    <2>7. task'[t].at \notin Working \union {"sweep"}
      BY <2>4 DEF Working
    <2>8. OnItsEntry(t)'
      BY <2>4, <2>5, <2>6, <2>7 DEF JournalInv, OnItsEntry, Permitted
    <2> QED
      BY <2>2, <2>4, <2>8, AsideJournal
  <1>3. CASE FindOwnSpend(t) \/ Confirm(t) \/ FailRun(t)
    <2>1. PICK state \in AttemptState : EndRun(t, state)
      BY <1>3 DEF FindOwnSpend, Confirm, FailRun, AttemptState
    <2> QED
      BY <1>1, <2>1, EndRunJournal
  <1> QED
    BY <1>2, <1>3 DEF Rail

-----------------------------------------------------------------------------
(* disable, the calls on a record, and what ends tasks *)

\* Registration is held, so nobody else is about to disable what is disabled here.
LEMMA DisableJournal ==
    ASSUME TypeInv, WatchInv, JournalInv, NEW t \in Tasks, Disable(t)
    PROVE  JournalInv'
  <1>1. /\ task[t].swap \in Swaps /\ task[t].object \in Objects /\ task[t].object # 0
        /\ Record(t) \in TrackingRecord
        /\ task[t].at \in {"untrackLock", "retireLock"} /\ Record(t).enabled
        /\ holder[task[t].swap][task[t].object] = Free
    BY EntryFacts DEF Disable, TakeRecord, LockFree, EntryPlaces, JournalInv, OnItsEntry, Working
  <1>2. installed[task[t].swap] = task[t].object
    BY <1>1, EnabledFacts DEF EntryPlaces
  <1> DEFINE rec == [Record(t) EXCEPT !.enabled = FALSE]
  <1>3. rec \in TrackingRecord
    BY <1>1 DEF TrackingRecord
  <1>4. ~rec.enabled
    BY <1>1 DEF TrackingRecord
  <1>5. /\ record' = [record EXCEPT ![task[t].swap][task[t].object] = rec]
        /\ journal' = [journal EXCEPT ![task[t].swap] = rec]
        /\ installed' = [installed EXCEPT ![task[t].swap] = 0]
        /\ Goes(t, "sweep")
    BY DEF Disable, Save
  <1> HIDE DEF rec
  <1>6. /\ record'[task[t].swap][task[t].object] = rec
        /\ \A s \in Swaps, o \in Objects : s # task[t].swap \/ o # task[t].object => record'[s][o] = record[s][o]
    BY <1>1, <1>3, <1>5, PutRecord DEF TypeInv, TypeOK
  <1>7. /\ task'[t].at = "sweep" /\ task'[t].swap = task[t].swap /\ task'[t].object = task[t].object
        /\ \A u \in Tasks \ {t} : task'[u] = task[u]
    BY <1>5, GoesFacts DEF Place
  <1>8. installed'[task[t].swap] = 0 /\ \A s \in Swaps : s # task[t].swap => installed'[s] = installed[s]
    BY <1>1, <1>5 DEF TypeInv, TypeOK
  <1>9. EnabledIsInstalled'
    <2> SUFFICES ASSUME NEW s \in Swaps, NEW o \in Objects
                 PROVE  record'[s][o].enabled <=> installed'[s] = o
      BY DEF EnabledIsInstalled
    <2>1. o # 0
      BY TrackerAssumption DEF Objects
    <2>2. record[s][o].enabled <=> installed[s] = o
      BY DEF JournalInv, EnabledIsInstalled
    <2> QED
      BY <1>2, <1>4, <1>6, <1>8, <2>1, <2>2
  <1>10. JournalKept'
    <2> SUFFICES ASSUME NEW s \in Swaps, installed'[s] # 0
                 PROVE  journal'[s] = record'[s][installed'[s]]
      BY DEF JournalKept, Tracked
    <2>1. s # task[t].swap /\ installed'[s] = installed[s] /\ s \in Tracked
      BY <1>8 DEF Tracked
    <2>2. installed[s] \in Objects
      BY <2>1, TrackerAssumption DEF Tracked, TypeInv, TypeOK, Objects
    <2> QED
      BY <1>5, <1>6, <2>1, <2>2 DEF JournalInv, JournalKept, TypeInv, TypeOK
  <1>11. ASSUME NEW u \in Tasks \ {t}
         PROVE  OnItsEntry(u)'
    <2>1. Automatic(u)' = Automatic(u) /\ task'[u] = task[u]
      BY <1>7 DEF Automatic, OnRail
    <2>2. task[u].at \notin {"untrackLock", "retireLock"}
      BY <1>1 DEF WatchInv, HoldsRegistration, Registering
    <2>3. CASE task[u].at \in RecordPlaces \/ Automatic(u)
      <3>1. /\ task[u].swap \in Swaps /\ task[u].object \in Objects
            /\ holder[task[u].swap][task[u].object] = u
        BY <2>3, EntryFacts DEF RecordPlaces, EntryPlaces
      <3>2. Record(u)' = Record(u)
        BY <1>1, <1>6, <2>1, <3>1, TrackerAssumption DEF Record
      <3> QED
        BY <2>1, <3>2 DEF JournalInv, OnItsEntry
    <2>4. CASE task[u].at \notin RecordPlaces /\ ~Automatic(u)
      BY <2>1, <2>2, <2>4 DEF OnItsEntry, Working, RecordPlaces
    <2> QED
      BY <2>3, <2>4
  <1>12. OnItsEntry(t)'
    BY <1>4, <1>6, <1>7 DEF OnItsEntry, Working, Automatic, OnRail, Record
  <1> QED
    BY <1>9, <1>10, <1>11, <1>12 DEF JournalInv

LEMMA UnregisterJournal ==
    ASSUME TypeInv, JournalInv, NEW t \in Tasks, UnregisterUnused(t)
    PROVE  JournalInv'
  <1> USE DEF durable
  <1>1. CASE UNCHANGED record
    BY <1>1, EndsJournal DEF UnregisterUnused
  <1>2. CASE ~UNCHANGED record
    <2>1. /\ record' = [record EXCEPT ![task[t].swap][task[t].object] = BlankRecord]
          /\ \A u \in Tasks \ {t} : task[u].swap # task[t].swap \/ task[u].object # task[t].object
          /\ Ends(t) /\ UNCHANGED <<journal, installed>>
          /\ task[t].at = "sweep"
      BY <1>2 DEF UnregisterUnused
    <2>2. task[t].swap \in Swaps /\ task[t].object \in Objects /\ ~Record(t).enabled
      BY <2>1, EntryFacts DEF EntryPlaces, JournalInv, OnItsEntry
    <2>3. /\ record'[task[t].swap][task[t].object] = BlankRecord
          /\ \A s \in Swaps, o \in Objects : s # task[t].swap \/ o # task[t].object => record'[s][o] = record[s][o]
      BY <2>1, <2>2, BlankRecordType, PutRecord DEF TypeInv, TypeOK
    <2>4. installed[task[t].swap] # task[t].object
      BY <2>2 DEF JournalInv, EnabledIsInstalled, Record
    <2>5. EnabledIsInstalled'
      BY <2>1, <2>3, <2>4, BlankIsDisabled DEF JournalInv, EnabledIsInstalled
    <2>6. JournalKept'
      <3> SUFFICES ASSUME NEW s \in Tracked PROVE journal[s] = record'[s][installed[s]]
        BY <2>1 DEF JournalKept, Tracked
      <3>1. s \in Swaps /\ installed[s] \in Objects
        BY TrackerAssumption DEF Tracked, TypeInv, TypeOK, Objects
      <3> QED
        BY <2>3, <2>4, <3>1 DEF JournalInv, JournalKept
    <2>7. ASSUME NEW u \in Tasks \ {t}
          PROVE  OnItsEntry(u)'
      <3>1. task'[u] = task[u] /\ Automatic(u)' = Automatic(u)
        BY <2>1, EndsFacts DEF Automatic, OnRail
      <3>2. CASE task[u].at \in EntryPlaces \/ Automatic(u)
        <4>1. task[u].swap \in Swaps /\ task[u].object \in Objects
          BY <3>2, EntryFacts
        <4>2. Record(u)' = Record(u)
          BY <2>1, <2>3, <3>1, <4>1 DEF Record
        <4> QED
          BY <3>1, <4>2 DEF JournalInv, OnItsEntry
      <3>3. CASE task[u].at \notin EntryPlaces /\ ~Automatic(u)
        BY <3>1, <3>3 DEF OnItsEntry, Working, EntryPlaces
      <3> QED
        BY <3>2, <3>3
    <2>8. OnItsEntry(t)'
      BY <2>1, EndsFacts, IdleTaskFacts DEF OnItsEntry, Working, Automatic
    <2> QED
      BY <2>5, <2>6, <2>7, <2>8 DEF JournalInv
  <1> QED
    BY <1>1, <1>2

LEMMA DisablingJournal ==
    ASSUME TypeInv, WatchInv, JournalInv, NEW t \in Tasks, Disabling(t)
    PROVE  JournalInv'
  <1> USE DEF durable, memory
  <1>1. CASE Retire(t)
    <2>1. CASE task[t].swap \in Tracked
      <3>1. "retireLock" \in Place \ {"sweep"} /\ "retireLock" \notin Sending
        BY DEF Place, Sending
      <3> QED
        BY <1>1, <2>1, <3>1, LooksJournal DEF Retire
    <2>2. CASE task[t].swap \notin Tracked
      BY <1>1, <2>2, EndsJournal DEF Retire
    <2> QED
      BY <2>1, <2>2
  <1>2. CASE SpareUnsettled(t)
    BY <1>2, EndsJournal DEF SpareUnsettled
  <1>3. CASE SweepOne(t)
    BY <1>3, TasksKeepJournal DEF SweepOne
  <1> QED
    BY <1>1, <1>2, <1>3, DisableJournal, UnregisterJournal DEF Disabling

\* A call ends with the write of its entry.
LEMMA WritesJournal ==
    ASSUME TypeInv, JournalInv, NEW t \in Tasks, task[t].at \in EntryPlaces,
           Record(t).enabled, holder[task[t].swap][task[t].object] \in {t, Free},
           NEW rec \in TrackingRecord, rec.enabled, Save(t, rec), Ends(t), UNCHANGED installed
    PROVE  JournalInv'
  <1>1. OnItsEntry(t)' /\ \A u \in Tasks \ {t} : task'[u] = task[u]
    BY EndsFacts, IdleTaskFacts DEF OnItsEntry, Working, Automatic
  <1> QED
    BY <1>1, SaveJournal

LEMMA ResolvingJournal ==
    ASSUME TypeInv, JournalInv, NEW t \in Tasks, Resolving(t),
           (TakeAttempt(t) \/ AttestSent(t)) /\ Record(t).attempt # NoAttempt => Record(t).enabled
    PROVE  JournalInv'
  <1> USE DEF durable, memory
  <1>1. /\ task[t].at \in EntryPlaces
        /\ Record(t) \in TrackingRecord
        /\ task[t].at \in RecordPlaces => holder[task[t].swap][task[t].object] = t
    BY EntryFacts
       DEF Resolving, UpdateOptions, TakeAttempt, ReleaseReservation, ForgetAttempt, AttestSent, EntryPlaces
  <1>2. CASE UpdateOptions(t)
    <2>1. CASE Record(t).enabled
      <3>1. PICK options \in Options : Save(t, [Record(t) EXCEPT !.options = options])
        BY <1>2, <2>1 DEF UpdateOptions
      <3> DEFINE rec == [Record(t) EXCEPT !.options = options]
      <3>2. rec \in TrackingRecord
        BY <1>1 DEF TrackingRecord
      <3>3. rec.enabled
        BY <1>1, <2>1 DEF TrackingRecord
      <3>4. Save(t, rec)
        BY <3>1
      <3> HIDE DEF rec
      <3> QED
        BY <1>1, <1>2, <2>1, <3>2, <3>3, <3>4, WritesJournal DEF UpdateOptions, LockFree
    <2>2. CASE ~Record(t).enabled
      BY <1>2, <2>2, EndsJournal DEF UpdateOptions
    <2> QED
      BY <2>1, <2>2
  <1>3. CASE TakeAttempt(t)
    <2>1. CASE Record(t).attempt # NoAttempt
      <3>1. Goes(t, "release") /\ UNCHANGED <<journal, record, installed>> /\ Record(t).enabled
        BY <1>3, <2>1 DEF TakeAttempt
      <3>2. "release" \in Place
        BY DEF Place
      <3>3. /\ task'[t].at = "release" /\ task'[t].swap = task[t].swap /\ task'[t].object = task[t].object
            /\ \A u \in Tasks \ {t} : task'[u] = task[u]
        BY <3>1, <3>2, GoesFacts
      <3>4. OnItsEntry(t)'
        BY <3>1, <3>3 DEF OnItsEntry, Automatic, OnRail, Record
      <3> QED
        BY <3>1, <3>3, <3>4, AsideJournal
    <2>2. CASE Record(t).attempt = NoAttempt
      BY <1>3, <2>2, EndsJournal DEF TakeAttempt
    <2> QED
      BY <2>1, <2>2
  <1>4. CASE ReleaseReservation(t)
    <2>1. /\ task[t].at = "release" /\ Goes(t, "forget") /\ UNCHANGED <<journal, record, installed>>
          /\ Record(t).enabled
      BY <1>4 DEF ReleaseReservation, JournalInv, OnItsEntry, Working
    <2>2. "forget" \in Place
      BY DEF Place
    <2>3. /\ task'[t].at = "forget" /\ task'[t].swap = task[t].swap /\ task'[t].object = task[t].object
          /\ \A u \in Tasks \ {t} : task'[u] = task[u]
      BY <2>1, <2>2, GoesFacts
    <2>4. OnItsEntry(t)'
      BY <2>1, <2>3 DEF OnItsEntry, Automatic, OnRail, Record
    <2> QED
      BY <2>1, <2>3, <2>4, AsideJournal
  <1>5. CASE ForgetAttempt(t)
    <2> DEFINE rec == [Record(t) EXCEPT !.attempt = NoAttempt]
    <2>1. rec \in TrackingRecord
      BY <1>1 DEF TrackingRecord
    <2>2. Record(t).enabled /\ holder[task[t].swap][task[t].object] = t
      BY <1>1, <1>5 DEF ForgetAttempt, RecordPlaces, JournalInv, OnItsEntry, Working
    <2>3. rec.enabled
      BY <1>1, <2>2 DEF TrackingRecord
    <2>4. Save(t, rec)
      BY <1>5 DEF ForgetAttempt
    <2> HIDE DEF rec
    <2> QED
      BY <1>1, <1>5, <2>1, <2>2, <2>3, <2>4, WritesJournal DEF ForgetAttempt
  <1>6. CASE AttestSent(t)
    <2>1. CASE Record(t).attempt # NoAttempt
      <3>1. Record(t).attempt \in Attempt /\ Record(t).enabled
        BY <1>1, <1>6, <2>1 DEF TrackingRecord
      <3> DEFINE rec == [Record(t) EXCEPT !.attempt.state = "Submitted"]
      <3>2. rec \in TrackingRecord
        BY <1>1, <3>1 DEF TrackingRecord, Attempt, AttemptState
      <3>3. rec.enabled
        BY <1>1, <3>1 DEF TrackingRecord
      <3>4. Save(t, rec)
        BY <1>6, <2>1 DEF AttestSent
      <3> HIDE DEF rec
      <3> QED
        BY <1>1, <1>6, <3>1, <3>2, <3>3, <3>4, WritesJournal DEF AttestSent, LockFree
    <2>2. CASE Record(t).attempt = NoAttempt
      BY <1>6, <2>2, EndsJournal DEF AttestSent
    <2> QED
      BY <2>1, <2>2
  <1> QED
    BY <1>2, <1>3, <1>4, <1>5, <1>6 DEF Resolving

LEMMA FaultJournal ==
    ASSUME TypeInv, JournalInv, DropWorker \/ Crash
    PROVE  JournalInv'
  <1>1. CASE DropWorker
    <2>1. UNCHANGED <<journal, record, installed>> /\ \A u \in Tasks : task'[u] = task[u] \/ task'[u] = IdleTask
      BY <1>1 DEF DropWorker, durable, memory
    <2>2. EnabledIsInstalled' /\ JournalKept'
      BY <2>1 DEF JournalInv, EnabledIsInstalled, JournalKept, Tracked
    <2>3. ASSUME NEW u \in Tasks
          PROVE  OnItsEntry(u)'
      <3>1. CASE task'[u] = task[u]
        BY <2>1, <3>1 DEF JournalInv, OnItsEntry, Automatic, OnRail, Record
      <3>2. CASE task'[u] = IdleTask
        BY <3>2, IdleTaskFacts DEF OnItsEntry, Working, Automatic
      <3> QED
        BY <2>1, <3>1, <3>2
    <2> QED
      BY <2>2, <2>3 DEF JournalInv
  <1>2. CASE Crash
    <2>1. EnabledIsInstalled'
      BY <1>2, BlankIsDisabled, TrackerAssumption
         DEF Crash, NothingInstalled, BlankRecords, EnabledIsInstalled, Objects
    <2>2. JournalKept'
      BY <1>2 DEF Crash, NothingInstalled, JournalKept, Tracked
    <2>3. \A u \in Tasks : OnItsEntry(u)'
      BY <1>2, IdleTaskFacts DEF Crash, OnItsEntry, Working, Automatic
    <2> QED
      BY <2>1, <2>2, <2>3 DEF JournalInv
  <1> QED
    BY <1>1, <1>2

-----------------------------------------------------------------------------
(* The theorems. *)

EnabledStep ==
    \A t \in Tasks :
        (TakeAttempt(t) \/ AttestSent(t)) /\ Record(t).attempt # NoAttempt => Record(t).enabled

LEMMA NextJournalInv ==
    ASSUME TypeInv, WatchInv, JournalInv, [Next]_vars, [EnabledStep]_vars
    PROVE  JournalInv'
  <1>1. CASE UNCHANGED vars
    BY <1>1, TasksKeepJournal DEF vars, durable, memory
  <1>2. CASE Next /\ EnabledStep
    <2>1. CASE Worker
      BY <2>1, WorkerJournal
    <2>2. ASSUME NEW t \in Tasks, Reconcile(t)
          PROVE  JournalInv'
      BY <2>2, LockRecordJournal, BeginAttemptJournal, ConcludeJournal DEF Reconcile
    <2>3. ASSUME NEW t \in Tasks, Resolving(t)
          PROVE  JournalInv'
      BY <1>2, <2>3, ResolvingJournal DEF EnabledStep
    <2>4. ASSUME NEW t \in Tasks, StorageFails(t) \/ DropCall(t)
          PROVE  JournalInv'
      BY <2>4, EndsJournal DEF StorageFails, DropCall, durable, memory
    <2>5. ASSUME NEW t \in Tasks, NEW s \in Swaps, Call(t, s)
          PROVE  JournalInv'
      BY <2>5, RegistrationJournal, CallJournal DEF Call
    <2>6. ASSUME NEW t \in Tasks, Restore(t)
          PROVE  JournalInv'
      BY <2>6, RegistrationJournal, TrackerAssumption
    <2>7. Operators \subseteq Tasks
      BY DEF Tasks
    <2> QED
      BY <1>2, <2>1, <2>2, <2>3, <2>4, <2>5, <2>6, <2>7, RailJournal, DisablingJournal, EnvironmentJournal,
         FaultJournal DEF Next
  <1> QED
    BY <1>1, <1>2

RetireStep ==
    \A t \in Tasks :
        task[t].at = "retireLock" /\ task'[t].at = "sweep"
            => journal[task[t].swap].completed /\ task[t].swap \in aged

\* A task begins to sweep only where it disables.
LEMMA BeginsSweep ==
    ASSUME TypeInv, WatchInv, [Next]_vars, NEW t \in Tasks, task[t].at = "retireLock", task'[t].at = "sweep"
    PROVE  Disable(t)
  <1>1. ~Still
    BY DEF Still, Registering
  <1>2. task'[t] # task[t]
    OBVIOUS
  <1>3. ~Worker /\ ~DropWorker /\ ~Crash /\ ~UNCHANGED vars /\ \A s \in Swaps : ~Environment(s)
    BY <1>1, <1>2, WorkerStill, DropWorkerStill, EnvironmentStill, IdleTaskFacts DEF Crash, vars
  <1>4. ASSUME NEW u \in Tasks
        PROVE  ~Reconcile(u) /\ ~Rail(u) /\ ~Resolving(u) /\ ~StorageFails(u) /\ ~DropCall(u) /\ ~Restore(u)
    BY <1>1, <1>2, ReconcileStill, RailStill, ResolvingStill, EndsStill
       DEF StorageFails, DropCall, Restore, Install, memory
  <1>5. ASSUME NEW u \in Tasks, NEW s \in Swaps, Call(u, s)
        PROVE  FALSE
    <2>1. CASE TrackSwap(u, s) \/ Resume(u, s)
      BY <1>2, <2>1 DEF TrackSwap, Resume, Install
    <2>2. CASE Untrack(u, s)
      <3>1. task'[u].at = "untrackLock" /\ \A v \in Tasks \ {u} : task'[v] = task[v]
        BY <2>2, LooksFacts DEF Untrack, Place
      <3> QED
        BY <1>2, <3>1
    <2> QED
      BY <1>1, <1>5, <2>1, <2>2, CallStill DEF Call
  <1>6. ASSUME NEW u \in Tasks, Disabling(u)
        PROVE  Disable(t)
    <2>1. CASE Retire(u)
      <3>1. CASE task[u].swap \in Tracked
        <4>1. task'[u].at = "retireLock" /\ \A v \in Tasks \ {u} : task'[v] = task[v]
          BY <2>1, <3>1, LooksFacts DEF Retire, Place
        <4> QED
          BY <1>2, <4>1
      <3>2. CASE task[u].swap \notin Tracked
        BY <1>2, <2>1, <3>2, EndsFacts, IdleTaskFacts DEF Retire
      <3> QED
        BY <3>1, <3>2
    <2>2. CASE SpareUnsettled(u) \/ UnregisterUnused(u)
      BY <1>2, <2>2, EndsFacts, IdleTaskFacts DEF SpareUnsettled, UnregisterUnused
    <2>3. CASE SweepOne(u)
      BY <1>2, <2>3 DEF SweepOne
    <2>4. CASE Disable(u)
      <3>1. \A v \in Tasks \ {u} : task'[v] = task[v]
        BY <2>4, GoesFacts DEF Disable, Place
      <3> QED
        BY <1>2, <2>4, <3>1
    <2> QED
      BY <1>6, <2>1, <2>2, <2>3, <2>4 DEF Disabling
  <1>7. Operators \subseteq Tasks
    BY DEF Tasks
  <1> QED
    BY <1>3, <1>4, <1>5, <1>6, <1>7 DEF Next

LEMMA RetiresSettled ==
    ASSUME TypeInv, WatchInv, JournalInv, [Next]_vars
    PROVE  RetireStep
  <1> SUFFICES ASSUME NEW t \in Tasks, task[t].at = "retireLock", task'[t].at = "sweep"
               PROVE  journal[task[t].swap].completed /\ task[t].swap \in aged
    BY DEF RetireStep
  <1>1. Settled(Record(t), task[t].swap)
    BY BeginsSweep DEF Disable
  <1>2. journal[task[t].swap] = Record(t)
    BY <1>1, EnabledFacts DEF Settled, EntryPlaces
  <1> QED
    BY <1>1, <1>2 DEF Settled

LEMMA Kept == Spec /\ ResolvesOnlyEnabled => [](TypeInv /\ WatchInv /\ JournalInv)
  <1>1. ResolvesOnlyEnabled => [][EnabledStep]_vars
    BY PTL DEF ResolvesOnlyEnabled, EnabledStep
  <1> QED
    BY <1>1, TypeInvariant, InitWatchInv, NextWatchInv, InitJournalInv, NextJournalInv, PTL DEF Spec

\* What a restart reads is what the tracker acted on, and a callback that runs is noted
\* as running, whatever fails, crashes or is dropped.
THEOREM JournalIsTrue == Spec /\ ResolvesOnlyEnabled => []JournalTellsTruth
  BY Kept, JournalHolds, PTL

\* A swap that was opted out of automation has no callback running.
THEOREM OptOutIsKept == Spec /\ ResolvesOnlyEnabled => []OptOutHolds
  BY Kept, JournalHolds, PTL

\* A tracked swap is one a restart goes on tracking: without the hypothesis this is what
\* finding 1 refutes.
THEOREM TrackedSurvive == Spec /\ ResolvesOnlyEnabled => []TrackedIsEnabled
  BY Kept, JournalHolds, PTL

\* Retirement ends only swaps whose completion is journalled and has lasted.
THEOREM OnlyLastingRetires == Spec /\ ResolvesOnlyEnabled => RetiresOnlyLasting
  <1>1. TypeInv /\ WatchInv /\ JournalInv /\ [Next]_vars => RetireStep
    BY RetiresSettled
  <1> QED
    BY <1>1, Kept, PTL DEF Spec, RetiresOnlyLasting, RetireStep

-----------------------------------------------------------------------------
(***************************************************************************)
(* Completion outlives the process.  The journal alone derives the outcome *)
(* again because a terminal one does not depend on what may still change:  *)
(* a flag that is dropped only held something back, and another status     *)
(* starts no run, so that what is completed is not run again.              *)
(***************************************************************************)

LEMMA EndsKinds ==
    /\ \A on : Wait(on) \notin Kinds /\ Wait(on)[1] # "Complete"
    /\ \A o : Complete(o) \notin Kinds /\ Complete(o)[1] = "Complete"
    /\ \A k \in {"Fund", "Claim", "RefundCollaborative", "RefundUnilateral", "RecoverCctp",
                  "RecoverBridge"} : <<k>>[1] # "Complete"
    /\ \A k \in {"Fund", "RefundCollaborative", "RefundUnilateral", "RecoverBridge"} : <<k>> \notin Kinds
  BY DEF Wait, Complete, Kinds, Claim, RecoverCctp

\* The same legs, options and bridge, and nothing held back that was not.
SameUnlessHeld(in, other) ==
    /\ other.client = in.client /\ other.clientSeen = in.clientSeen
    /\ other.server = in.server /\ other.serverSeen = in.serverSeen
    /\ other.bridge = in.bridge /\ other.collaborativeRefundAvailable = in.collaborativeRefundAvailable
    /\ other.fundingSubmitted => in.fundingSubmitted
    /\ other.claimSubmitted => in.claimSubmitted
    /\ other.fundingUncertain => in.fundingUncertain
    /\ other.submissionUncertain => in.submissionUncertain

LEMMA RefundsGoOn ==
    ASSUME NEW in, NEW waiting
    PROVE  Refunds(in, waiting)[1] # "Complete"
  BY EndsKinds DEF Refunds

LEMMA UnfundedEnds ==
    ASSUME NEW in, NEW other, SameUnlessHeld(in, other), Unfunded(in)[1] = "Complete"
    PROVE  /\ Unfunded(other) \notin Kinds
           /\ other.serverStatus = in.serverStatus => Unfunded(other) = Unfunded(in)
  <1>1. ~in.fundingUncertain /\ ~other.fundingUncertain
    BY EndsKinds DEF Unfunded, SameUnlessHeld
  <1>2. CASE in.client = NoLeg
    <2>1. Unfunded(in) = UnpaidInvoice(in) /\ Unfunded(other) = UnpaidInvoice(other)
      BY <1>1, <1>2 DEF Unfunded, SameUnlessHeld
    <2>2. UnpaidInvoice(other) \notin Kinds
      BY EndsKinds DEF UnpaidInvoice
    <2>3. other.serverStatus = in.serverStatus => UnpaidInvoice(other) = UnpaidInvoice(in)
      BY DEF UnpaidInvoice, SameUnlessHeld
    <2> QED
      BY <2>1, <2>2, <2>3
  <1>3. CASE in.client # NoLeg
    <2>1. ~in.fundingSubmitted /\ ~other.fundingSubmitted
      BY <1>1, <1>3, EndsKinds DEF Unfunded, SameUnlessHeld
    <2>2. Unfunded(in) = ToFund(in) /\ Unfunded(other) = ToFund(other)
      BY <1>1, <1>3, <2>1 DEF Unfunded, SameUnlessHeld
    <2>3. ToFund(other) = ToFund(in)
      BY DEF ToFund, SameUnlessHeld
    <2>4. ToFund(in) \notin Kinds
      <3>1. ToFund(in)[1] # "RecoverCctp" /\ ToFund(in)[1] # "Claim"
        BY <2>2
      <3> QED
        BY <3>1 DEF Kinds, Claim, RecoverCctp
    <2> QED
      BY <2>2, <2>3, <2>4
  <1> QED
    BY <1>2, <1>3

LEMMA ClaimableEnds ==
    ASSUME NEW in, NEW other, SameUnlessHeld(in, other), Claimable(in)[1] = "Complete"
    PROVE  /\ Claimable(other) \notin Kinds
           /\ other.serverStatus = in.serverStatus => Claimable(other) = Claimable(in)
  <1>1. ~in.claimSubmitted /\ ~other.claimSubmitted
    BY EndsKinds DEF Claimable, SameUnlessHeld
  <1>2. /\ in.server # NoLeg /\ HasPoint(in.server, in.serverSeen) /\ in.client = NoLeg
        /\ ~BeforeClaimMargin(in.server.timelock, in.serverSeen.point)
    BY <1>1, EndsKinds, RefundsGoOn DEF Claimable
  <1>3. Claimable(other) \in {Complete("Refunded"), Wait("LightningResolution")}
    BY <1>1, <1>2 DEF Claimable, SameUnlessHeld
  <1>4. other.serverStatus = in.serverStatus => Claimable(other) = Claimable(in)
    BY <1>1, <1>2 DEF Claimable, SameUnlessHeld
  <1> QED
    BY <1>3, <1>4, EndsKinds

\* What is over stays over.
LEMMA EndsUnlessHeld ==
    ASSUME NEW in, NEW other, SameUnlessHeld(in, other), Recommended(in)[1] = "Complete"
    PROVE  /\ Recommended(other) \notin Kinds
           /\ other.serverStatus = in.serverStatus => Recommended(other) = Recommended(in)
  <1>1. StatusOf(other) = StatusOf(in)
    BY DEF StatusOf, SameUnlessHeld
  <1>2. Redeemed(other) = Redeemed(in) /\ Redeemed(in) \notin Kinds
    BY <1>1, EndsKinds DEF Redeemed, SameUnlessHeld
  <1>3. CASE StatusOf(in) \in {"ClientRedeemed", "ServerRedeemed", "ClientRedeemedAndClientRefunded"}
    BY <1>1, <1>2, <1>3 DEF Recommended
  <1>4. CASE StatusOf(in) \in {"ClientRefunded", "ClientRefundedServerRefunded", "ClientRefundedServerFunded"}
    BY <1>1, <1>4, EndsKinds DEF Recommended
  <1>5. CASE StatusOf(in) \notin {"ClientRedeemed", "ServerRedeemed", "ClientRedeemedAndClientRefunded",
                                  "ClientRefunded", "ClientRefundedServerRefunded", "ClientRefundedServerFunded"}
    <2>1. ~in.submissionUncertain /\ ~other.submissionUncertain
      BY <1>5, EndsKinds DEF Recommended, SameUnlessHeld
    <2>2. CASE StatusOf(in) = "Pending"
      <3>1. Recommended(in) = Unfunded(in) /\ Recommended(other) = Unfunded(other)
        BY <1>1, <2>1, <2>2 DEF Recommended
      <3> QED
        BY <3>1, UnfundedEnds
    <2>3. CASE StatusOf(in) = "ServerFunded"
      <3>1. Recommended(in) = Claimable(in) /\ Recommended(other) = Claimable(other)
        BY <1>1, <2>1, <2>3 DEF Recommended
      <3> QED
        BY <3>1, ClaimableEnds
    <2>4. CASE StatusOf(in) \notin {"Pending", "ServerFunded"}
      <3>1. Recommended(in)[1] # "Complete"
        BY <1>5, <2>1, <2>4, EndsKinds, RefundsGoOn DEF Recommended
      <3> QED
        BY <3>1
    <2> QED
      BY <2>2, <2>3, <2>4
  <1> QED
    BY <1>3, <1>4, <1>5

\* The journal alone, with the chain as it stands, derives a terminal outcome.
Reproducible(s, rec) ==
    Terminal(rec, Recommended(DeriveInput(s, rec, [view |-> view[s], status |-> rec.status])))

LEMMA ReproducibleMeans ==
    CompletionReproducible <=>
        \A s \in Swaps : journal[s] # NoJournal /\ journal[s].completed => Reproducible(s, journal[s])
  BY DEF CompletionReproducible, Reproducible

\* The inputs the journal and the read determine.
LEMMA InputFields ==
    ASSUME NEW s, NEW rec, NEW read
    PROVE  LET in == DeriveInput(s, rec, read)
               recorded(k) == k \in meta[s].recorded /\ OnEvm(s, k)
               submitted(k) == InState(rec.attempt, {"Submitted"}) /\ rec.attempt.action = k
           IN /\ in.client = Contracts[s].client /\ in.clientSeen = read.view.client
              /\ in.server = Contracts[s].server /\ in.serverSeen = read.view.server
              /\ in.bridge = rec.options.bridge
              /\ in.collaborativeRefundAvailable = rec.options.collaborativeRefundAvailable
              /\ in.fundingSubmitted = (recorded(RecoverCctp) \/ submitted(RecoverCctp))
              /\ in.claimSubmitted = (recorded(Claim) \/ submitted(Claim))
              /\ in.fundingUncertain = (RecoverCctp \in meta[s].started /\ ~recorded(RecoverCctp))
              /\ in.submissionUncertain = (InState(rec.attempt, {"Running", "Uncertain"})
                                            \/ (Claim \in meta[s].started /\ ~recorded(Claim)))
              /\ in.serverStatus = IF read.status # NoStatus THEN read.status ELSE read.view.stored
  BY DEF DeriveInput

\* A record that is completed begins no run, whatever status is read with the same view.
LEMMA CompletedRunsNothing ==
    ASSUME NEW s, NEW rec, NEW read, Reproducible(s, rec), read.view = view[s]
    PROVE  Recommended(DeriveInput(s, rec, read)) \notin Kinds
  <1> DEFINE in == DeriveInput(s, rec, [view |-> view[s], status |-> rec.status])
             other == DeriveInput(s, rec, read)
  <1>1. SameUnlessHeld(in, other)
    BY InputFields DEF SameUnlessHeld
  <1>2. Recommended(in)[1] = "Complete"
    BY DEF Reproducible, Terminal
  <1> HIDE DEF in, other
  <1>3. Recommended(other) \notin Kinds
    BY <1>1, <1>2, EndsUnlessHeld
  <1> QED
    BY <1>3 DEF other

\* What drops an attempt or a reservation without a hash keeps what was derived.
LEMMA ReproducibleKept ==
    ASSUME NEW s \in Swaps, NEW rec, NEW new, Reproducible(s, rec),
           UNCHANGED view, meta'[s].recorded = meta[s].recorded, meta'[s].started \subseteq meta[s].started,
           new.options = rec.options, new.status = rec.status, new.attempt \in {rec.attempt, NoAttempt}
    PROVE  Reproducible(s, new)'
  <1> DEFINE in == DeriveInput(s, rec, [view |-> view[s], status |-> rec.status])
             other == DeriveInput(s, new, [view |-> view[s], status |-> new.status])'
  <1>1. InState(new.attempt, {"Submitted"}) => new.attempt = rec.attempt /\ InState(rec.attempt, {"Submitted"})
    BY DEF InState
  <1>2. InState(new.attempt, {"Running", "Uncertain"}) => InState(rec.attempt, {"Running", "Uncertain"})
    BY DEF InState
  <1>3. /\ other.client = in.client /\ other.clientSeen = in.clientSeen
        /\ other.server = in.server /\ other.serverSeen = in.serverSeen
        /\ other.bridge = in.bridge /\ other.collaborativeRefundAvailable = in.collaborativeRefundAvailable
        /\ other.serverStatus = in.serverStatus
    BY DEF DeriveInput
  <1>4. other.fundingSubmitted => in.fundingSubmitted
    BY <1>1 DEF DeriveInput, OnEvm
  <1>5. other.claimSubmitted => in.claimSubmitted
    BY <1>1 DEF DeriveInput, OnEvm
  <1>6. other.fundingUncertain => in.fundingUncertain
    BY DEF DeriveInput, OnEvm
  <1>7. other.submissionUncertain => in.submissionUncertain
    BY <1>2 DEF DeriveInput, OnEvm
  <1>8. Terminal(rec, Recommended(in))
    BY DEF Reproducible
  <1> HIDE DEF in, other
  <1>9. SameUnlessHeld(in, other)
    BY <1>3, <1>4, <1>5, <1>6, <1>7 DEF SameUnlessHeld
  <1>10. Recommended(other) = Recommended(in)
    BY <1>3, <1>8, <1>9, EndsUnlessHeld DEF Terminal
  <1>11. Terminal(new, Recommended(other))
    BY <1>8, <1>10 DEF Terminal
  <1> QED
    BY <1>11 DEF Reproducible, other

-----------------------------------------------------------------------------
(***************************************************************************)
(* The inductive invariant, where the chain stands still and the           *)
(* application neither changes options, nor claims a submission sent, nor  *)
(* acts by hand.  Whoever is about to conclude has read the chain as it    *)
(* is; what runs is a callback of the tracker on a swap that is not        *)
(* complete, so that no reservation, hash or attempt appears beneath a     *)
(* completed record.                                                       *)
(***************************************************************************)

Lasting == "view" \notin Faults /\ Calls \intersect {"options", "attest", "byHand"} = {}

ReadsAsNow(t) ==
    /\ task[t].at \in {"decide", "finish"} => task[t].seen.view = view[task[t].swap]
    /\ OnRail(t) => Automatic(t) /\ ~Record(t).completed
    /\ task[t].at \notin {"options", "attestLock"}

CompletionInv == CompletionReproducible /\ \A t \in Tasks : ReadsAsNow(t)

\* What Reproducible says of the journal of the next state.
CompletedNext == \A s \in Swaps : journal'[s] # NoJournal /\ journal'[s].completed => Reproducible(s, journal[s])'

LEMMA CompletedNextMeans == CompletedNext <=> CompletionReproducible'
  BY DEF CompletionReproducible, CompletedNext, Reproducible

LEMMA IdleReadsAsNow ==
    ASSUME NEW t, task[t] = IdleTask
    PROVE  ReadsAsNow(t)
  BY IdleTaskFacts DEF ReadsAsNow, OnRail

LEMMA InitCompletionInv == Init => CompletionInv
  <1> SUFFICES ASSUME Init PROVE CompletionInv
    OBVIOUS
  <1>1. \A t \in Tasks : ReadsAsNow(t)
    BY IdleReadsAsNow DEF Init
  <1>2. CompletionReproducible
    BY DEF Init, CompletionReproducible
  <1> QED
    BY <1>1, <1>2 DEF CompletionInv

\* What is on the rails works on an enabled entry whose completion is open.
LEMMA RunsOpen ==
    ASSUME TypeInv, JournalInv, CompletionInv, NEW t \in Tasks, OnRail(t)
    PROVE  /\ task[t].swap \in Swaps /\ task[t].object \in Objects /\ task[t].object # 0
           /\ Automatic(t) /\ holder[task[t].swap][task[t].object] = t
           /\ Record(t) \in TrackingRecord /\ Record(t).enabled /\ ~Record(t).completed
           /\ journal[task[t].swap] = Record(t)
  <1>1. Automatic(t) /\ ~Record(t).completed
    BY DEF CompletionInv, ReadsAsNow
  <1>2. Record(t).enabled
    BY <1>1 DEF JournalInv, OnItsEntry
  <1> QED
    BY <1>1, <1>2, EntryFacts, EnabledFacts

\* Journal and rails are as they were.
LEMMA SameCompletion ==
    ASSUME CompletionReproducible, UNCHANGED <<journal, meta, view>>
    PROVE  CompletionReproducible'
  <1>1. \A s \in Swaps : Reproducible(s, journal[s])' = Reproducible(s, journal[s])
    BY DEF Reproducible, Terminal, DeriveInput, OnEvm
  <1>2. CompletedNext
    BY <1>1, ReproducibleMeans DEF CompletedNext
  <1> QED
    BY <1>2, CompletedNextMeans

\* Where one swap alone is written.
LEMMA OneCompletion ==
    ASSUME CompletionReproducible, UNCHANGED view, NEW s \in Swaps,
           \A r \in Swaps \ {s} : journal'[r] = journal[r] /\ meta'[r] = meta[r],
           journal'[s] # NoJournal /\ journal'[s].completed => Reproducible(s, journal[s])'
    PROVE  CompletionReproducible'
  <1>1. \A r \in Swaps \ {s} : Reproducible(r, journal[r])' = Reproducible(r, journal[r])
    BY DEF Reproducible, Terminal, DeriveInput, OnEvm
  <1>2. CompletedNext
    BY <1>1, ReproducibleMeans DEF CompletedNext
  <1> QED
    BY <1>2, CompletedNextMeans

\* One task steps: it may write the records that no other task holds.
LEMMA StepCompletion ==
    ASSUME TypeInv, CompletionInv, NEW t \in Tasks, UNCHANGED view, CompletionReproducible',
           \A u \in Tasks \ {t} : task'[u] = task[u],
           \A u \in Tasks \ {t}, s \in Swaps, o \in Objects : holder[s][o] = u => record'[s][o] = record[s][o],
           ReadsAsNow(t)'
    PROVE  CompletionInv'
  <1>1. ASSUME NEW u \in Tasks \ {t}
        PROVE  ReadsAsNow(u)'
    <2>1. OnRail(u)' = OnRail(u) /\ Automatic(u)' = Automatic(u) /\ task'[u] = task[u]
      BY DEF OnRail, Automatic
    <2>2. CASE OnRail(u)
      <3>1. Automatic(u) /\ ~Record(u).completed
        BY <2>2 DEF CompletionInv, ReadsAsNow
      <3>2. /\ task[u].swap \in Swaps /\ task[u].object \in Objects
            /\ holder[task[u].swap][task[u].object] = u
        BY <3>1, EntryFacts
      <3>3. Record(u)' = Record(u)
        BY <2>1, <3>2 DEF Record
      <3> QED
        BY <2>1, <3>1, <3>3 DEF CompletionInv, ReadsAsNow
    <2>3. CASE ~OnRail(u)
      BY <2>1, <2>3 DEF CompletionInv, ReadsAsNow
    <2> QED
      BY <2>2, <2>3
  <1> QED
    BY <1>1 DEF CompletionInv

\* One task moves and nothing is written.
LEMMA AsideCompletion ==
    ASSUME TypeInv, CompletionInv, NEW t \in Tasks, UNCHANGED <<journal, meta, view, record>>,
           \A u \in Tasks \ {t} : task'[u] = task[u], ReadsAsNow(t)'
    PROVE  CompletionInv'
  <1>1. CompletionReproducible'
    BY SameCompletion DEF CompletionInv
  <1> QED
    BY <1>1, StepCompletion

LEMMA TasksKeepCompletion ==
    ASSUME CompletionInv, UNCHANGED <<journal, meta, view, record, task>>
    PROVE  CompletionInv'
  <1>1. CompletionReproducible'
    BY SameCompletion DEF CompletionInv
  <1> QED
    BY <1>1 DEF CompletionInv, ReadsAsNow, OnRail, Automatic, Record

LEMMA EndsCompletion ==
    ASSUME TypeInv, CompletionInv, NEW t \in Tasks, Ends(t), UNCHANGED <<journal, meta, view, record>>
    PROVE  CompletionInv'
  <1>1. ReadsAsNow(t)'
    BY EndsFacts, IdleTaskFacts DEF ReadsAsNow, OnRail
  <1> QED
    BY <1>1, EndsFacts, AsideCompletion

\* A task that is at none of the places at which anything is owed.
LEMMA ElsewhereCompletion ==
    ASSUME TypeInv, CompletionInv, NEW t \in Tasks, UNCHANGED <<journal, meta, view, record>>,
           \A u \in Tasks \ {t} : task'[u] = task[u],
           task'[t].at \notin {"decide", "finish", "options", "attestLock"}, ~OnRail(t)'
    PROVE  CompletionInv'
  BY AsideCompletion DEF ReadsAsNow

LEMMA LooksCompletion ==
    ASSUME TypeInv, CompletionInv, NEW t \in Tasks, NEW s \in Tracked,
           NEW place \in {"lock", "untrackLock", "proveLock", "retireLock"},
           Looks(t, s, place), UNCHANGED <<journal, meta, view, record>>
    PROVE  CompletionInv'
  <1>1. task'[t].at = place /\ \A u \in Tasks \ {t} : task'[u] = task[u]
    BY LooksFacts DEF Place
  <1> QED
    BY <1>1, ElsewhereCompletion DEF OnRail

LEMMA CallCompletion ==
    ASSUME TypeInv, CompletionInv, Lasting, NEW t \in Tasks, NEW s \in Swaps,
           \/ CallReconcile(t, s) \/ Untrack(t, s) \/ CallUpdateOptions(t, s)
           \/ CallProveUnsent(t, s) \/ CallAttestSent(t, s) \/ RunByHand(t, s)
    PROVE  CompletionInv'
  <1> USE DEF durable, memory, chain
  <1>1. CallReconcile(t, s) \/ Untrack(t, s) \/ CallProveUnsent(t, s)
    BY DEF Lasting, CallUpdateOptions, CallAttestSent, RunByHand
  <1>2. PICK place \in {"lock", "untrackLock", "proveLock", "retireLock"} : Looks(t, s, place) /\ s \in Tracked
    BY <1>1 DEF CallReconcile, Untrack, CallProveUnsent
  <1>3. UNCHANGED <<journal, meta, view, record>>
    BY <1>1 DEF CallReconcile, Untrack, CallProveUnsent
  <1> QED
    BY <1>2, <1>3, LooksCompletion

LEMMA WorkerCompletion ==
    ASSUME TypeInv, CompletionInv, Worker
    PROVE  CompletionInv'
  <1> USE DEF durable, memory, chain
  <1>1. CASE FullTick \/ RiskTick \/ WorkerWake
    BY <1>1, TasksKeepCompletion DEF FullTick, RiskTick, WorkerWake, Refresh
  <1>2. ASSUME NEW t \in Slots, StartReconcile(t)
        PROVE  CompletionInv'
    <2>1. PICK s \in batch : IF s \in Tracked THEN Looks(t, s, "lock") ELSE UNCHANGED task
      BY <1>2 DEF StartReconcile
    <2>2. UNCHANGED <<journal, meta, view, record>> /\ t \in Tasks
      BY <1>2 DEF StartReconcile, Tasks
    <2> QED
      BY <2>1, <2>2, LooksCompletion, TasksKeepCompletion
  <1> QED
    BY <1>1, <1>2 DEF Worker

LEMMA EnvironmentCompletion ==
    ASSUME CompletionInv, Lasting, NEW s \in Swaps, Environment(s)
    PROVE  CompletionInv'
  <1>1. UNCHANGED <<journal, meta, view, record, task>>
    BY DEF Environment, Hint, HintStatus, DeadlinePasses, RetirePeriodPasses, ViewChanges, durable, memory,
           chain, Lasting
  <1> QED
    BY <1>1, TasksKeepCompletion

\* A new entry is open, or has the record that is journalled already.
LEMMA InstallCompletion ==
    ASSUME TypeInv, CompletionInv, NEW S \in SUBSET Swaps, NEW recs,
           \A s \in S : ~recs[s].completed \/ recs[s] = journal[s], Install(S, recs)
    PROVE  CompletionInv'
  <1>1. /\ journal' = [s \in Swaps |-> IF s \in S THEN recs[s] ELSE journal[s]]
        /\ UNCHANGED <<meta, view, task>>
    BY DEF Install, chain
  <1>2. CompletionReproducible'
    <2>1. ASSUME NEW s \in Swaps, journal'[s] # NoJournal, journal'[s].completed
          PROVE  Reproducible(s, journal[s])'
      <3>1. journal'[s] = journal[s]
        BY <1>1, <2>1
      <3>2. Reproducible(s, journal[s])
        BY <2>1, <3>1, ReproducibleMeans DEF CompletionInv
      <3> QED
        BY <1>1, <3>1, <3>2 DEF Reproducible, Terminal, DeriveInput, OnEvm
    <2> QED
      BY <2>1, CompletedNextMeans DEF CompletedNext
  <1>3. ASSUME NEW t \in Tasks
        PROVE  ReadsAsNow(t)'
    <2>1. OnRail(t)' = OnRail(t) /\ Automatic(t)' = Automatic(t)
      BY <1>1 DEF OnRail, Automatic
    <2>2. CASE OnRail(t)
      <3>1. Automatic(t) /\ ~Record(t).completed
        BY <2>2 DEF CompletionInv, ReadsAsNow
      <3>2. task[t].swap \in Swaps /\ task[t].object \in Objects
        BY <3>1, EntryFacts
      <3>3. task[t].object \notin Fresh(task[t].swap) /\ \A s \in S : NewObject(s) \in Fresh(s)
        BY NewObjectType DEF Fresh, Install
      <3>4. Record(t)' = Record(t)
        BY <1>1, <3>2, <3>3 DEF Record, Install
      <3> QED
        BY <1>1, <2>1, <3>1, <3>4 DEF CompletionInv, ReadsAsNow
    <2>3. CASE ~OnRail(t)
      BY <1>1, <2>1, <2>3 DEF CompletionInv, ReadsAsNow
    <2> QED
      BY <2>2, <2>3
  <1> QED
    BY <1>2, <1>3 DEF CompletionInv

LEMMA RegistrationCompletion ==
    ASSUME TypeInv, CompletionInv, NEW t \in Tasks, NEW s \in Swaps, TrackSwap(t, s) \/ Resume(t, s) \/ Restore(t)
    PROVE  CompletionInv'
  <1>1. CASE TrackSwap(t, s)
    <2>1. PICK options \in Options : Install({s}, [r \in {s} |-> NewRecord(options)])
      BY <1>1 DEF TrackSwap
    <2>2. ~NewRecord(options).completed
      BY DEF NewRecord
    <2> QED
      BY <2>1, <2>2, InstallCompletion
  <1>2. CASE Resume(t, s)
    <2>1. journal[s] \in TrackingRecord
      BY <1>2 DEF Resume, TypeInv, TypeOK
    <2> DEFINE new == [journal[s] EXCEPT !.enabled = TRUE, !.completed = FALSE]
    <2>2. ~new.completed
      BY <2>1 DEF TrackingRecord
    <2>3. Install({s}, [r \in {s} |-> new])
      BY <1>2 DEF Resume
    <2> HIDE DEF new
    <2> QED
      BY <2>2, <2>3, InstallCompletion
  <1>3. CASE Restore(t)
    <2>1. PICK S \in SUBSET Restorable : Install(S, journal)
      BY <1>3 DEF Restore
    <2>2. S \in SUBSET Swaps
      BY <2>1 DEF Restorable
    <2> QED
      BY <2>1, <2>2, InstallCompletion
  <1> QED
    BY <1>1, <1>2, <1>3

-----------------------------------------------------------------------------
(* reconcile and the rails *)

LEMMA LockRecordCompletion ==
    ASSUME TypeInv, CompletionInv, NEW t \in Tasks, LockRecord(t)
    PROVE  CompletionInv'
  <1> USE DEF durable, memory, chain
  <1>1. CASE Record(t).enabled
    <2>1. task[t] \in Task /\ task \in [Tasks -> Task]
      BY DEF TypeInv, TypeOK
    <2> DEFINE look == [view |-> view[task[t].swap], status |-> hinted[task[t].swap][task[t].object]]
               m == [task[t] EXCEPT !.at = "decide", !.seen = look]
    <2>2. m.at = "decide" /\ m.swap = task[t].swap /\ m.seen.view = view[task[t].swap]
      BY <2>1 DEF Task
    <2>3. task' = [task EXCEPT ![t] = m]
      BY <1>1, <2>1 DEF LockRecord
    <2> HIDE DEF m
    <2>4. task'[t] = m /\ \A u \in Tasks \ {t} : task'[u] = task[u]
      BY <2>1, <2>3
    <2>5. UNCHANGED <<journal, meta, view, record>>
      BY DEF LockRecord
    <2>6. ReadsAsNow(t)'
      BY <2>2, <2>4, <2>5 DEF ReadsAsNow, OnRail
    <2> QED
      BY <2>4, <2>5, <2>6, AsideCompletion
  <1>2. CASE ~Record(t).enabled
    BY <1>2, EndsCompletion DEF LockRecord
  <1> QED
    BY <1>1, <1>2

\* What a task that holds an enabled record writes.
LEMMA SavesCompletion ==
    ASSUME TypeInv, CompletionInv, NEW t \in Tasks, task[t].at \in EntryPlaces \/ Automatic(t),
           NEW s \in Swaps, s = task[t].swap, holder[s][task[t].object] \in {t, Free},
           NEW rec \in TrackingRecord, Save(t, rec), UNCHANGED <<meta, view>>,
           rec.completed => Reproducible(s, rec),
           \A u \in Tasks \ {t} : task'[u] = task[u], ReadsAsNow(t)'
    PROVE  CompletionInv'
  <1>1. \A u \in Tasks \ {t}, r \in Swaps, o \in Objects : holder[r][o] = u => record'[r][o] = record[r][o]
    BY EntryFacts, SaveFacts
  <1>2. journal'[s] = rec /\ \A r \in Swaps \ {s} : journal'[r] = journal[r]
    BY DEF Save, TypeInv, TypeOK
  <1>3. rec.completed => Reproducible(s, journal[s])'
    BY <1>2 DEF Reproducible, Terminal, DeriveInput, OnEvm
  <1>4. CompletionReproducible'
    BY <1>2, <1>3, OneCompletion DEF CompletionInv
  <1> QED
    BY <1>1, <1>4, StepCompletion

LEMMA BeginAttemptCompletion ==
    ASSUME TypeInv, JournalInv, CompletionInv, NEW t \in Tasks, BeginAttempt(t)
    PROVE  CompletionInv'
  <1>1. /\ task[t].swap \in Swaps /\ task[t].object \in Objects /\ task[t].object # 0
        /\ Record(t) \in TrackingRecord
        /\ holder[task[t].swap][task[t].object] = t
        /\ task[t].at = "decide" /\ Record(t).enabled
    BY EntryFacts DEF BeginAttempt, EntryPlaces, RecordPlaces, JournalInv, OnItsEntry, Working
  <1>2. Derived(t) \in Kinds
    BY DEF BeginAttempt, RunsNow, Permitted, Kinds
  <1>3. journal[task[t].swap] = Record(t) /\ task[t].seen.view = view[task[t].swap]
    BY <1>1, EnabledFacts DEF EntryPlaces, CompletionInv, ReadsAsNow
  <1>4. ~Record(t).completed
    <2> SUFFICES ASSUME Record(t).completed PROVE FALSE
      OBVIOUS
    <2>1. Record(t) # NoJournal
      BY <1>1, TrackerAssumption
    <2>2. Reproducible(task[t].swap, Record(t))
      BY <1>1, <1>3, <2>1, ReproducibleMeans DEF CompletionInv
    <2>3. Derived(t) \notin Kinds
      BY <1>3, <2>2, CompletedRunsNothing DEF Derived
    <2> QED
      BY <1>2, <2>3
  <1> DEFINE count == NextCount(task[t].swap, Record(t).attempt, Derived(t))
             run == [action |-> Derived(t), state |-> "Running", count |-> count]
             rec == [Record(t) EXCEPT !.attempt = run]
  <1>5. count \in 1 .. MaxAttempts
    BY <1>1, <1>2, NextCountType DEF BeginAttempt, RunsNow, TrackingRecord
  <1>6. run \in Attempt
    BY <1>2, <1>5 DEF Attempt, AttemptState
  <1> HIDE DEF count, run
  <1>7. rec \in TrackingRecord
    BY <1>1, <1>6 DEF TrackingRecord
  <1>8. rec.completed = Record(t).completed
    BY <1>1 DEF TrackingRecord
  <1>9. Save(t, rec) /\ UNCHANGED <<meta, view>>
    BY DEF BeginAttempt, run, count, chain
  <1> HIDE DEF rec
  <1> DEFINE m == [task[t] EXCEPT !.at = "enter", !.kind = Derived(t), !.seen.view = IdleTask.seen.view]
  <1>10. task[t] \in Task /\ task \in [Tasks -> Task]
    BY DEF TypeInv, TypeOK
  <1>11. m.at = "enter" /\ m.swap = task[t].swap /\ m.object = task[t].object
    BY <1>10 DEF Task
  <1>12. task' = [task EXCEPT ![t] = m]
    BY DEF BeginAttempt
  <1> HIDE DEF m
  <1>13. task'[t] = m /\ \A u \in Tasks \ {t} : task'[u] = task[u]
    BY <1>10, <1>12
  <1>14. Record(t)' = rec
    BY <1>1, <1>7, <1>9, <1>11, <1>13, SaveFacts DEF Record
  <1>15. ReadsAsNow(t)'
    BY <1>1, <1>4, <1>8, <1>11, <1>13, <1>14 DEF ReadsAsNow, Automatic, OnRail
  <1> QED
    BY <1>1, <1>4, <1>7, <1>8, <1>9, <1>13, <1>15, SavesCompletion DEF EntryPlaces

\* The outcome is derived from the read that is noted with it.
LEMMA ConcludeCompletion ==
    ASSUME TypeInv, JournalInv, CompletionInv, NEW t \in Tasks, Conclude(t)
    PROVE  CompletionInv'
  <1>1. /\ task[t].swap \in Swaps /\ Record(t) \in TrackingRecord
        /\ holder[task[t].swap][task[t].object] = t
        /\ task[t].at \in {"decide", "finish"}
    BY EntryFacts DEF Conclude, EntryPlaces, RecordPlaces
  <1>2. task[t].seen = [view |-> view[task[t].swap], status |-> task[t].seen.status]
        /\ task[t].seen.status \in Hints \union {NoStatus}
    BY <1>1 DEF CompletionInv, ReadsAsNow, TypeInv, TypeOK, Task, Seen
  <1> DEFINE ended == Terminal(Record(t), Derived(t))
             next == Concluded(t)
  <1>3. ended \in BOOLEAN
    BY DEF Terminal
  <1> HIDE DEF ended
  <1>4. next \in TrackingRecord /\ next.completed = ended /\ next.status = task[t].seen.status
        /\ next.attempt = Record(t).attempt /\ next.options = Record(t).options
    BY <1>1, <1>2, <1>3 DEF Concluded, TrackingRecord, ended
  <1>5. Save(t, next) /\ UNCHANGED <<meta, view>>
    BY DEF Conclude, chain
  <1>6. task' = [task EXCEPT ![t] = IdleTask]
        \/ task' = [task EXCEPT ![t] = [IdleTask EXCEPT !.at = "retire", !.swap = task[t].swap]]
    BY DEF Conclude
  <1> HIDE DEF next
  <1>7. DeriveInput(task[t].swap, next, [view |-> view[task[t].swap], status |-> next.status])
            = DeriveInput(task[t].swap, Record(t), task[t].seen)
    BY <1>2, <1>4 DEF DeriveInput
  <1>8. next.completed => Reproducible(task[t].swap, next)
    BY <1>4, <1>7 DEF Reproducible, Terminal, ended, Derived
  <1> DEFINE m == [IdleTask EXCEPT !.at = "retire", !.swap = task[t].swap]
  <1>9. m.at = "retire"
    BY IdleTaskFacts DEF Task
  <1>10. task' = [task EXCEPT ![t] = IdleTask] \/ task' = [task EXCEPT ![t] = m]
    BY <1>6
  <1> HIDE DEF m
  <1>11. task'[t].at \in {"idle", "retire"} /\ \A u \in Tasks \ {t} : task'[u] = task[u]
    BY <1>9, <1>10, IdleTaskFacts DEF TypeInv, TypeOK
  <1>12. ReadsAsNow(t)'
    BY <1>11 DEF ReadsAsNow, OnRail
  <1> QED
    BY <1>1, <1>4, <1>5, <1>8, <1>11, <1>12, SavesCompletion DEF EntryPlaces

LEMMA EndRunCompletion ==
    ASSUME TypeInv, JournalInv, CompletionInv, NEW t \in Tasks, OnRail(t), NEW state \in AttemptState,
           EndRun(t, state)
    PROVE  CompletionInv'
  <1>1. /\ task[t].swap \in Swaps /\ task[t].object \in Objects /\ task[t].object # 0
        /\ Automatic(t) /\ holder[task[t].swap][task[t].object] = t
        /\ Record(t) \in TrackingRecord /\ ~Record(t).completed
    BY RunsOpen
  <1>2. Record(t).attempt \in Attempt
    BY <1>1 DEF TypeInv, RunHasAttempt, TrackingRecord
  <1> DEFINE rec == [Record(t) EXCEPT !.attempt.state = state]
  <1>3. rec \in TrackingRecord
    BY <1>1, <1>2 DEF TrackingRecord, Attempt
  <1>4. ~rec.completed
    BY <1>1 DEF TrackingRecord
  <1>5. Save(t, rec) /\ UNCHANGED <<meta, view>>
    BY <1>1 DEF EndRun, chain
  <1> HIDE DEF rec
  <1> DEFINE m == [task[t] EXCEPT !.at = "finish", !.seen.view = view[task[t].swap]]
  <1>6. task[t] \in Task /\ task \in [Tasks -> Task]
    BY DEF TypeInv, TypeOK
  <1>7. m.at = "finish" /\ m.swap = task[t].swap /\ m.seen.view = view[task[t].swap]
    BY <1>6 DEF Task, Seen
  <1>8. task' = [task EXCEPT ![t] = m]
    BY <1>1 DEF EndRun
  <1> HIDE DEF m
  <1>9. task'[t] = m /\ \A u \in Tasks \ {t} : task'[u] = task[u]
    BY <1>6, <1>8
  <1>10. ReadsAsNow(t)'
    BY <1>5, <1>7, <1>9 DEF ReadsAsNow, OnRail
  <1> QED
    BY <1>1, <1>3, <1>4, <1>5, <1>9, <1>10, SavesCompletion

\* A reservation or a hash of a swap that is not complete.
LEMMA RailCompletion ==
    ASSUME TypeInv, JournalInv, CompletionInv, NEW t \in Tasks, Rail(t)
    PROVE  CompletionInv'
  <1> USE DEF durable, memory, chain
  <1>1. OnRail(t)
    BY DEF Rail, EnterRail, FindOwnSpend, Reserve, Send, NoteHash, Confirm, FailRun, OnRail
  <1>2. CASE EnterRail(t) \/ Reserve(t) \/ Send(t) \/ NoteHash(t)
    <2>1. PICK place \in {"reserve", "send", "note", "confirm"} : Goes(t, place)
      BY <1>2 DEF EnterRail, Reserve, Send, NoteHash
    <2>2. UNCHANGED <<journal, view, record>>
      BY <1>2 DEF EnterRail, Enters, Reserve, Send, NoteHash
    <2>3. \A r \in Swaps \ {task[t].swap} : meta'[r] = meta[r]
      BY <1>2 DEF EnterRail, Enters, Reserve, Send, NoteHash, TypeInv, TypeOK
    <2>4. PICK s \in Swaps : s = task[t].swap
      BY TaskTypes
    <2>5. ~journal[s].completed
      BY <1>1, <2>4, RunsOpen
    <2>6. CompletionReproducible'
      BY <2>2, <2>3, <2>4, <2>5, OneCompletion DEF CompletionInv
    <2>7. /\ task'[t].at = place /\ task'[t].swap = task[t].swap /\ task'[t].object = task[t].object
          /\ \A u \in Tasks \ {t} : task'[u] = task[u]
      BY <2>1, GoesFacts DEF Place
    <2>8. Automatic(t)' /\ ~Record(t).completed'
      BY <1>1, <2>2, <2>7, RunsOpen DEF Automatic, OnRail, Record
    <2>9. ReadsAsNow(t)'
      BY <2>7, <2>8 DEF ReadsAsNow
    <2> QED
      BY <2>2, <2>6, <2>7, <2>9, StepCompletion
  <1>3. CASE FindOwnSpend(t) \/ Confirm(t) \/ FailRun(t)
    <2>1. PICK state \in AttemptState : EndRun(t, state)
      BY <1>3 DEF FindOwnSpend, Confirm, FailRun, AttemptState
    <2> QED
      BY <1>1, <2>1, EndRunCompletion
  <1> QED
    BY <1>2, <1>3 DEF Rail

-----------------------------------------------------------------------------
(* disable, resolve_attempt, and what ends tasks *)

LEMMA DisableCompletion ==
    ASSUME TypeInv, JournalInv, CompletionInv, NEW t \in Tasks, Disable(t)
    PROVE  CompletionInv'
  <1>1. /\ task[t].swap \in Swaps /\ Record(t) \in TrackingRecord
        /\ task[t].at \in {"untrackLock", "retireLock"} /\ Record(t).enabled
        /\ holder[task[t].swap][task[t].object] = Free
    BY EntryFacts DEF Disable, TakeRecord, LockFree, EntryPlaces, JournalInv, OnItsEntry, Working
  <1>2. journal[task[t].swap] = Record(t)
    BY <1>1, EnabledFacts DEF EntryPlaces
  <1> DEFINE rec == [Record(t) EXCEPT !.enabled = FALSE]
  <1>3. rec \in TrackingRecord
    BY <1>1 DEF TrackingRecord
  <1>4. /\ rec.completed = Record(t).completed /\ rec.status = Record(t).status
        /\ rec.attempt = Record(t).attempt /\ rec.options = Record(t).options
    BY <1>1 DEF TrackingRecord
  <1>5. Save(t, rec) /\ Goes(t, "sweep") /\ UNCHANGED <<meta, view>>
    BY DEF Disable, chain
  <1> HIDE DEF rec
  <1>6. Record(t).completed => Reproducible(task[t].swap, Record(t))
    BY <1>1, <1>2, TrackerAssumption, ReproducibleMeans DEF CompletionInv
  <1>7. rec.completed => Reproducible(task[t].swap, rec)
    BY <1>4, <1>6 DEF Reproducible, Terminal, DeriveInput
  <1>8. task'[t].at = "sweep" /\ \A u \in Tasks \ {t} : task'[u] = task[u]
    BY <1>5, GoesFacts DEF Place
  <1>9. ReadsAsNow(t)'
    BY <1>8 DEF ReadsAsNow, OnRail
  <1> QED
    BY <1>1, <1>3, <1>5, <1>7, <1>8, <1>9, SavesCompletion DEF EntryPlaces

LEMMA UnregisterCompletion ==
    ASSUME TypeInv, JournalInv, CompletionInv, NEW t \in Tasks, UnregisterUnused(t)
    PROVE  CompletionInv'
  <1>1. /\ UNCHANGED <<journal, meta, view>> /\ Ends(t) /\ task[t].at = "sweep"
        /\ \/ UNCHANGED record
           \/ record' = [record EXCEPT ![task[t].swap][task[t].object] = BlankRecord]
    BY DEF UnregisterUnused, durable, chain
  <1>2. /\ task[t].swap \in Swaps /\ task[t].object \in Objects
        /\ holder[task[t].swap][task[t].object] = t
    BY <1>1, EntryFacts DEF EntryPlaces, RecordPlaces
  <1>3. \A u \in Tasks \ {t}, s \in Swaps, o \in Objects : holder[s][o] = u => record'[s][o] = record[s][o]
    BY <1>1, <1>2, BlankRecordType, PutRecord
  <1>4. CompletionReproducible'
    BY <1>1, SameCompletion DEF CompletionInv
  <1>5. ReadsAsNow(t)'
    BY <1>1, EndsFacts, IdleTaskFacts DEF ReadsAsNow, OnRail
  <1> QED
    BY <1>1, <1>3, <1>4, <1>5, EndsFacts, StepCompletion

LEMMA DisablingCompletion ==
    ASSUME TypeInv, JournalInv, CompletionInv, NEW t \in Tasks, Disabling(t)
    PROVE  CompletionInv'
  <1> USE DEF durable, memory, chain
  <1>1. CASE Retire(t)
    <2>1. UNCHANGED <<journal, meta, view, record>>
      BY <1>1 DEF Retire
    <2> QED
      BY <1>1, <2>1, LooksCompletion, EndsCompletion DEF Retire
  <1>2. CASE SpareUnsettled(t)
    BY <1>2, EndsCompletion DEF SpareUnsettled
  <1>3. CASE SweepOne(t)
    BY <1>3, TasksKeepCompletion DEF SweepOne
  <1> QED
    BY <1>1, <1>2, <1>3, DisableCompletion, UnregisterCompletion DEF Disabling

\* A release takes back a reservation without a hash, and the attempt goes with it.
LEMMA ResolvingCompletion ==
    ASSUME TypeInv, JournalInv, CompletionInv, NEW t \in Tasks, Resolving(t)
    PROVE  CompletionInv'
  <1> USE DEF durable, memory, chain
  <1>1. /\ task[t].at \in EntryPlaces
        /\ task[t].swap \in Swaps /\ Record(t) \in TrackingRecord
        /\ task[t].at \in RecordPlaces => holder[task[t].swap][task[t].object] = t
    BY EntryFacts
       DEF Resolving, UpdateOptions, TakeAttempt, ReleaseReservation, ForgetAttempt, AttestSent, EntryPlaces
  <1>2. ~UpdateOptions(t) /\ ~AttestSent(t)
    BY DEF UpdateOptions, AttestSent, CompletionInv, ReadsAsNow
  <1>3. CASE TakeAttempt(t)
    <2>1. UNCHANGED <<journal, meta, view, record>>
      BY <1>3 DEF TakeAttempt
    <2>2. CASE Record(t).attempt # NoAttempt
      <3>1. Goes(t, "release")
        BY <1>3, <2>2 DEF TakeAttempt
      <3>2. task'[t].at = "release" /\ \A u \in Tasks \ {t} : task'[u] = task[u]
        BY <3>1, GoesFacts DEF Place
      <3> QED
        BY <2>1, <3>2, ElsewhereCompletion DEF OnRail
    <2>3. CASE Record(t).attempt = NoAttempt
      BY <1>3, <2>1, <2>3, EndsCompletion DEF TakeAttempt
    <2> QED
      BY <2>2, <2>3
  <1>4. CASE ReleaseReservation(t)
    <2>1. PICK s \in Swaps : s = task[t].swap
      BY <1>1
    <2>2. PICK k : k = Record(t).attempt.action
      OBVIOUS
    <2>3. /\ UNCHANGED <<journal, view, record>> /\ Goes(t, "forget")
          /\ meta' = IF k \in meta[s].recorded \/ ~OnEvm(s, k) THEN meta
                     ELSE [meta EXCEPT ![s].started = @ \ {k}]
      BY <1>4, <2>1, <2>2 DEF ReleaseReservation
    <2>4. /\ meta'[s].recorded = meta[s].recorded /\ meta'[s].started \subseteq meta[s].started
          /\ \A r \in Swaps \ {s} : meta'[r] = meta[r]
      <3> DEFINE new == [meta[s] EXCEPT !.started = @ \ {k}]
      <3>1. meta' = meta \/ meta' = [meta EXCEPT ![s] = new]
        BY <2>3
      <3>2. meta[s] \in [started : SUBSET Kinds, recorded : SUBSET Kinds]
        BY DEF TypeInv, TypeOK
      <3>3. new.started \subseteq meta[s].started /\ new.recorded = meta[s].recorded
        BY <3>2
      <3> HIDE DEF new
      <3> QED
        BY <3>1, <3>3 DEF TypeInv, TypeOK
    <2>5. PICK rec : rec = journal[s]
      OBVIOUS
    <2>6. rec # NoJournal /\ rec.completed => Reproducible(s, rec)
      BY <2>5, ReproducibleMeans DEF CompletionInv
    <2>7. rec # NoJournal /\ rec.completed => Reproducible(s, rec)'
      BY <2>3, <2>4, <2>6, ReproducibleKept
    <2>8. journal'[s] = rec
      BY <2>3, <2>5
    <2>9. rec # NoJournal /\ rec.completed => Reproducible(s, journal[s])'
      BY <2>7, <2>8 DEF Reproducible
    <2>10. CompletionReproducible'
      BY <2>3, <2>4, <2>8, <2>9, OneCompletion DEF CompletionInv
    <2>11. task'[t].at = "forget" /\ \A u \in Tasks \ {t} : task'[u] = task[u]
      BY <2>3, GoesFacts DEF Place
    <2>12. ReadsAsNow(t)'
      BY <2>11 DEF ReadsAsNow, OnRail
    <2> QED
      BY <2>3, <2>10, <2>11, <2>12, StepCompletion
  <1>5. CASE ForgetAttempt(t)
    <2>1. task[t].at = "forget" /\ Record(t).enabled
      BY <1>5 DEF ForgetAttempt, JournalInv, OnItsEntry, Working
    <2>2. journal[task[t].swap] = Record(t)
      BY <1>1, <2>1, EnabledFacts
    <2>3. PICK s \in Swaps, old \in TrackingRecord : s = task[t].swap /\ old = Record(t)
      BY <1>1
    <2> DEFINE rec == [old EXCEPT !.attempt = NoAttempt]
    <2>4. old.completed => Reproducible(s, old)
      BY <1>1, <2>2, <2>3, TrackerAssumption, ReproducibleMeans DEF CompletionInv
    <2>5. rec \in TrackingRecord
      BY <1>1, <2>3 DEF TrackingRecord
    <2>6. /\ rec.completed = old.completed /\ rec.status = old.status
          /\ rec.options = old.options /\ rec.attempt = NoAttempt
      BY <1>1, <2>3 DEF TrackingRecord
    <2>7. Save(t, rec) /\ Ends(t) /\ UNCHANGED <<meta, view>>
      BY <1>5, <2>3 DEF ForgetAttempt
    <2> HIDE DEF rec
    <2>8. old.completed => Reproducible(s, rec)'
      BY <2>4, <2>6, <2>7, ReproducibleKept
    <2>9. Reproducible(s, rec)' = Reproducible(s, rec)
      BY <2>7 DEF Reproducible, Terminal, DeriveInput, OnEvm
    <2>10. ReadsAsNow(t)' /\ \A u \in Tasks \ {t} : task'[u] = task[u]
      BY <2>7, EndsFacts, IdleTaskFacts DEF ReadsAsNow, OnRail
    <2> QED
      BY <1>1, <2>1, <2>3, <2>5, <2>6, <2>7, <2>8, <2>9, <2>10, SavesCompletion DEF RecordPlaces
  <1> QED
    BY <1>2, <1>3, <1>4, <1>5 DEF Resolving

LEMMA FaultCompletion ==
    ASSUME TypeInv, CompletionInv, DropWorker \/ Crash
    PROVE  CompletionInv'
  <1>1. UNCHANGED <<journal, meta, view>>
    BY DEF DropWorker, Crash, durable, chain
  <1>2. CompletionReproducible'
    BY <1>1, SameCompletion DEF CompletionInv
  <1>3. ASSUME NEW u \in Tasks
        PROVE  ReadsAsNow(u)'
    <2>1. task'[u] = IdleTask \/ (task'[u] = task[u] /\ UNCHANGED record)
      BY DEF DropWorker, Crash, memory
    <2>2. CASE task'[u] = IdleTask
      BY <2>2, IdleTaskFacts DEF ReadsAsNow, OnRail
    <2>3. CASE task'[u] = task[u] /\ UNCHANGED record
      BY <1>1, <2>3 DEF CompletionInv, ReadsAsNow, OnRail, Automatic, Record
    <2> QED
      BY <2>1, <2>2, <2>3
  <1> QED
    BY <1>2, <1>3 DEF CompletionInv

LEMMA NextCompletionInv ==
    ASSUME Lasting, TypeInv, JournalInv, CompletionInv, [Next]_vars
    PROVE  CompletionInv'
  <1>1. CASE UNCHANGED vars
    BY <1>1, TasksKeepCompletion DEF vars, durable, memory, chain
  <1>2. CASE Next
    <2>1. ASSUME NEW t \in Tasks, Reconcile(t)
          PROVE  CompletionInv'
      BY <2>1, LockRecordCompletion, BeginAttemptCompletion, ConcludeCompletion DEF Reconcile
    <2>2. ASSUME NEW t \in Tasks, StorageFails(t) \/ DropCall(t)
          PROVE  CompletionInv'
      BY <2>2, EndsCompletion DEF StorageFails, DropCall, durable, memory, chain
    <2>3. ASSUME NEW t \in Tasks, NEW s \in Swaps, Call(t, s)
          PROVE  CompletionInv'
      BY <2>3, RegistrationCompletion, CallCompletion DEF Call
    <2>4. ASSUME NEW t \in Tasks, Restore(t)
          PROVE  CompletionInv'
      BY <2>4, RegistrationCompletion, TrackerAssumption
    <2>5. Operators \subseteq Tasks
      BY DEF Tasks
    <2> QED
      BY <1>2, <2>1, <2>2, <2>3, <2>4, <2>5, WorkerCompletion, RailCompletion, DisablingCompletion,
         ResolvingCompletion, EnvironmentCompletion, FaultCompletion DEF Next
  <1> QED
    BY <1>1, <1>2

\* On a chain that stands still a completed swap is found complete again from its journal
\* alone, after every crash, pushed status, resolution and retirement: no restart undoes it.
\* New options, an attested submission and a claim made by hand may reopen a swap, so the
\* application makes no such call.
THEOREM CompletionOutlives ==
    ASSUME "view" \notin Faults, Calls \intersect {"options", "attest", "byHand"} = {}
    PROVE  Spec /\ ResolvesOnlyEnabled => []CompletionReproducible
  <1>1. Lasting
    BY DEF Lasting
  <1>2. TypeInv /\ JournalInv /\ CompletionInv /\ [Next]_vars => CompletionInv'
    BY <1>1, NextCompletionInv
  <1>3. CompletionInv => CompletionReproducible
    BY DEF CompletionInv
  <1> QED
    BY <1>2, <1>3, InitCompletionInv, Kept, PTL DEF Spec
==============================================================================
