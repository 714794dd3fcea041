-------------------------- MODULE SwapTrackerProofs --------------------------
(***************************************************************************)
(* What holds of the tracker for every set of swaps, tasks, options, views *)
(* and faults.                                                             *)
(***************************************************************************)
EXTENDS TrackerProperties, TLAPS

(***************************************************************************)
(* The inductive invariant: the types, and who holds a record while its    *)
(* attempt is being run.  A run updates the attempt it began, so typing    *)
(* its result needs that nobody took the attempt away meanwhile.           *)
(***************************************************************************)

\* Places at which a task works on the entry it looked up.
EntryPlaces == {"lock", "decide", "finish", "enter", "untrackLock", "retireLock", "sweep", "options",
                "proveLock", "release", "forget", "attestLock"}

\* Of these, the places at which it holds the entry's record.
RecordPlaces == {"decide", "finish", "enter", "sweep", "release", "forget"}

HasEntry == \A t \in Tasks : task[t].at \in EntryPlaces => task[t].object # 0

HoldsRecord ==
    \A t \in Tasks : task[t].at \in RecordPlaces \/ Automatic(t) =>
        holder[task[t].swap][task[t].object] = t

RunHasAttempt == \A t \in Tasks : Automatic(t) => Record(t).attempt # NoAttempt

TypeInv == TypeOK /\ HasEntry /\ HoldsRecord /\ RunHasAttempt

LEMMA IdleTaskFacts ==
    /\ IdleTask \in Task
    /\ IdleTask.at = "idle" /\ IdleTask.object = 0
    /\ IdleTask.seen.view \in Views
  <1>1. (CHOOSE s \in Swaps : TRUE) \in Swaps
    BY TrackerAssumption
  <1>2. (CHOOSE v \in Views : TRUE) \in Views
    BY TrackerAssumption
  <1>3. 0 \in 0 .. MaxObjects
    BY TrackerAssumption
  <1> QED
    BY <1>1, <1>2, <1>3 DEF IdleTask, Task, Place, Kinds, Seen

LEMMA BlankRecordType == BlankRecord \in TrackingRecord
  <1>1. (CHOOSE options \in Options : TRUE) \in Options
    BY TrackerAssumption
  <1> QED
    BY <1>1 DEF BlankRecord, NewRecord, TrackingRecord

LEMMA NoSweepType == NoSweep \in [left : SUBSET Swaps, used : SUBSET AllKeys]
  BY DEF NoSweep

LEMMA NewObjectType ==
    ASSUME NEW s \in Swaps, Fresh(s) # {}
    PROVE  NewObject(s) \in Fresh(s) /\ NewObject(s) \in Objects /\ NewObject(s) # 0
  <1>1. NewObject(s) \in Fresh(s)
    BY DEF NewObject
  <1> QED
    BY <1>1, TrackerAssumption DEF Fresh, Objects

LEMMA NextCountType ==
    ASSUME NEW s \in Swaps, NEW k \in Kinds, NEW attempt \in Attempt \union {NoAttempt},
           NextCount(s, attempt, k) # 0
    PROVE  NextCount(s, attempt, k) \in 1 .. MaxAttempts
  <1>1. CASE attempt = NoAttempt
    BY <1>1, TrackerAssumption DEF NextCount
  <1>2. CASE attempt # NoAttempt
    BY <1>2, TrackerAssumption DEF NextCount, Attempt
  <1> QED
    BY <1>1, <1>2

LEMMA InitTypeInv == Init => TypeInv
  <1> SUFFICES ASSUME Init PROVE TypeInv
    OBVIOUS
  <1> USE IdleTaskFacts, BlankRecordType, TrackerAssumption
  <1>1. TypeOK
    BY NoSweepType DEF TypeOK, Init, NothingInstalled, BlankRecords, NothingHinted, RecordsFree, RailsFree
  <1>2. HasEntry /\ HoldsRecord /\ RunHasAttempt
    BY DEF Init, HasEntry, HoldsRecord, RunHasAttempt, EntryPlaces, RecordPlaces, Automatic, OnRail
  <1> QED
    BY <1>1, <1>2 DEF TypeInv

-----------------------------------------------------------------------------
(* Every action keeps it. *)

\* Actions that move no task and touch no record.
LEMMA TasksUntouched ==
    ASSUME TypeInv, TypeOK', UNCHANGED <<task, holder, record>>
    PROVE  TypeInv'
  BY DEF TypeInv, HasEntry, HoldsRecord, RunHasAttempt, Automatic, OnRail, Record

LEMMA StutterTypeInv ==
    ASSUME TypeInv, UNCHANGED vars
    PROVE  TypeInv'
  <1>1. TypeOK'
    BY DEF TypeInv, TypeOK, vars, durable, chain, memory, queue, clock, locks
  <1> QED
    BY <1>1, TasksUntouched DEF vars, durable, chain, memory, queue, clock, locks

LEMMA WorkerTypeInv ==
    ASSUME TypeInv, FullTick \/ RiskTick \/ WorkerWake
    PROVE  TypeInv'
  <1> USE DEF durable, chain, memory, queue, clock, locks
  <1>1. TypeOK'
    BY DEF TypeInv, TypeOK, FullTick, RiskTick, WorkerWake, Refresh, Tracked
  <1> QED
    BY <1>1, TasksUntouched DEF FullTick, RiskTick, WorkerWake, Refresh

LEMMA EnvironmentTypeInv ==
    ASSUME TypeInv, NEW s \in Swaps, Environment(s)
    PROVE  TypeInv'
  <1> USE DEF durable, chain, memory, queue, clock, locks
  <1>1. CASE Hint(s)
    <2>1. TypeOK'
      BY <1>1 DEF TypeInv, TypeOK, Hint, Wake
    <2> QED
      BY <1>1, <2>1, TasksUntouched DEF Hint
  <1>2. CASE HintStatus(s)
    <2>1. installed[s] \in Objects
      BY <1>2, TrackerAssumption DEF HintStatus, Tracked, TypeInv, TypeOK, Objects
    <2>2. TypeOK'
      BY <1>2, <2>1 DEF TypeInv, TypeOK, HintStatus, Wake
    <2> QED
      BY <1>2, <2>2, TasksUntouched DEF HintStatus
  <1>3. CASE DeadlinePasses(s)
    <2>1. TypeOK'
      BY <1>3 DEF TypeInv, TypeOK, DeadlinePasses, Wake
    <2> QED
      BY <1>3, <2>1, TasksUntouched DEF DeadlinePasses
  <1>4. CASE RetirePeriodPasses(s)
    <2>1. TypeOK'
      BY <1>4 DEF TypeInv, TypeOK, RetirePeriodPasses
    <2> QED
      BY <1>4, <2>1, TasksUntouched DEF RetirePeriodPasses
  <1>5. CASE ViewChanges(s)
    <2>1. TypeOK'
      BY <1>5 DEF TypeInv, TypeOK, ViewChanges
    <2> QED
      BY <1>5, <2>1, TasksUntouched DEF ViewChanges
  <1> QED
    BY <1>1, <1>2, <1>3, <1>4, <1>5 DEF Environment

\* A task that ends or is dropped gives back what it held; the others keep theirs.
LEMMA EndsTypeInv ==
    ASSUME TypeInv, NEW t \in Tasks, Ends(t), UNCHANGED <<durable, chain, memory, queue, clock>>
    PROVE  TypeInv'
  <1> USE DEF durable, chain, memory, queue, clock
  <1>1. TypeOK'
    BY NoSweepType, IdleTaskFacts DEF TypeInv, TypeOK, Ends, Returned
  <1>2. HasEntry'
    BY IdleTaskFacts DEF TypeInv, TypeOK, HasEntry, Ends, EntryPlaces
  <1>3. ASSUME NEW u \in Tasks, task'[u].at \in RecordPlaces \/ Automatic(u)'
        PROVE  u # t /\ task'[u] = task[u] /\ Automatic(u) = Automatic(u)'
    BY <1>3, IdleTaskFacts DEF TypeInv, TypeOK, Ends, RecordPlaces, Automatic, OnRail
  <1>4. HoldsRecord'
    <2> SUFFICES ASSUME NEW u \in Tasks, task'[u].at \in RecordPlaces \/ Automatic(u)'
                 PROVE  holder'[task'[u].swap][task'[u].object] = u
      BY DEF HoldsRecord
    <2>1. u # t /\ task'[u] = task[u] /\ holder[task[u].swap][task[u].object] = u
      BY <1>3 DEF TypeInv, HoldsRecord
    <2>2. task[u].swap \in Swaps /\ task[u].object \in Objects
      BY <2>1, <1>3, TrackerAssumption
         DEF TypeInv, TypeOK, Task, HasEntry, EntryPlaces, RecordPlaces, Automatic, OnRail, Objects
    <2> QED
      BY <2>1, <2>2 DEF Ends, Returned
  <1>5. RunHasAttempt'
    BY <1>3 DEF TypeInv, RunHasAttempt, Record, Automatic
  <1> QED
    BY <1>1, <1>2, <1>4, <1>5 DEF TypeInv

\* A tracked swap gets an object nobody holds, so no task's record changes under it.
LEMMA InstallTypeInv ==
    ASSUME TypeInv, NEW S \in SUBSET Swaps, NEW recs, \A s \in S : recs[s] \in TrackingRecord,
           Install(S, recs)
    PROVE  TypeInv'
  <1> USE DEF durable, chain, memory, queue, clock, locks
  <1>1. \A s \in S : NewObject(s) \in Fresh(s) /\ NewObject(s) \in Objects /\ NewObject(s) # 0
    BY NewObjectType DEF Install
  <1>2. TypeOK'
    <2>1. journal' \in [Swaps -> TrackingRecord \union {NoJournal}]
      BY DEF Install, TypeInv, TypeOK
    <2>2. installed' \in [Swaps -> 0 .. MaxObjects]
      BY <1>1, TrackerAssumption DEF Install, TypeInv, TypeOK, Objects
    <2>3. record' \in [Swaps -> [Objects -> TrackingRecord]]
      BY BlankRecordType DEF Install, TypeInv, TypeOK
    <2>4. hinted' \in [Swaps -> [Objects -> Hints \union {NoStatus}]]
      BY DEF Install, TypeInv, TypeOK, TrackingRecord
    <2>5. watched' \subseteq AllKeys
      BY DEF Install, TypeInv, TypeOK, AllKeys
    <2>6. pending' \subseteq Swaps /\ aged' \subseteq Swaps
      BY DEF Install, TypeInv, TypeOK
    <2> QED
      BY <2>1, <2>2, <2>3, <2>4, <2>5, <2>6 DEF Install, TypeInv, TypeOK
  <1>3. UNCHANGED <<task, holder>>
    BY DEF Install
  <1>4. HasEntry' /\ HoldsRecord'
    BY <1>3 DEF TypeInv, HasEntry, HoldsRecord, Automatic, OnRail
  <1>5. ASSUME NEW t \in Tasks, task[t].object # 0
        PROVE  Record(t)' = Record(t)
    <2>1. task[t].swap \in Swaps /\ task[t].object \in Objects
      BY <1>5, TrackerAssumption DEF TypeInv, TypeOK, Task, Objects
    <2>2. task[t].object \notin Fresh(task[t].swap)
      BY DEF Fresh
    <2>3. record'[task[t].swap][task[t].object] = record[task[t].swap][task[t].object]
      BY <1>1, <2>1, <2>2 DEF Install
    <2> QED
      BY <1>3, <2>3 DEF Record
  <1>6. RunHasAttempt'
    BY <1>3, <1>5 DEF TypeInv, RunHasAttempt, Automatic, OnRail
  <1> QED
    BY <1>2, <1>4, <1>6 DEF TypeInv

LEMMA RegistrationTypeInv ==
    ASSUME TypeInv, NEW t \in Tasks, NEW s \in Swaps, TrackSwap(t, s) \/ Resume(t, s) \/ Restore(t)
    PROVE  TypeInv'
  <1>1. CASE TrackSwap(t, s)
    <2>1. PICK options \in Options : Install({s}, [r \in {s} |-> NewRecord(options)])
      BY <1>1 DEF TrackSwap
    <2>2. NewRecord(options) \in TrackingRecord
      BY DEF NewRecord, TrackingRecord
    <2> QED
      BY <2>1, <2>2, InstallTypeInv
  <1>2. CASE Resume(t, s)
    <2>1. journal[s] \in TrackingRecord
      BY <1>2 DEF Resume, TypeInv, TypeOK
    <2>2. [journal[s] EXCEPT !.enabled = TRUE, !.completed = FALSE] \in TrackingRecord
      BY <2>1 DEF TrackingRecord
    <2> QED
      BY <1>2, <2>2, InstallTypeInv DEF Resume
  <1>3. CASE Restore(t)
    <2>1. PICK S \in SUBSET Restorable : Install(S, journal)
      BY <1>3 DEF Restore
    <2>2. \A r \in S : journal[r] \in TrackingRecord
      BY <2>1 DEF Restorable, TypeInv, TypeOK
    <2>3. S \in SUBSET Swaps
      BY <2>1 DEF Restorable
    <2> QED
      BY <2>1, <2>2, <2>3, InstallTypeInv
  <1> QED
    BY <1>1, <1>2, <1>3

\* A task that only moves on, to a place where it owns nothing it did not own, or that
\* looks up the entry of a tracked swap.
LEMMA MovesTypeInv ==
    ASSUME TypeInv, TypeOK', NEW t \in Tasks, UNCHANGED <<holder, record>>,
           \A u \in Tasks \ {t} : task'[u] = task[u],
           task'[t].at \in EntryPlaces => task'[t].object # 0,
           task'[t].at \in RecordPlaces \/ Automatic(t)' =>
               /\ holder[task'[t].swap][task'[t].object] = t
               /\ Automatic(t)' => record[task'[t].swap][task'[t].object].attempt # NoAttempt
    PROVE  TypeInv'
  <1>1. \A u \in Tasks \ {t} : Automatic(u)' = Automatic(u) /\ Record(u)' = Record(u)
    BY DEF Automatic, OnRail, Record
  <1>2. HasEntry'
    BY DEF TypeInv, HasEntry
  <1>3. HoldsRecord'
    BY <1>1 DEF TypeInv, HoldsRecord
  <1>4. RunHasAttempt'
    BY <1>1 DEF TypeInv, RunHasAttempt, Record
  <1> QED
    BY <1>2, <1>3, <1>4 DEF TypeInv

LEMMA LooksFacts ==
    ASSUME TypeInv, NEW t \in Tasks, NEW s \in Tracked, NEW place \in Place, Looks(t, s, place)
    PROVE  /\ task' \in [Tasks -> Task]
           /\ task'[t].at = place /\ task'[t].object # 0
           /\ \A u \in Tasks \ {t} : task'[u] = task[u]
  <1>1. s \in Swaps /\ installed[s] \in 0 .. MaxObjects /\ installed[s] # 0
    BY DEF Tracked, TypeInv, TypeOK
  <1> DEFINE moved == [IdleTask EXCEPT !.at = place, !.swap = s, !.object = installed[s]]
  <1>2. moved \in Task /\ moved.at = place /\ moved.object = installed[s]
    BY <1>1, IdleTaskFacts DEF Task
  <1>3. task' = [task EXCEPT ![t] = moved] /\ task \in [Tasks -> Task]
    BY DEF Looks, TypeInv, TypeOK
  <1> HIDE DEF moved
  <1> QED
    BY <1>1, <1>2, <1>3

LEMMA CallTypeInv ==
    ASSUME TypeInv, NEW t \in Tasks, NEW s \in Swaps,
           \/ CallReconcile(t, s) \/ Untrack(t, s) \/ CallUpdateOptions(t, s)
           \/ CallProveUnsent(t, s) \/ CallAttestSent(t, s)
    PROVE  TypeInv'
  <1> USE DEF durable, chain, memory, queue, clock, locks
  <1>1. PICK place \in {"lock", "untrackLock", "options", "proveLock", "attestLock"} :
            Looks(t, s, place) /\ s \in Tracked
    BY DEF CallReconcile, Untrack, CallUpdateOptions, CallProveUnsent, CallAttestSent
  <1>2. UNCHANGED <<durable, chain, memory, queue, clock, holder, execution, sweep>>
        /\ registration' \in {registration, t}
    BY DEF CallReconcile, Untrack, CallUpdateOptions, CallProveUnsent, CallAttestSent
  <1>3. place \in Place
    BY DEF Place
  <1>4. TypeOK'
    BY <1>1, <1>2, <1>3, LooksFacts DEF TypeInv, TypeOK
  <1>5. task'[t].at = place /\ task'[t].object # 0 /\ \A u \in Tasks \ {t} : task'[u] = task[u]
    BY <1>1, <1>3, LooksFacts
  <1>6. task'[t].at \notin RecordPlaces /\ ~Automatic(t)'
    BY <1>1, <1>5 DEF RecordPlaces, Automatic, OnRail
  <1> QED
    BY <1>2, <1>4, <1>5, <1>6, MovesTypeInv

LEMMA StartReconcileTypeInv ==
    ASSUME TypeInv, NEW t \in Tasks, StartReconcile(t)
    PROVE  TypeInv'
  <1> USE DEF durable, chain, memory, queue, clock, locks
  <1>1. PICK s \in batch : /\ batch' = batch \ {s}
                           /\ IF s \in Tracked THEN Looks(t, s, "lock") ELSE UNCHANGED task
    BY DEF StartReconcile
  <1>2. s \in Swaps
    BY DEF TypeInv, TypeOK
  <1>3. CASE s \in Tracked
    <2>1. "lock" \in Place
      BY DEF Place
    <2>3. /\ task' \in [Tasks -> Task]
          /\ task'[t].at = "lock" /\ task'[t].object # 0 /\ \A u \in Tasks \ {t} : task'[u] = task[u]
      BY <1>1, <1>3, <2>1, LooksFacts
    <2>2. TypeOK'
      BY <1>1, <2>3 DEF StartReconcile, TypeInv, TypeOK
    <2>4. task'[t].at \notin RecordPlaces /\ ~Automatic(t)'
      BY <2>3 DEF RecordPlaces, Automatic, OnRail
    <2> QED
      BY <2>2, <2>3, <2>4, MovesTypeInv DEF StartReconcile
  <1>4. CASE s \notin Tracked
    <2>1. TypeOK'
      BY <1>1, <1>4 DEF StartReconcile, TypeInv, TypeOK
    <2> QED
      BY <1>1, <1>4, <2>1, TasksUntouched DEF StartReconcile
  <1> QED
    BY <1>3, <1>4

\* The object a task works on, and its record.
LEMMA EntryFacts ==
    ASSUME TypeInv, NEW t \in Tasks, task[t].at \in EntryPlaces \/ Automatic(t)
    PROVE  /\ task[t].swap \in Swaps /\ task[t].object \in Objects /\ task[t].object # 0
           /\ Record(t) \in TrackingRecord
           /\ task[t].at \in RecordPlaces \/ Automatic(t) =>
                  holder[task[t].swap][task[t].object] = t
  <1>1. task[t].swap \in Swaps /\ task[t].object \in Objects /\ task[t].object # 0
    BY TrackerAssumption DEF TypeInv, TypeOK, Task, HasEntry, Automatic, Objects
  <1> QED
    BY <1>1 DEF TypeInv, TypeOK, Record, HoldsRecord

\* One task steps: it may write a record that no other task holds.
LEMMA StepTypeInv ==
    ASSUME TypeInv, TypeOK', NEW t \in Tasks,
           \A u \in Tasks \ {t} : task'[u] = task[u],
           \A u \in Tasks \ {t}, s \in Swaps, o \in Objects :
               holder[s][o] = u => holder'[s][o] = u /\ record'[s][o] = record[s][o],
           task'[t].at \in EntryPlaces => task'[t].object # 0,
           task'[t].at \in RecordPlaces \/ Automatic(t)' =>
               holder'[task'[t].swap][task'[t].object] = t,
           Automatic(t)' => record'[task'[t].swap][task'[t].object].attempt # NoAttempt
    PROVE  TypeInv'
  <1>1. ASSUME NEW u \in Tasks \ {t}, task[u].at \in RecordPlaces \/ Automatic(u)
        PROVE  /\ holder'[task[u].swap][task[u].object] = u
               /\ record'[task[u].swap][task[u].object] = record[task[u].swap][task[u].object]
    <2>1. task[u].at \in EntryPlaces \/ Automatic(u)
      BY <1>1 DEF EntryPlaces, RecordPlaces
    <2>2. /\ task[u].swap \in Swaps /\ task[u].object \in Objects
          /\ holder[task[u].swap][task[u].object] = u
      BY <1>1, <2>1, EntryFacts
    <2> QED
      BY <2>2
  <1>2. \A u \in Tasks \ {t} : Automatic(u)' = Automatic(u)
    BY DEF Automatic, OnRail
  <1>3. HasEntry'
    BY DEF TypeInv, HasEntry
  <1>4. HoldsRecord'
    BY <1>1, <1>2 DEF HoldsRecord
  <1>5. RunHasAttempt'
    <2>1. ASSUME NEW u \in Tasks \ {t}, Automatic(u)'
          PROVE  Record(u)'.attempt # NoAttempt
      <3>1. Automatic(u) /\ task'[u] = task[u]
        BY <1>2, <2>1
      <3>2. Record(u).attempt # NoAttempt
        BY <3>1 DEF TypeInv, RunHasAttempt
      <3>3. Record(u)' = Record(u)
        BY <1>1, <3>1 DEF Record
      <3> QED
        BY <3>2, <3>3
    <2>2. Automatic(t)' => Record(t)'.attempt # NoAttempt
      BY DEF Record
    <2> QED
      BY <2>1, <2>2 DEF RunHasAttempt
  <1> QED
    BY <1>3, <1>4, <1>5 DEF TypeInv

LEMMA SaveFacts ==
    ASSUME TypeInv, NEW t \in Tasks, task[t].swap \in Swaps, task[t].object \in Objects,
           holder[task[t].swap][task[t].object] \in {t, Free},
           NEW rec \in TrackingRecord, Save(t, rec)
    PROVE  /\ journal' \in [Swaps -> TrackingRecord \union {NoJournal}]
           /\ record' \in [Swaps -> [Objects -> TrackingRecord]]
           /\ record'[task[t].swap][task[t].object] = rec
           /\ \A u \in Tasks \ {t}, s \in Swaps, o \in Objects :
                  holder[s][o] = u => record'[s][o] = record[s][o]
  <1>1. Free \notin Tasks
    BY TrackerAssumption
  <1> QED
    BY <1>1 DEF Save, TypeInv, TypeOK

\* The guards of the others survive the end of one task.
LEMMA EndsFacts ==
    ASSUME TypeInv, NEW t \in Tasks, Ends(t)
    PROVE  /\ task' \in [Tasks -> Task] /\ task'[t] = IdleTask
           /\ \A u \in Tasks \ {t} : task'[u] = task[u]
           /\ holder' \in [Swaps -> [Objects -> Tasks \union {Free}]]
           /\ registration' \in Tasks \union {Free}
           /\ execution' \in [RailLocks -> Tasks \union {Free}]
           /\ sweep' \in [left : SUBSET Swaps, used : SUBSET AllKeys]
           /\ \A u \in Tasks \ {t}, s \in Swaps, o \in Objects :
                  holder[s][o] = u => holder'[s][o] = u
           /\ task'[t].at \notin EntryPlaces /\ task'[t].at \notin RecordPlaces /\ ~Automatic(t)'
  <1>1. task' \in [Tasks -> Task] /\ task'[t] = IdleTask /\ \A u \in Tasks \ {t} : task'[u] = task[u]
    BY IdleTaskFacts DEF Ends, TypeInv, TypeOK
  <1>2. /\ holder' \in [Swaps -> [Objects -> Tasks \union {Free}]]
        /\ registration' \in Tasks \union {Free}
        /\ execution' \in [RailLocks -> Tasks \union {Free}]
        /\ sweep' \in [left : SUBSET Swaps, used : SUBSET AllKeys]
    BY NoSweepType DEF Ends, Returned, TypeInv, TypeOK
  <1>3. \A u \in Tasks \ {t}, s \in Swaps, o \in Objects : holder[s][o] = u => holder'[s][o] = u
    BY DEF Ends, Returned, TypeInv, TypeOK
  <1>4. task'[t].at \notin EntryPlaces /\ task'[t].at \notin RecordPlaces /\ ~Automatic(t)'
    BY <1>1, IdleTaskFacts DEF EntryPlaces, RecordPlaces, Automatic, OnRail
  <1> QED
    BY <1>1, <1>2, <1>3, <1>4

LEMMA TakeRecordFacts ==
    ASSUME TypeInv, NEW t \in Tasks, task[t].swap \in Swaps, task[t].object \in Objects, TakeRecord(t)
    PROVE  /\ holder' \in [Swaps -> [Objects -> Tasks \union {Free}]]
           /\ holder'[task[t].swap][task[t].object] = t
           /\ holder[task[t].swap][task[t].object] = Free
           /\ \A u \in Tasks \ {t}, s \in Swaps, o \in Objects :
                  holder[s][o] = u => holder'[s][o] = u
  <1>1. Free \notin Tasks
    BY TrackerAssumption
  <1> QED
    BY <1>1 DEF TakeRecord, LockFree, TypeInv, TypeOK

\* A task that goes to another place keeps its entry.
LEMMA GoesFacts ==
    ASSUME TypeInv, NEW t \in Tasks, NEW place \in Place, Goes(t, place)
    PROVE  /\ task' \in [Tasks -> Task]
           /\ task'[t].at = place /\ task'[t].swap = task[t].swap /\ task'[t].object = task[t].object
           /\ task'[t].kind = task[t].kind
           /\ \A u \in Tasks \ {t} : task'[u] = task[u]
  BY DEF Goes, TypeInv, TypeOK, Task

LEMMA PutRecord ==
    ASSUME TypeInv, NEW s \in Swaps, NEW o \in Objects, NEW rec \in TrackingRecord,
           record' = [record EXCEPT ![s][o] = rec]
    PROVE  /\ record' \in [Swaps -> [Objects -> TrackingRecord]]
           /\ \A r \in Swaps, q \in Objects : r # s \/ q # o => record'[r][q] = record[r][q]
  BY DEF TypeInv, TypeOK

LEMMA PutTask ==
    ASSUME TypeInv, NEW t \in Tasks, NEW m \in Task, task' = [task EXCEPT ![t] = m]
    PROVE  /\ task' \in [Tasks -> Task] /\ task'[t] = m
           /\ \A u \in Tasks \ {t} : task'[u] = task[u]
  BY DEF TypeInv, TypeOK

LEMMA LockRecordTypeInv ==
    ASSUME TypeInv, NEW t \in Tasks, LockRecord(t)
    PROVE  TypeInv'
  <1> USE DEF durable, chain, memory, queue, clock, locks
  <1>1. /\ task[t].swap \in Swaps /\ task[t].object \in Objects /\ task[t].object # 0
        /\ task[t].at = "lock"
    BY EntryFacts DEF LockRecord, EntryPlaces
  <1>2. CASE Record(t).enabled
    <2>1. TakeRecord(t) /\ UNCHANGED <<record, journal>>
      BY <1>2 DEF LockRecord
    <2> DEFINE read == [view |-> view[task[t].swap], status |-> hinted[task[t].swap][task[t].object]]
    <2>2. read \in Seen
      BY <1>1 DEF Seen, TypeInv, TypeOK
    <2>3. task' = [task EXCEPT ![t].at = "decide", ![t].seen = read]
      BY <1>2 DEF LockRecord
    <2>4. "decide" \in Place
      BY DEF Place
    <2> HIDE DEF read
    <2>5. /\ task' \in [Tasks -> Task]
          /\ task'[t].at = "decide" /\ task'[t].swap = task[t].swap /\ task'[t].object = task[t].object
          /\ \A u \in Tasks \ {t} : task'[u] = task[u]
      BY <2>2, <2>3, <2>4 DEF TypeInv, TypeOK, Task
    <2>6. TypeOK'
      BY <1>1, <1>2, <2>1, <2>5, TakeRecordFacts DEF LockRecord, TypeInv, TypeOK
    <2>7. ~Automatic(t)'
      BY <2>5 DEF Automatic, OnRail
    <2> QED
      BY <1>1, <2>1, <2>5, <2>6, <2>7, TakeRecordFacts, StepTypeInv
  <1>3. CASE ~Record(t).enabled
    BY <1>3, EndsTypeInv DEF LockRecord
  <1> QED
    BY <1>2, <1>3

LEMMA BeginAttemptTypeInv ==
    ASSUME TypeInv, NEW t \in Tasks, BeginAttempt(t)
    PROVE  TypeInv'
  <1> USE DEF durable, chain, memory, queue, clock, locks
  <1>1. /\ task[t].swap \in Swaps /\ task[t].object \in Objects /\ task[t].object # 0
        /\ Record(t) \in TrackingRecord
        /\ holder[task[t].swap][task[t].object] = t
    BY EntryFacts DEF BeginAttempt, EntryPlaces, RecordPlaces
  <1>2. Derived(t) \in Kinds
    BY DEF BeginAttempt, RunsNow, Permitted, Kinds
  <1> DEFINE count == NextCount(task[t].swap, Record(t).attempt, Derived(t))
             run == [action |-> Derived(t), state |-> "Running", count |-> count]
             rec == [Record(t) EXCEPT !.attempt = run]
  <1>3. count \in 1 .. MaxAttempts
    BY <1>1, <1>2, NextCountType DEF BeginAttempt, RunsNow, TrackingRecord
  <1>4. run \in Attempt
    BY <1>2, <1>3 DEF Attempt, AttemptState
  <1>5. rec \in TrackingRecord /\ rec.attempt # NoAttempt
    BY <1>1, <1>4, TrackerAssumption DEF TrackingRecord
  <1>6. Save(t, rec) /\ UNCHANGED holder
    BY DEF BeginAttempt
  <1>7. task' = [task EXCEPT ![t].at = "enter", ![t].kind = Derived(t), ![t].seen.view = IdleTask.seen.view]
    BY DEF BeginAttempt
  <1> HIDE DEF count, run, rec
  <1>8. "enter" \in Place
    BY DEF Place
  <1>9. /\ task' \in [Tasks -> Task]
        /\ task'[t].at = "enter" /\ task'[t].swap = task[t].swap /\ task'[t].object = task[t].object
        /\ \A u \in Tasks \ {t} : task'[u] = task[u]
    <2>1. task[t] \in Task
      BY DEF TypeInv, TypeOK
    <2> DEFINE m == [task[t] EXCEPT !.at = "enter", !.kind = Derived(t), !.seen.view = IdleTask.seen.view]
    <2>2. m \in Task
      BY <1>2, <1>8, <2>1, IdleTaskFacts DEF Task, Seen
    <2>3. m.at = "enter" /\ m.swap = task[t].swap /\ m.object = task[t].object
      BY <2>1 DEF Task
    <2>4. task' = [task EXCEPT ![t] = m]
      BY <1>7
    <2> HIDE DEF m
    <2> QED
      BY <2>2, <2>3, <2>4, PutTask
  <1>10. TypeOK'
    BY <1>1, <1>5, <1>6, <1>9, SaveFacts DEF BeginAttempt, TypeInv, TypeOK
  <1> QED
    BY <1>1, <1>5, <1>6, <1>9, <1>10, SaveFacts, StepTypeInv

LEMMA ConcludeTypeInv ==
    ASSUME TypeInv, NEW t \in Tasks, Conclude(t)
    PROVE  TypeInv'
  <1> USE DEF durable, chain, memory, queue, clock, locks
  <1>1. /\ task[t].swap \in Swaps /\ task[t].object \in Objects /\ task[t].object # 0
        /\ Record(t) \in TrackingRecord
        /\ holder[task[t].swap][task[t].object] = t
    BY EntryFacts DEF Conclude, EntryPlaces, RecordPlaces
  <1> DEFINE ended == Terminal(Record(t), Derived(t))
             next == Concluded(t)
  <1>2. ended \in BOOLEAN
    BY DEF Terminal
  <1>3. task[t].seen.status \in Hints \union {NoStatus}
    BY DEF TypeInv, TypeOK, Task, Seen
  <1> HIDE DEF ended
  <1>4. next \in TrackingRecord
    BY <1>1, <1>2, <1>3 DEF Concluded, TrackingRecord, ended
  <1>5. Save(t, next) /\ holder' = [holder EXCEPT ![task[t].swap][task[t].object] = Free]
    BY DEF Conclude
  <1>6. aged' \subseteq Swaps
    BY DEF Conclude, TypeInv, TypeOK
  <1>7. task' = [task EXCEPT ![t] = IdleTask]
        \/ task' = [task EXCEPT ![t] = [IdleTask EXCEPT !.at = "retire", !.swap = task[t].swap]]
    BY DEF Conclude
  <1> HIDE DEF next
  <1>8. [IdleTask EXCEPT !.at = "retire", !.swap = task[t].swap] \in Task
    BY <1>1, IdleTaskFacts DEF Task, Place
  <1>9. /\ task' \in [Tasks -> Task]
        /\ task'[t].at \in {"idle", "retire"}
        /\ \A u \in Tasks \ {t} : task'[u] = task[u]
    <2>1. PICK m \in Task : task' = [task EXCEPT ![t] = m] /\ m.at \in {"idle", "retire"}
      BY <1>1, <1>7, <1>8, IdleTaskFacts DEF Task
    <2> QED
      BY <2>1, PutTask
  <1>10. /\ holder' \in [Swaps -> [Objects -> Tasks \union {Free}]]
         /\ \A u \in Tasks \ {t}, s \in Swaps, o \in Objects : holder[s][o] = u => holder'[s][o] = u
    BY <1>1, <1>5 DEF TypeInv, TypeOK
  <1>11. TypeOK'
    BY <1>1, <1>4, <1>5, <1>6, <1>9, <1>10, SaveFacts DEF Conclude, TypeInv, TypeOK
  <1>12. task'[t].at \notin EntryPlaces /\ task'[t].at \notin RecordPlaces /\ ~Automatic(t)'
    BY <1>9 DEF EntryPlaces, RecordPlaces, Automatic, OnRail
  <1> QED
    BY <1>1, <1>4, <1>5, <1>9, <1>10, <1>11, <1>12, SaveFacts, StepTypeInv

-----------------------------------------------------------------------------
(* The rails: a run of the tracker owns its record throughout; the          *)
(* application's own call has none.                                         *)

LEMMA EndRunTypeInv ==
    ASSUME TypeInv, NEW t \in Tasks, OnRail(t), NEW state \in AttemptState, EndRun(t, state)
    PROVE  TypeInv'
  <1> USE DEF durable, chain, memory, queue, clock, locks
  <1>1. execution' \in [RailLocks -> Tasks \union {Free}]
    BY DEF EndRun, Returned, TypeInv, TypeOK
  <1>2. CASE task[t].object = 0
    <2>1. task' = [task EXCEPT ![t] = IdleTask] /\ UNCHANGED <<journal, record>>
      BY <1>2 DEF EndRun
    <2>2. /\ task' \in [Tasks -> Task] /\ task'[t] = IdleTask
          /\ \A u \in Tasks \ {t} : task'[u] = task[u]
      BY <2>1, IdleTaskFacts, PutTask
    <2>3. task'[t].at \notin EntryPlaces /\ task'[t].at \notin RecordPlaces /\ ~Automatic(t)'
      BY <2>2, IdleTaskFacts DEF EntryPlaces, RecordPlaces, Automatic, OnRail
    <2>4. TypeOK'
      BY <1>1, <2>1, <2>2 DEF EndRun, TypeInv, TypeOK
    <2> QED
      BY <2>1, <2>2, <2>3, <2>4, MovesTypeInv DEF EndRun
  <1>3. CASE task[t].object # 0
    <2>1. Automatic(t)
      BY <1>3 DEF Automatic
    <2>2. /\ task[t].swap \in Swaps /\ task[t].object \in Objects
          /\ Record(t) \in TrackingRecord
          /\ holder[task[t].swap][task[t].object] = t
      BY <2>1, EntryFacts
    <2>3. Record(t).attempt \in Attempt
      BY <2>1, <2>2 DEF TypeInv, RunHasAttempt, TrackingRecord
    <2> DEFINE rec == [Record(t) EXCEPT !.attempt.state = state]
    <2>4. rec \in TrackingRecord
      BY <2>2, <2>3 DEF TrackingRecord, Attempt
    <2>5. Save(t, rec) /\ UNCHANGED holder
      BY <1>3 DEF EndRun
    <2> HIDE DEF rec
    <2> DEFINE m == [task[t] EXCEPT !.at = "finish", !.seen.view = view[task[t].swap]]
    <2>6. task[t] \in Task /\ view[task[t].swap] \in Views
      BY <2>2 DEF TypeInv, TypeOK
    <2>7. m \in Task /\ m.at = "finish" /\ m.swap = task[t].swap /\ m.object = task[t].object
      BY <2>6 DEF Task, Seen, Place
    <2>8. task' = [task EXCEPT ![t] = m]
      BY <1>3 DEF EndRun
    <2> HIDE DEF m
    <2>9. /\ task' \in [Tasks -> Task] /\ task'[t] = m
          /\ \A u \in Tasks \ {t} : task'[u] = task[u]
      BY <2>7, <2>8, PutTask
    <2>10. ~Automatic(t)'
      BY <2>7, <2>9 DEF Automatic, OnRail
    <2>11. TypeOK'
      BY <1>1, <2>2, <2>4, <2>5, <2>9, SaveFacts DEF EndRun, TypeInv, TypeOK
    <2> QED
      BY <1>3, <2>2, <2>4, <2>5, <2>7, <2>9, <2>10, <2>11, SaveFacts, StepTypeInv
  <1> QED
    BY <1>2, <1>3

\* A run moves along its rail.
LEMMA AlongRailTypeInv ==
    ASSUME TypeInv, TypeOK', NEW t \in Tasks, OnRail(t), NEW place \in {"reserve", "send", "note", "confirm"},
           Goes(t, place), UNCHANGED <<holder, record>>
    PROVE  TypeInv'
  <1>1. place \in Place
    BY DEF Place
  <1>2. /\ task'[t].at = place /\ task'[t].swap = task[t].swap /\ task'[t].object = task[t].object
        /\ \A u \in Tasks \ {t} : task'[u] = task[u]
    BY <1>1, GoesFacts
  <1>3. task'[t].at \notin EntryPlaces /\ task'[t].at \notin RecordPlaces
    BY <1>2 DEF EntryPlaces, RecordPlaces
  <1>4. ASSUME Automatic(t)'
        PROVE  /\ holder[task'[t].swap][task'[t].object] = t
               /\ record[task'[t].swap][task'[t].object].attempt # NoAttempt
    <2>1. Automatic(t)
      BY <1>2, <1>4 DEF Automatic
    <2>2. Record(t).attempt # NoAttempt
      BY <2>1 DEF TypeInv, RunHasAttempt
    <2> QED
      BY <1>2, <2>1, <2>2, EntryFacts DEF Record
  <1> QED
    BY <1>2, <1>3, <1>4, MovesTypeInv

LEMMA RailTypeInv ==
    ASSUME TypeInv, NEW t \in Tasks, Rail(t)
    PROVE  TypeInv'
  <1> USE DEF durable, chain, memory, queue, clock, locks
  <1>1. task[t].swap \in Swaps /\ task[t].kind \in Kinds
    BY DEF TypeInv, TypeOK, Task
  <1>2. OnRail(t)
    BY DEF Rail, EnterRail, FindOwnSpend, Reserve, Send, NoteHash, Confirm, FailRun, OnRail
  <1>3. CASE EnterRail(t)
    <2>1. Goes(t, "reserve") /\ UNCHANGED <<holder, record>>
      BY <1>3 DEF EnterRail, Enters
    <2>2. "reserve" \in Place
      BY DEF Place
    <2>3. task' \in [Tasks -> Task]
      BY <2>1, <2>2, GoesFacts
    <2>4. TypeOK'
      BY <1>3, <2>3 DEF EnterRail, Enters, TypeInv, TypeOK
    <2> QED
      BY <1>2, <2>1, <2>4, AlongRailTypeInv
  <1>4. CASE FindOwnSpend(t) \/ Confirm(t)
    BY <1>2, <1>4, EndRunTypeInv DEF FindOwnSpend, Confirm, AttemptState
  <1>5. CASE Reserve(t)
    <2>1. Goes(t, "send") /\ UNCHANGED <<holder, record>>
      BY <1>5 DEF Reserve
    <2>2. "send" \in Place
      BY DEF Place
    <2>3. task' \in [Tasks -> Task]
      BY <2>1, <2>2, GoesFacts
    <2>4. meta' \in [Swaps -> [started : SUBSET Kinds, recorded : SUBSET Kinds]]
      <3> DEFINE new == [meta[task[t].swap] EXCEPT !.started = @ \union {task[t].kind}]
      <3>1. new \in [started : SUBSET Kinds, recorded : SUBSET Kinds]
        <4>1. meta[task[t].swap] \in [started : SUBSET Kinds, recorded : SUBSET Kinds]
          BY <1>1 DEF TypeInv, TypeOK
        <4> QED
          BY <1>1, <4>1
      <3>2. meta' = [meta EXCEPT ![task[t].swap] = new]
        BY <1>5 DEF Reserve
      <3> HIDE DEF new
      <3> QED
        BY <1>1, <3>1, <3>2 DEF TypeInv, TypeOK
    <2>5. TypeOK'
      BY <1>5, <2>3, <2>4 DEF Reserve, TypeInv, TypeOK
    <2> QED
      BY <1>2, <2>1, <2>5, AlongRailTypeInv
  <1>6. CASE Send(t)
    <2>1. PICK place \in {"note", "confirm"} : Goes(t, place) /\ UNCHANGED <<holder, record>>
      BY <1>6 DEF Send
    <2>2. place \in Place
      BY DEF Place
    <2>3. task' \in [Tasks -> Task]
      BY <2>1, <2>2, GoesFacts
    <2>4. sent[task[t].swap][task[t].kind] + 1 \in 0 .. MaxSent
      BY <1>1, <1>6, TrackerAssumption DEF Send, TypeInv, TypeOK
    <2>5. sent' \in [Swaps -> [Kinds -> 0 .. MaxSent]]
      BY <1>1, <1>6, <2>4 DEF Send, TypeInv, TypeOK
    <2>6. TypeOK'
      BY <1>6, <2>3, <2>5 DEF Send, TypeInv, TypeOK
    <2> QED
      BY <1>2, <2>1, <2>6, AlongRailTypeInv
  <1>7. CASE NoteHash(t)
    <2>1. Goes(t, "confirm") /\ UNCHANGED <<holder, record>>
      BY <1>7 DEF NoteHash
    <2>2. "confirm" \in Place
      BY DEF Place
    <2>3. task' \in [Tasks -> Task]
      BY <2>1, <2>2, GoesFacts
    <2>4. meta' \in [Swaps -> [started : SUBSET Kinds, recorded : SUBSET Kinds]]
      <3> DEFINE new == [meta[task[t].swap] EXCEPT !.recorded = @ \union {task[t].kind}]
      <3>1. new \in [started : SUBSET Kinds, recorded : SUBSET Kinds]
        <4>1. meta[task[t].swap] \in [started : SUBSET Kinds, recorded : SUBSET Kinds]
          BY <1>1 DEF TypeInv, TypeOK
        <4> QED
          BY <1>1, <4>1
      <3>2. meta' = [meta EXCEPT ![task[t].swap] = new]
        BY <1>7 DEF NoteHash
      <3> HIDE DEF new
      <3> QED
        BY <1>1, <3>1, <3>2 DEF TypeInv, TypeOK
    <2>5. TypeOK'
      BY <1>7, <2>3, <2>4 DEF NoteHash, TypeInv, TypeOK
    <2> QED
      BY <1>2, <2>1, <2>5, AlongRailTypeInv
  <1>8. CASE FailRun(t)
    <2>1. PICK state \in {"Uncertain", "Retryable"} : EndRun(t, state)
      BY <1>8 DEF FailRun
    <2> QED
      BY <1>2, <2>1, EndRunTypeInv DEF AttemptState
  <1> QED
    BY <1>3, <1>4, <1>5, <1>6, <1>7, <1>8 DEF Rail

LEMMA RunByHandTypeInv ==
    ASSUME TypeInv, NEW t \in Tasks, NEW s \in Swaps, RunByHand(t, s)
    PROVE  TypeInv'
  <1> USE DEF durable, chain, memory, queue, clock, locks
  <1>1. PICK k \in Kinds :
            /\ Enters(t, s, k)
            /\ task' = [task EXCEPT ![t] = [IdleTask EXCEPT !.at = "reserve", !.swap = s, !.kind = k]]
    BY DEF RunByHand, Manual
  <1> DEFINE m == [IdleTask EXCEPT !.at = "reserve", !.swap = s, !.kind = k]
  <1>2. m \in Task /\ m.at = "reserve" /\ m.object = 0
    BY IdleTaskFacts DEF Task, Place
  <1> HIDE DEF m
  <1>3. task' \in [Tasks -> Task] /\ task'[t] = m /\ \A u \in Tasks \ {t} : task'[u] = task[u]
    BY <1>1, <1>2, PutTask DEF m
  <1>4. task'[t].at \notin EntryPlaces /\ task'[t].at \notin RecordPlaces /\ ~Automatic(t)'
    BY <1>2, <1>3 DEF EntryPlaces, RecordPlaces, Automatic
  <1>5. TypeOK'
    BY <1>1, <1>3 DEF Enters, TypeInv, TypeOK
  <1> QED
    BY <1>1, <1>3, <1>4, <1>5, MovesTypeInv DEF Enters

-----------------------------------------------------------------------------
(* disable, the calls on a record, and what ends tasks *)

LEMMA DisablingTypeInv ==
    ASSUME TypeInv, NEW t \in Tasks, Disabling(t)
    PROVE  TypeInv'
  <1> USE DEF durable, chain, memory, queue, clock, locks
  <1>1. CASE Retire(t)
    <2>1. CASE task[t].swap \in Tracked
      <3>1. /\ Looks(t, task[t].swap, "retireLock") /\ registration' = t
            /\ UNCHANGED <<holder, execution, sweep>>
        BY <1>1, <2>1 DEF Retire
      <3>2. "retireLock" \in Place
        BY DEF Place
      <3>3. /\ task' \in [Tasks -> Task]
            /\ task'[t].at = "retireLock" /\ task'[t].object # 0
            /\ \A u \in Tasks \ {t} : task'[u] = task[u]
        BY <2>1, <3>1, <3>2, LooksFacts
      <3>4. TypeOK'
        BY <1>1, <3>1, <3>3 DEF Retire, TypeInv, TypeOK
      <3>5. task'[t].at \notin RecordPlaces /\ ~Automatic(t)'
        BY <3>3 DEF RecordPlaces, Automatic, OnRail
      <3> QED
        BY <1>1, <3>1, <3>3, <3>4, <3>5, MovesTypeInv DEF Retire
    <2>2. CASE task[t].swap \notin Tracked
      BY <1>1, <2>2, EndsTypeInv DEF Retire
    <2> QED
      BY <2>1, <2>2
  <1>2. CASE Disable(t)
    <2>1. /\ task[t].swap \in Swaps /\ task[t].object \in Objects /\ task[t].object # 0
          /\ Record(t) \in TrackingRecord
      BY <1>2, EntryFacts DEF Disable, EntryPlaces
    <2> DEFINE rec == [Record(t) EXCEPT !.enabled = FALSE]
    <2>2. rec \in TrackingRecord
      BY <2>1 DEF TrackingRecord
    <2>3. Save(t, rec) /\ TakeRecord(t) /\ Goes(t, "sweep")
      BY <1>2 DEF Disable
    <2> HIDE DEF rec
    <2>4. "sweep" \in Place
      BY DEF Place
    <2>5. /\ task' \in [Tasks -> Task] /\ task'[t].at = "sweep"
          /\ task'[t].swap = task[t].swap /\ task'[t].object = task[t].object
          /\ \A u \in Tasks \ {t} : task'[u] = task[u]
      BY <2>3, <2>4, GoesFacts
    <2>6. ~Automatic(t)'
      BY <2>5 DEF Automatic, OnRail
    <2>7. /\ journal' \in [Swaps -> TrackingRecord \union {NoJournal}]
          /\ record' \in [Swaps -> [Objects -> TrackingRecord]]
          /\ holder' \in [Swaps -> [Objects -> Tasks \union {Free}]]
          /\ holder'[task[t].swap][task[t].object] = t
          /\ \A u \in Tasks \ {t}, s \in Swaps, o \in Objects :
                 holder[s][o] = u => holder'[s][o] = u /\ record'[s][o] = record[s][o]
      BY <2>1, <2>2, <2>3, TakeRecordFacts, SaveFacts
    <2>8. installed' \in [Swaps -> 0 .. MaxObjects] /\ sweep' \in [left : SUBSET Swaps, used : SUBSET AllKeys]
      <3>1. installed' \in [Swaps -> 0 .. MaxObjects]
        BY <1>2, <2>1, TrackerAssumption DEF Disable, TypeInv, TypeOK
      <3>2. sweep' = [NoSweep EXCEPT !.left = Tracked \ {task[t].swap}]
        BY <1>2 DEF Disable
      <3>3. sweep' = [left |-> Tracked \ {task[t].swap}, used |-> {}]
        BY <3>2 DEF NoSweep
      <3>4. Tracked \subseteq Swaps
        BY DEF Tracked
      <3> QED
        BY <3>1, <3>3, <3>4
    <2>9. TypeOK'
      BY <1>2, <2>5, <2>7, <2>8 DEF Disable, TypeInv, TypeOK
    <2> QED
      BY <2>1, <2>5, <2>6, <2>7, <2>9, StepTypeInv
  <1>3. CASE SpareUnsettled(t)
    BY <1>3, EndsTypeInv DEF SpareUnsettled
  <1>4. CASE SweepOne(t)
    <2>2. PICK s \in sweep.left :
              sweep' = [left |-> sweep.left \ {s}, used |-> sweep.used \union WatchKeys[s]]
      BY <1>4 DEF SweepOne
    <2>3. sweep' \in [left : SUBSET Swaps, used : SUBSET AllKeys]
      <3>1. sweep.left \subseteq Swaps /\ sweep.used \subseteq AllKeys
        BY DEF TypeInv, TypeOK
      <3>2. WatchKeys[s] \subseteq AllKeys
        BY <3>1 DEF AllKeys
      <3> QED
        BY <2>2, <3>1, <3>2
    <2>1. TypeOK'
      BY <1>4, <2>3 DEF SweepOne, TypeInv, TypeOK
    <2> QED
      BY <1>4, <2>1, TasksUntouched DEF SweepOne
  <1>5. CASE UnregisterUnused(t)
    <2>1. /\ task[t].swap \in Swaps /\ task[t].object \in Objects /\ task[t].object # 0
          /\ holder[task[t].swap][task[t].object] = t
      BY <1>5, EntryFacts DEF UnregisterUnused, EntryPlaces, RecordPlaces
    <2>7. \/ UNCHANGED record
          \/ record' = [record EXCEPT ![task[t].swap][task[t].object] = BlankRecord]
      BY <1>5 DEF UnregisterUnused
    <2>2. record' \in [Swaps -> [Objects -> TrackingRecord]]
      <3>1. CASE UNCHANGED record
        BY <3>1 DEF TypeInv, TypeOK
      <3> QED
        BY <2>1, <2>7, <3>1, BlankRecordType, PutRecord
    <2>3. \A u \in Tasks \ {t}, s \in Swaps, o \in Objects : holder[s][o] = u => record'[s][o] = record[s][o]
      <3>1. CASE UNCHANGED record
        BY <3>1
      <3>2. CASE record' = [record EXCEPT ![task[t].swap][task[t].object] = BlankRecord]
        BY <2>1, <3>2, BlankRecordType, PutRecord
      <3> QED
        BY <2>7, <3>1, <3>2
    <2>4. Ends(t)
      BY <1>5 DEF UnregisterUnused
    <2>5. TypeOK'
      BY <1>5, <2>2, <2>4, EndsFacts DEF UnregisterUnused, TypeInv, TypeOK
    <2>6. /\ \A u \in Tasks \ {t} : task'[u] = task[u]
          /\ \A u \in Tasks \ {t}, s \in Swaps, o \in Objects : holder[s][o] = u => holder'[s][o] = u
          /\ task'[t].at \notin EntryPlaces /\ task'[t].at \notin RecordPlaces /\ ~Automatic(t)'
      BY <2>4, EndsFacts
    <2> QED
      BY <2>3, <2>5, <2>6, StepTypeInv
  <1> QED
    BY <1>1, <1>2, <1>3, <1>4, <1>5 DEF Disabling

\* A call ends with the write of the record it holds, or that is free.
LEMMA WritesTypeInv ==
    ASSUME TypeInv, NEW t \in Tasks, task[t].swap \in Swaps, task[t].object \in Objects,
           holder[task[t].swap][task[t].object] \in {t, Free},
           NEW rec \in TrackingRecord, Save(t, rec), Ends(t), pending' \subseteq Swaps,
           UNCHANGED <<meta, chain, installed, hinted, watched, batch, clock>>
    PROVE  TypeInv'
  <1>1. TypeOK'
    BY SaveFacts, EndsFacts DEF TypeInv, TypeOK, chain, clock
  <1>2. \A u \in Tasks \ {t}, s \in Swaps, o \in Objects :
            holder[s][o] = u => holder'[s][o] = u /\ record'[s][o] = record[s][o]
    BY SaveFacts, EndsFacts
  <1>3. /\ \A u \in Tasks \ {t} : task'[u] = task[u]
        /\ task'[t].at \notin EntryPlaces /\ task'[t].at \notin RecordPlaces /\ ~Automatic(t)'
    BY EndsFacts
  <1> QED
    BY <1>1, <1>2, <1>3, StepTypeInv

LEMMA ResolvingTypeInv ==
    ASSUME TypeInv, NEW t \in Tasks, Resolving(t)
    PROVE  TypeInv'
  <1> USE DEF durable, chain, memory, queue, clock, locks
  <1>1. /\ task[t].swap \in Swaps /\ task[t].object \in Objects /\ task[t].object # 0
        /\ Record(t) \in TrackingRecord
        /\ task[t].at \in RecordPlaces => holder[task[t].swap][task[t].object] = t
    BY EntryFacts
       DEF Resolving, UpdateOptions, TakeAttempt, ReleaseReservation, ForgetAttempt, AttestSent, EntryPlaces
  <1>2. Wake(task[t].swap) => pending' \subseteq Swaps
    BY <1>1 DEF Wake, TypeInv, TypeOK
  <1>3. CASE UpdateOptions(t)
    <2>1. CASE Record(t).enabled
      <3>1. PICK options \in Options : Save(t, [Record(t) EXCEPT !.options = options])
        BY <1>3, <2>1 DEF UpdateOptions
      <3>2. [Record(t) EXCEPT !.options = options] \in TrackingRecord
        BY <1>1 DEF TrackingRecord
      <3> QED
        BY <1>1, <1>2, <1>3, <2>1, <3>1, <3>2, WritesTypeInv DEF UpdateOptions, LockFree
    <2>2. CASE ~Record(t).enabled
      BY <1>3, <2>2, EndsTypeInv DEF UpdateOptions
    <2> QED
      BY <2>1, <2>2
  <1>4. CASE TakeAttempt(t)
    <2>1. CASE Record(t).attempt # NoAttempt
      <3>1. TakeRecord(t) /\ Goes(t, "release") /\ UNCHANGED record
        BY <1>4, <2>1 DEF TakeAttempt
      <3>2. "release" \in Place
        BY DEF Place
      <3>3. /\ task' \in [Tasks -> Task] /\ task'[t].at = "release"
            /\ task'[t].swap = task[t].swap /\ task'[t].object = task[t].object
            /\ \A u \in Tasks \ {t} : task'[u] = task[u]
        BY <3>1, <3>2, GoesFacts
      <3>4. TypeOK'
        BY <1>1, <1>4, <2>1, <3>1, <3>3, TakeRecordFacts DEF TakeAttempt, TypeInv, TypeOK
      <3>5. ~Automatic(t)'
        BY <3>3 DEF Automatic, OnRail
      <3> QED
        BY <1>1, <3>1, <3>3, <3>4, <3>5, TakeRecordFacts, StepTypeInv
    <2>2. CASE Record(t).attempt = NoAttempt
      BY <1>4, <2>2, EndsTypeInv DEF TakeAttempt
    <2> QED
      BY <2>1, <2>2
  <1>5. CASE ReleaseReservation(t)
    <2>1. task[t].at = "release" /\ Goes(t, "forget") /\ UNCHANGED <<holder, record>>
      BY <1>5 DEF ReleaseReservation
    <2>2. "forget" \in Place
      BY DEF Place
    <2>3. /\ task' \in [Tasks -> Task] /\ task'[t].at = "forget"
          /\ task'[t].swap = task[t].swap /\ task'[t].object = task[t].object
          /\ \A u \in Tasks \ {t} : task'[u] = task[u]
      BY <2>1, <2>2, GoesFacts
    <2>4. meta' \in [Swaps -> [started : SUBSET Kinds, recorded : SUBSET Kinds]]
      <3> DEFINE k == Record(t).attempt.action
                 new == [meta[task[t].swap] EXCEPT !.started = @ \ {k}]
      <3>1. new \in [started : SUBSET Kinds, recorded : SUBSET Kinds]
        <4>1. meta[task[t].swap] \in [started : SUBSET Kinds, recorded : SUBSET Kinds]
          BY <1>1 DEF TypeInv, TypeOK
        <4> QED
          BY <4>1
      <3>2. meta' = meta \/ meta' = [meta EXCEPT ![task[t].swap] = new]
        BY <1>5 DEF ReleaseReservation
      <3> HIDE DEF new
      <3> QED
        BY <1>1, <3>1, <3>2 DEF TypeInv, TypeOK
    <2>5. TypeOK'
      BY <1>5, <2>3, <2>4 DEF ReleaseReservation, TypeInv, TypeOK
    <2>6. ~Automatic(t)'
      BY <2>3 DEF Automatic, OnRail
    <2>7. holder[task[t].swap][task[t].object] = t
      BY <1>1, <2>1 DEF RecordPlaces
    <2> QED
      BY <1>1, <2>1, <2>3, <2>5, <2>6, <2>7, MovesTypeInv
  <1>6. CASE ForgetAttempt(t)
    <2>1. [Record(t) EXCEPT !.attempt = NoAttempt] \in TrackingRecord
      BY <1>1 DEF TrackingRecord
    <2>2. holder[task[t].swap][task[t].object] = t
      BY <1>1, <1>6 DEF ForgetAttempt, RecordPlaces
    <2> QED
      BY <1>1, <1>2, <1>6, <2>1, <2>2, WritesTypeInv DEF ForgetAttempt
  <1>7. CASE AttestSent(t)
    <2>1. CASE Record(t).attempt # NoAttempt
      <3>1. Record(t).attempt \in Attempt
        BY <1>1, <2>1 DEF TrackingRecord
      <3>2. [Record(t) EXCEPT !.attempt.state = "Submitted"] \in TrackingRecord
        BY <1>1, <3>1 DEF TrackingRecord, Attempt, AttemptState
      <3> QED
        BY <1>1, <1>2, <1>7, <2>1, <3>2, WritesTypeInv DEF AttestSent, LockFree
    <2>2. CASE Record(t).attempt = NoAttempt
      BY <1>7, <2>2, EndsTypeInv DEF AttestSent
    <2> QED
      BY <2>1, <2>2
  <1> QED
    BY <1>3, <1>4, <1>5, <1>6, <1>7 DEF Resolving

LEMMA DropWorkerTypeInv ==
    ASSUME TypeInv, DropWorker
    PROVE  TypeInv'
  <1> USE DEF durable, chain, memory, queue, clock, locks
  <1>1. \A u \in Tasks : task'[u] = task[u] \/ task'[u] = IdleTask
    BY DEF DropWorker
  <1>2. \A u \in Tasks : task'[u] \in Task
    BY <1>1, IdleTaskFacts DEF TypeInv, TypeOK
  <1>3. TypeOK'
    BY NoSweepType, <1>2, IdleTaskFacts DEF DropWorker, Tasks, TypeInv, TypeOK
  <1>4. HasEntry'
    BY <1>1, IdleTaskFacts DEF TypeInv, HasEntry, EntryPlaces
  <1>5. ASSUME NEW u \in Tasks, task'[u].at \in RecordPlaces \/ Automatic(u)'
        PROVE  /\ u \notin Slots /\ task'[u] = task[u] /\ Automatic(u)' = Automatic(u)
               /\ task[u].swap \in Swaps /\ task[u].object \in Objects
               /\ holder[task[u].swap][task[u].object] = u
    <2>1. task'[u] # IdleTask
      BY <1>5, IdleTaskFacts DEF RecordPlaces, Automatic
    <2>2. u \notin Slots /\ task'[u] = task[u]
      BY <1>1, <2>1 DEF DropWorker
    <2>3. Automatic(u)' = Automatic(u)
      BY <2>2 DEF Automatic, OnRail
    <2>4. task[u].at \in EntryPlaces \/ Automatic(u)
      BY <1>5, <2>2, <2>3 DEF EntryPlaces, RecordPlaces
    <2> QED
      BY <1>5, <2>2, <2>3, <2>4, EntryFacts
  <1>6. HoldsRecord'
    <2> SUFFICES ASSUME NEW u \in Tasks, task'[u].at \in RecordPlaces \/ Automatic(u)'
                 PROVE  holder'[task'[u].swap][task'[u].object] = u
      BY DEF HoldsRecord
    <2> QED
      BY <1>5 DEF DropWorker
  <1>7. RunHasAttempt'
    BY <1>5 DEF TypeInv, RunHasAttempt, Record, DropWorker
  <1> QED
    BY <1>3, <1>4, <1>6, <1>7 DEF TypeInv

LEMMA CrashTypeInv ==
    ASSUME TypeInv, Crash
    PROVE  TypeInv'
  <1> USE DEF durable, chain, memory, queue, clock, locks
  <1>1. task' = [t \in Tasks |-> IdleTask]
    BY DEF Crash
  <1>2. TypeOK'
    BY NoSweepType, <1>1, IdleTaskFacts, BlankRecordType, TrackerAssumption
       DEF Crash, NothingInstalled, BlankRecords, NothingHinted, RecordsFree, RailsFree, TypeInv, TypeOK
  <1> QED
    BY <1>1, <1>2, IdleTaskFacts
       DEF TypeInv, HasEntry, HoldsRecord, RunHasAttempt, EntryPlaces, RecordPlaces, Automatic, OnRail

LEMMA NextTypeInv ==
    ASSUME TypeInv, [Next]_vars
    PROVE  TypeInv'
  <1>1. CASE Worker
    BY <1>1, WorkerTypeInv, StartReconcileTypeInv DEF Worker, Tasks
  <1>2. ASSUME NEW t \in Tasks, Reconcile(t)
        PROVE  TypeInv'
    BY <1>2, LockRecordTypeInv, BeginAttemptTypeInv, ConcludeTypeInv DEF Reconcile
  <1>3. ASSUME NEW t \in Tasks, StorageFails(t) \/ DropCall(t)
        PROVE  TypeInv'
    BY <1>3, EndsTypeInv DEF StorageFails, DropCall
  <1>4. ASSUME NEW t \in Operators, NEW s \in Swaps, Call(t, s) \/ Restore(t)
        PROVE  TypeInv'
    BY <1>4, RegistrationTypeInv, CallTypeInv, RunByHandTypeInv DEF Call, Tasks
  <1>5. ASSUME NEW t \in Operators, Restore(t)
        PROVE  TypeInv'
    BY <1>5, RegistrationTypeInv, TrackerAssumption DEF Tasks
  <1>6. ASSUME NEW t \in Operators
        PROVE  t \in Tasks
    BY DEF Tasks
  <1> QED
    BY <1>1, <1>2, <1>3, <1>4, <1>5, <1>6, RailTypeInv, DisablingTypeInv, ResolvingTypeInv, EnvironmentTypeInv,
       DropWorkerTypeInv, CrashTypeInv, StutterTypeInv DEF Next

\* The inductive invariant holds throughout.
THEOREM TypeInvariant == Spec => []TypeInv
  BY InitTypeInv, NextTypeInv, PTL DEF Spec

\* The states are those the type invariant describes, for every set of swaps and
\* tasks, every bound and every fault.
THEOREM TypeCorrect == Spec => []TypeOK
  <1>1. TypeInv => TypeOK
    BY DEF TypeInv
  <1> QED
    BY <1>1, TypeInvariant, PTL

-----------------------------------------------------------------------------
(***************************************************************************)
(* Untracking a swap leaves every contract observed that another tracked   *)
(* swap uses, for every number of swaps, tasks and faults.                 *)
(*                                                                         *)
(* The inductive invariant.  The call that disables a swap locks the other *)
(* records one after the other, so what it found used is only right        *)
(* because it holds registration all along: no swap becomes tracked, and   *)
(* no other call sweeps, meanwhile.                                        *)
(***************************************************************************)

\* Places at which a task holds the registration lock.
Registering == {"untrackLock", "retireLock", "sweep"}

HoldsRegistration == \A t \in Tasks : task[t].at \in Registering => registration = t

SweepCovers ==
    (\E t \in Tasks : task[t].at = "sweep") =>
        \A s \in Tracked : s \in sweep.left \/ WatchKeys[s] \subseteq sweep.used

WatchInv == HoldsRegistration /\ SweepCovers /\ TrackedAreWatched

LEMMA InitWatchInv == Init => WatchInv
  BY IdleTaskFacts
     DEF Init, NothingInstalled, WatchInv, HoldsRegistration, SweepCovers, TrackedAreWatched, Registering, Tracked

-----------------------------------------------------------------------------
(* Steps that register nothing, unregister nothing and take no registration. *)

Still ==
    /\ UNCHANGED <<installed, watched>>
    /\ \A u \in Tasks : task'[u].at \in Registering =>
           /\ task'[u].at = task[u].at
           /\ registration = u => registration' = u /\ UNCHANGED sweep

LEMMA StillWatchInv ==
    ASSUME TypeInv, WatchInv, Still
    PROVE  WatchInv'
  <1>1. HoldsRegistration'
    BY DEF WatchInv, HoldsRegistration, Still
  <1>2. SweepCovers'
    <2> SUFFICES ASSUME NEW u \in Tasks, task'[u].at = "sweep"
                 PROVE  \A s \in Tracked' : s \in sweep'.left \/ WatchKeys[s] \subseteq sweep'.used
      BY DEF SweepCovers
    <2>1. task[u].at = "sweep" /\ registration = u
      BY DEF Still, Registering, WatchInv, HoldsRegistration
    <2>2. UNCHANGED <<sweep, Tracked>>
      BY <2>1 DEF Still, Registering, Tracked
    <2> QED
      BY <2>1, <2>2 DEF WatchInv, SweepCovers
  <1>3. TrackedAreWatched'
    BY DEF WatchInv, TrackedAreWatched, Tracked, Still
  <1> QED
    BY <1>1, <1>2, <1>3 DEF WatchInv

\* One task moves to a place at which it does not hold registration.
LEMMA AsideStill ==
    ASSUME NEW t \in Tasks, UNCHANGED <<installed, watched>>, task'[t].at \notin Registering,
           \A u \in Tasks \ {t} : task'[u] = task[u],
           \A u \in Tasks \ {t} : registration = u => registration' = u /\ UNCHANGED sweep
    PROVE  Still
  BY DEF Still

LEMMA EndsStill ==
    ASSUME TypeInv, NEW t \in Tasks, Ends(t), UNCHANGED <<installed, watched>>
    PROVE  Still
  <1>1. task'[t].at \notin Registering /\ \A u \in Tasks \ {t} : task'[u] = task[u]
    BY EndsFacts, IdleTaskFacts DEF Registering
  <1>2. \A u \in Tasks \ {t} : registration = u => registration' = u /\ UNCHANGED sweep
    BY DEF Ends, Returned
  <1> QED
    BY <1>1, <1>2, AsideStill

LEMMA GoesStill ==
    ASSUME TypeInv, NEW t \in Tasks, NEW place \in Place \ Registering, Goes(t, place),
           UNCHANGED <<installed, watched, registration, sweep>>
    PROVE  Still
  <1>1. task'[t].at = place /\ \A u \in Tasks \ {t} : task'[u] = task[u]
    BY GoesFacts
  <1> QED
    BY <1>1, AsideStill

LEMMA LooksStill ==
    ASSUME TypeInv, NEW t \in Tasks, NEW s \in Tracked, NEW place \in Place \ Registering, Looks(t, s, place),
           UNCHANGED <<installed, watched, registration, sweep>>
    PROVE  Still
  <1>1. task'[t].at = place /\ \A u \in Tasks \ {t} : task'[u] = task[u]
    BY LooksFacts
  <1> QED
    BY <1>1, AsideStill

LEMMA WorkerStill ==
    ASSUME TypeInv, Worker
    PROVE  Still
  <1> USE DEF memory, locks
  <1>1. CASE FullTick \/ RiskTick \/ WorkerWake
    BY <1>1 DEF FullTick, RiskTick, WorkerWake, Refresh, Still
  <1>2. ASSUME NEW t \in Slots, StartReconcile(t)
        PROVE  Still
    <2>1. PICK s \in batch : IF s \in Tracked THEN Looks(t, s, "lock") ELSE UNCHANGED task
      BY <1>2 DEF StartReconcile
    <2>2. UNCHANGED <<installed, watched, registration, sweep>> /\ t \in Tasks
      BY <1>2 DEF StartReconcile, Tasks
    <2>3. "lock" \in Place \ Registering
      BY DEF Place, Registering
    <2> QED
      BY <2>1, <2>2, <2>3, LooksStill DEF Still
  <1> QED
    BY <1>1, <1>2 DEF Worker

LEMMA EnvironmentStill ==
    ASSUME NEW s \in Swaps, Environment(s)
    PROVE  Still
  BY DEF Environment, Hint, HintStatus, DeadlinePasses, RetirePeriodPasses, ViewChanges, Still, memory, locks

LEMMA ReconcileStill ==
    ASSUME TypeInv, NEW t \in Tasks, Reconcile(t)
    PROVE  Still
  <1> USE DEF memory, locks
  <1>0. task \in [Tasks -> Task] /\ task[t] \in Task
    BY DEF TypeInv, TypeOK
  <1>1. CASE LockRecord(t)
    <2>1. CASE Record(t).enabled
      <3> DEFINE m == [task[t] EXCEPT !.at = "decide",
                       !.seen = [view |-> view[task[t].swap], status |-> hinted[task[t].swap][task[t].object]]]
      <3>1. m.at = "decide" /\ task' = [task EXCEPT ![t] = m]
        BY <1>0, <1>1, <2>1 DEF LockRecord, Task
      <3> HIDE DEF m
      <3>2. task'[t].at = "decide" /\ \A u \in Tasks \ {t} : task'[u] = task[u]
        BY <1>0, <3>1
      <3> QED
        BY <1>1, <2>1, <3>2, AsideStill DEF LockRecord, Registering
    <2>2. CASE ~Record(t).enabled
      BY <1>1, <2>2, EndsStill DEF LockRecord
    <2> QED
      BY <2>1, <2>2
  <1>2. CASE BeginAttempt(t)
    <2> DEFINE m == [task[t] EXCEPT !.at = "enter", !.kind = Derived(t), !.seen.view = IdleTask.seen.view]
    <2>1. m.at = "enter" /\ task' = [task EXCEPT ![t] = m]
      BY <1>0, <1>2 DEF BeginAttempt, Task
    <2> HIDE DEF m
    <2>2. task'[t].at = "enter" /\ \A u \in Tasks \ {t} : task'[u] = task[u]
      BY <1>0, <2>1
    <2> QED
      BY <1>2, <2>2, AsideStill DEF BeginAttempt, Registering
  <1>3. CASE Conclude(t)
    <2> DEFINE m == [IdleTask EXCEPT !.at = "retire", !.swap = task[t].swap]
    <2>1. task' = [task EXCEPT ![t] = IdleTask] \/ task' = [task EXCEPT ![t] = m]
      BY <1>3 DEF Conclude
    <2>2. m.at = "retire"
      BY IdleTaskFacts DEF Task
    <2> HIDE DEF m
    <2>3. task'[t].at \in {"idle", "retire"} /\ \A u \in Tasks \ {t} : task'[u] = task[u]
      BY <1>0, <2>1, <2>2, IdleTaskFacts
    <2> QED
      BY <1>3, <2>3, AsideStill DEF Conclude, Registering
  <1> QED
    BY <1>1, <1>2, <1>3 DEF Reconcile

LEMMA RailStill ==
    ASSUME TypeInv, NEW t \in Tasks, Rail(t)
    PROVE  Still
  <1> USE DEF memory, locks
  <1>1. {"reserve", "send", "note", "confirm"} \subseteq Place \ Registering
    BY DEF Place, Registering
  <1>2. CASE EnterRail(t) \/ Reserve(t) \/ Send(t) \/ NoteHash(t)
    <2>1. \E place \in {"reserve", "send", "note", "confirm"} : Goes(t, place)
      BY <1>2 DEF EnterRail, Reserve, Send, NoteHash
    <2>2. UNCHANGED <<installed, watched, registration, sweep>>
      BY <1>2 DEF EnterRail, Enters, Reserve, Send, NoteHash
    <2> QED
      BY <1>1, <2>1, <2>2, GoesStill
  <1>3. CASE FindOwnSpend(t) \/ Confirm(t) \/ FailRun(t)
    <2>1. PICK state \in AttemptState : EndRun(t, state)
      BY <1>3 DEF FindOwnSpend, Confirm, FailRun, AttemptState
    <2>2. task \in [Tasks -> Task] /\ task[t] \in Task
      BY DEF TypeInv, TypeOK
    <2> DEFINE m == [task[t] EXCEPT !.at = "finish", !.seen.view = view[task[t].swap]]
    <2>3. task' = [task EXCEPT ![t] = IdleTask] \/ task' = [task EXCEPT ![t] = m]
      BY <2>1 DEF EndRun
    <2>4. m.at = "finish"
      BY <2>2 DEF Task
    <2> HIDE DEF m
    <2>5. task'[t].at \in {"idle", "finish"} /\ \A u \in Tasks \ {t} : task'[u] = task[u]
      BY <2>2, <2>3, <2>4, IdleTaskFacts
    <2> QED
      BY <2>1, <2>5, AsideStill DEF EndRun, Registering
  <1> QED
    BY <1>2, <1>3 DEF Rail

LEMMA ResolvingStill ==
    ASSUME TypeInv, NEW t \in Tasks, Resolving(t)
    PROVE  Still
  <1> USE DEF memory, locks
  <1>1. {"release", "forget"} \subseteq Place \ Registering
    BY DEF Place, Registering
  <1>2. CASE UpdateOptions(t) \/ ForgetAttempt(t) \/ AttestSent(t)
    BY <1>2, EndsStill DEF UpdateOptions, ForgetAttempt, AttestSent
  <1>3. CASE TakeAttempt(t)
    BY <1>1, <1>3, EndsStill, GoesStill DEF TakeAttempt
  <1>4. CASE ReleaseReservation(t)
    BY <1>1, <1>4, GoesStill DEF ReleaseReservation
  <1> QED
    BY <1>2, <1>3, <1>4 DEF Resolving

LEMMA CallStill ==
    ASSUME TypeInv, NEW t \in Tasks, NEW s \in Swaps,
           \/ CallReconcile(t, s) \/ CallUpdateOptions(t, s) \/ CallProveUnsent(t, s) \/ CallAttestSent(t, s)
           \/ RunByHand(t, s)
    PROVE  Still
  <1> USE DEF memory, locks
  <1>1. CASE CallReconcile(t, s) \/ CallUpdateOptions(t, s) \/ CallProveUnsent(t, s) \/ CallAttestSent(t, s)
    <2>1. {"lock", "options", "proveLock", "attestLock"} \subseteq Place \ Registering
      BY DEF Place, Registering
    <2>2. PICK place \in {"lock", "options", "proveLock", "attestLock"} : Looks(t, s, place) /\ s \in Tracked
      BY <1>1 DEF CallReconcile, CallUpdateOptions, CallProveUnsent, CallAttestSent
    <2>3. UNCHANGED <<installed, watched, registration, sweep>>
      BY <1>1 DEF CallReconcile, CallUpdateOptions, CallProveUnsent, CallAttestSent
    <2> QED
      BY <2>1, <2>2, <2>3, LooksStill
  <1>2. CASE RunByHand(t, s)
    <2>1. PICK k \in Kinds :
              /\ Enters(t, s, k)
              /\ task' = [task EXCEPT ![t] = [IdleTask EXCEPT !.at = "reserve", !.swap = s, !.kind = k]]
      BY <1>2 DEF RunByHand, Manual
    <2> DEFINE m == [IdleTask EXCEPT !.at = "reserve", !.swap = s, !.kind = k]
    <2>2. m.at = "reserve" /\ task' = [task EXCEPT ![t] = m]
      BY <2>1, IdleTaskFacts DEF Task
    <2> HIDE DEF m
    <2>3. task'[t].at = "reserve" /\ \A u \in Tasks \ {t} : task'[u] = task[u]
      BY <2>2 DEF TypeInv, TypeOK
    <2> QED
      BY <2>1, <2>3, AsideStill DEF Enters, Registering
  <1> QED
    BY <1>1, <1>2

LEMMA DropWorkerStill ==
    ASSUME TypeInv, DropWorker
    PROVE  Still
  <1>1. ASSUME NEW u \in Tasks, task'[u].at \in Registering
        PROVE  task'[u] = task[u] /\ u \notin Slots
    BY <1>1, IdleTaskFacts DEF DropWorker, Registering
  <1>2. \A u \in Tasks \ Slots : registration = u => registration' = u /\ UNCHANGED sweep
    BY DEF DropWorker
  <1> QED
    BY <1>1, <1>2 DEF DropWorker, Still, memory

-----------------------------------------------------------------------------
(* Registration *)

\* While a swap is being registered nobody sweeps.
LEMMA InstallWatchInv ==
    ASSUME TypeInv, WatchInv, NEW S \in SUBSET Swaps, NEW recs, Install(S, recs)
    PROVE  WatchInv'
  <1>1. registration = Free /\ UNCHANGED <<registration, task>>
    BY DEF Install, locks
  <1>2. \A t \in Tasks : task[t].at \notin Registering
    BY <1>1, TrackerAssumption DEF WatchInv, HoldsRegistration
  <1>3. HoldsRegistration' /\ SweepCovers'
    BY <1>1, <1>2 DEF HoldsRegistration, SweepCovers, Registering
  <1>4. TrackedAreWatched'
    <2> SUFFICES ASSUME NEW s \in Swaps, installed'[s] # 0
                 PROVE  WatchKeys[s] \subseteq watched'
      BY DEF TrackedAreWatched, Tracked
    <2>1. watched' = watched \union UNION {WatchKeys[r] : r \in S}
      BY DEF Install
    <2>2. CASE s \in S
      BY <2>1, <2>2
    <2>3. CASE s \notin S
      <3>1. installed[s] # 0
        BY <2>3 DEF Install
      <3>2. WatchKeys[s] \subseteq watched
        BY <3>1 DEF WatchInv, TrackedAreWatched, Tracked
      <3> QED
        BY <2>1, <3>2
    <2> QED
      BY <2>2, <2>3
  <1> QED
    BY <1>3, <1>4 DEF WatchInv

LEMMA RegistrationWatchInv ==
    ASSUME TypeInv, WatchInv, NEW t \in Tasks, NEW s \in Swaps, TrackSwap(t, s) \/ Resume(t, s) \/ Restore(t)
    PROVE  WatchInv'
  <1>1. CASE TrackSwap(t, s)
    BY <1>1, InstallWatchInv DEF TrackSwap
  <1>2. CASE Resume(t, s)
    BY <1>2, InstallWatchInv DEF Resume
  <1>3. CASE Restore(t)
    <2>1. PICK S \in SUBSET Restorable : Install(S, journal)
      BY <1>3 DEF Restore
    <2>2. S \in SUBSET Swaps
      BY <2>1 DEF Restorable
    <2> QED
      BY <2>1, <2>2, InstallWatchInv
  <1> QED
    BY <1>1, <1>2, <1>3

\* untrack and retirement take registration when it is free.
LEMMA TakesRegistration ==
    ASSUME TypeInv, WatchInv, NEW t \in Tasks, NEW s \in Tracked, NEW place \in {"untrackLock", "retireLock"},
           registration = Free, registration' = t, Looks(t, s, place),
           UNCHANGED <<installed, watched>>
    PROVE  WatchInv'
  <1>1. \A u \in Tasks : task[u].at \notin Registering
    BY TrackerAssumption DEF WatchInv, HoldsRegistration
  <1>2. task'[t].at = place /\ \A u \in Tasks \ {t} : task'[u] = task[u]
    BY LooksFacts DEF Place
  <1>3. HoldsRegistration' /\ SweepCovers'
    BY <1>1, <1>2 DEF HoldsRegistration, SweepCovers, Registering
  <1>4. TrackedAreWatched'
    BY DEF WatchInv, TrackedAreWatched, Tracked
  <1> QED
    BY <1>3, <1>4 DEF WatchInv

LEMMA DisablingWatchInv ==
    ASSUME TypeInv, WatchInv, NEW t \in Tasks, Disabling(t)
    PROVE  WatchInv'
  <1>1. CASE Retire(t)
    <2>1. CASE task[t].swap \in Tracked
      BY <1>1, <2>1, TakesRegistration DEF Retire, memory
    <2>2. CASE task[t].swap \notin Tracked
      BY <1>1, <2>2, EndsStill, StillWatchInv DEF Retire, memory
    <2> QED
      BY <2>1, <2>2
  <1>2. CASE Disable(t)
    <2>1. registration = t /\ UNCHANGED <<registration, watched>>
      BY <1>2 DEF Disable, WatchInv, HoldsRegistration, Registering
    <2>2. task'[t].at = "sweep" /\ \A u \in Tasks \ {t} : task'[u] = task[u]
      BY <1>2, GoesFacts DEF Disable, Place
    <2>3. HoldsRegistration'
      BY <2>1, <2>2 DEF WatchInv, HoldsRegistration
    <2>4. PICK s \in Swaps : s = task[t].swap
      BY DEF TypeInv, TypeOK, Task
    <2>5. \A r \in Tracked' : r \in Tracked \ {s}
      BY <1>2, <2>4 DEF Disable, Tracked, TypeInv, TypeOK
    <2>6. sweep'.left = Tracked \ {s}
      BY <1>2, <2>4 DEF Disable, NoSweep
    <2>7. SweepCovers' /\ TrackedAreWatched'
      BY <2>1, <2>5, <2>6 DEF SweepCovers, WatchInv, TrackedAreWatched
    <2> QED
      BY <2>3, <2>7 DEF WatchInv
  <1>3. CASE SpareUnsettled(t)
    BY <1>3, EndsStill, StillWatchInv DEF SpareUnsettled, memory
  <1>4. CASE SweepOne(t)
    <2>1. PICK s \in sweep.left : sweep' = [left |-> sweep.left \ {s}, used |-> sweep.used \union WatchKeys[s]]
      BY <1>4 DEF SweepOne
    <2>2. UNCHANGED <<installed, watched, registration, task>>
      BY <1>4 DEF SweepOne, memory, locks
    <2>3. HoldsRegistration' /\ TrackedAreWatched'
      BY <2>2 DEF WatchInv, HoldsRegistration, TrackedAreWatched, Tracked
    <2>4. SweepCovers'
      BY <2>1, <2>2 DEF WatchInv, SweepCovers, Tracked
    <2> QED
      BY <2>3, <2>4 DEF WatchInv
  <1>5. CASE UnregisterUnused(t)
    <2>1. \A s \in Tracked : WatchKeys[s] \subseteq sweep.used
      BY <1>5 DEF UnregisterUnused, WatchInv, SweepCovers
    <2>2. TrackedAreWatched'
      BY <1>5, <2>1 DEF UnregisterUnused, WatchInv, TrackedAreWatched, Tracked
    <2>3. task'[t].at \notin Registering /\ \A u \in Tasks \ {t} : task'[u] = task[u]
      BY <1>5, EndsFacts, IdleTaskFacts DEF UnregisterUnused, Registering
    <2>4. \A u \in Tasks : task'[u].at \notin Registering
      BY <1>5, <2>3 DEF UnregisterUnused, WatchInv, HoldsRegistration, Registering
    <2>5. HoldsRegistration' /\ SweepCovers'
      BY <2>4 DEF HoldsRegistration, SweepCovers, Registering
    <2> QED
      BY <2>2, <2>5 DEF WatchInv
  <1> QED
    BY <1>1, <1>2, <1>3, <1>4, <1>5 DEF Disabling

LEMMA CrashWatchInv ==
    ASSUME Crash
    PROVE  WatchInv'
  BY IdleTaskFacts
     DEF Crash, NothingInstalled, WatchInv, HoldsRegistration, SweepCovers, TrackedAreWatched, Registering, Tracked

LEMMA NextWatchInv ==
    ASSUME TypeInv, WatchInv, [Next]_vars
    PROVE  WatchInv'
  <1>1. CASE Still
    BY <1>1, StillWatchInv
  <1>2. CASE UNCHANGED vars
    BY <1>1, <1>2 DEF Still, vars, memory, locks
  <1>3. CASE Worker
    BY <1>1, <1>3, WorkerStill
  <1>4. ASSUME NEW t \in Tasks, Reconcile(t) \/ Rail(t) \/ Resolving(t)
        PROVE  Still
    BY <1>4, ReconcileStill, RailStill, ResolvingStill
  <1>5. ASSUME NEW t \in Tasks, StorageFails(t) \/ DropCall(t)
        PROVE  Still
    BY <1>5, EndsStill DEF StorageFails, DropCall, memory
  <1>6. ASSUME NEW t \in Operators, NEW s \in Swaps, Call(t, s)
        PROVE  WatchInv'
    <2>1. t \in Tasks
      BY DEF Tasks
    <2>2. CASE TrackSwap(t, s) \/ Resume(t, s)
      BY <2>1, <2>2, RegistrationWatchInv
    <2>3. CASE Untrack(t, s)
      BY <2>1, <2>3, TakesRegistration DEF Untrack, memory
    <2> QED
      BY <1>1, <1>6, <2>1, <2>2, <2>3, CallStill DEF Call
  <1>7. ASSUME NEW t \in Operators, Restore(t)
        PROVE  WatchInv'
    <2>1. PICK s \in Swaps : TRUE
      BY TrackerAssumption
    <2> QED
      BY <1>7, <2>1, RegistrationWatchInv DEF Tasks
  <1>8. \A t \in Operators : t \in Tasks
    BY DEF Tasks
  <1>9. CASE Next
    BY <1>1, <1>3, <1>4, <1>5, <1>6, <1>7, <1>8, <1>9, DisablingWatchInv, EnvironmentStill, DropWorkerStill,
       CrashWatchInv DEF Next
  <1> QED
    BY <1>2, <1>9

\* Every contract a tracked swap uses stays registered with the reader, whichever swaps
\* that share it are untracked or retired, by whom and in whatever order.
THEOREM TrackedStayWatched == Spec => []TrackedAreWatched
  <1>1. WatchInv => TrackedAreWatched
    BY DEF WatchInv
  <1>2. Spec => []WatchInv
    BY TypeInvariant, InitWatchInv, NextWatchInv, PTL DEF Spec
  <1> QED
    BY <1>1, <1>2, PTL

-----------------------------------------------------------------------------
(***************************************************************************)
(* Nobody waits for nobody, for every number of swaps, tasks and faults.   *)
(*                                                                         *)
(* The locks are taken in one order: registration, then records, then      *)
(* rails; and a task that sweeps asks only for records of other swaps,     *)
(* whose holders do not sweep.  The inductive invariant says that whoever  *)
(* holds a lock is at a place that owns it (the converse of HoldsRecord    *)
(* and HoldsRegistration): no guard outlives the task that took it.        *)
(***************************************************************************)

\* Places at which a task is past the check of its rail, and holds the rail's lock.
Sending == {"reserve", "send", "note", "confirm"}

AtRecord(t, s, o) ==
    task[t].swap = s /\ task[t].object = o /\ (task[t].at \in RecordPlaces \/ Automatic(t))

RecordGuards == \A t \in Tasks, s \in Swaps, o \in Objects : holder[s][o] = t => AtRecord(t, s, o)
RailGuards == \A t \in Tasks, l \in RailLocks : execution[l] = t => task[t].at \in Sending
RegistrationGuard == \A t \in Tasks : registration = t => task[t].at \in Registering

\* What a sweep has left are other swaps, and they stay tracked until it is over.
SweepsOthers ==
    \A t \in Tasks : task[t].at = "sweep" => sweep.left \subseteq Tracked \ {task[t].swap}

LockInv == RecordGuards /\ RailGuards /\ RegistrationGuard /\ SweepsOthers

LEMMA InitLockInv == Init => LockInv
  BY IdleTaskFacts, TrackerAssumption
     DEF Init, RecordsFree, RailsFree, LockInv, RecordGuards, RailGuards, RegistrationGuard, SweepsOthers

\* One task steps: the others get no lock, and it has those its new place owns.
LEMMA StepLocks ==
    ASSUME TypeInv, LockInv, NEW t \in Tasks,
           \A u \in Tasks \ {t} : task'[u] = task[u],
           \A u \in Tasks \ {t}, s \in Swaps, o \in Objects : holder'[s][o] = u => holder[s][o] = u,
           \A u \in Tasks \ {t}, l \in RailLocks : execution'[l] = u => execution[l] = u,
           \A u \in Tasks \ {t} : registration' = u => registration = u,
           \A s \in Swaps, o \in Objects : holder'[s][o] = t => AtRecord(t, s, o)',
           \A l \in RailLocks : execution'[l] = t => task'[t].at \in Sending,
           registration' = t => task'[t].at \in Registering
    PROVE  RecordGuards' /\ RailGuards' /\ RegistrationGuard'
  <1>1. \A u \in Tasks \ {t} : \A s, o : AtRecord(u, s, o)' <=> AtRecord(u, s, o)
    BY DEF AtRecord, Automatic, OnRail
  <1>2. RecordGuards'
    BY <1>1 DEF LockInv, RecordGuards
  <1>3. RailGuards'
    BY DEF LockInv, RailGuards
  <1>4. RegistrationGuard'
    BY DEF LockInv, RegistrationGuard
  <1> QED
    BY <1>2, <1>3, <1>4

\* Nothing of a sweep changes under a step that is still.
LEMMA StillSweeps ==
    ASSUME TypeInv, WatchInv, LockInv, Still,
           \A u \in Tasks : task'[u].at = "sweep" => task'[u].swap = task[u].swap
    PROVE  SweepsOthers'
  <1> SUFFICES ASSUME NEW u \in Tasks, task'[u].at = "sweep"
               PROVE  sweep'.left \subseteq Tracked' \ {task'[u].swap}
    BY DEF SweepsOthers
  <1>1. task[u].at = "sweep" /\ registration = u
    BY DEF Still, Registering, WatchInv, HoldsRegistration
  <1>2. UNCHANGED <<sweep, Tracked>>
    BY <1>1 DEF Still, Registering, Tracked
  <1> QED
    BY <1>1, <1>2 DEF LockInv, SweepsOthers

\* Steps that move no task and take or return no lock.
LEMMA LocksUntouched ==
    ASSUME TypeInv, WatchInv, LockInv, Still, UNCHANGED <<task, locks>>
    PROVE  LockInv'
  <1>1. SweepsOthers'
    BY StillSweeps
  <1>2. RecordGuards' /\ RailGuards' /\ RegistrationGuard'
    BY DEF LockInv, RecordGuards, RailGuards, RegistrationGuard, AtRecord, Automatic, OnRail, locks
  <1> QED
    BY <1>1, <1>2 DEF LockInv

\* A task that ends or is dropped returns every lock.
LEMMA EndsGuards ==
    ASSUME TypeInv, LockInv, NEW t \in Tasks, Ends(t)
    PROVE  RecordGuards' /\ RailGuards' /\ RegistrationGuard'
  <1>1. Free \notin Tasks
    BY TrackerAssumption
  <1>2. \A u \in Tasks \ {t} : task'[u] = task[u]
    BY EndsFacts
  <1>3. \A u \in Tasks, s \in Swaps, o \in Objects : holder'[s][o] = u => u # t /\ holder[s][o] = u
    BY <1>1 DEF Ends, Returned
  <1>4. \A u \in Tasks, l \in RailLocks : execution'[l] = u => u # t /\ execution[l] = u
    BY <1>1 DEF Ends, Returned
  <1>5. \A u \in Tasks : registration' = u => u # t /\ registration = u
    BY <1>1 DEF Ends, Returned
  <1> QED
    BY <1>2, <1>3, <1>4, <1>5, StepLocks

LEMMA EndsLockInv ==
    ASSUME TypeInv, WatchInv, LockInv, NEW t \in Tasks, Ends(t), UNCHANGED <<installed, watched>>
    PROVE  LockInv'
  <1>1. RecordGuards' /\ RailGuards' /\ RegistrationGuard'
    BY EndsGuards
  <1>2. task'[t].at # "sweep" /\ \A u \in Tasks \ {t} : task'[u] = task[u]
    BY EndsFacts, IdleTaskFacts
  <1>3. SweepsOthers'
    BY <1>2, EndsStill, StillSweeps
  <1> QED
    BY <1>1, <1>3 DEF LockInv

\* One task goes on with the locks it has; it keeps its entry.
LEMMA AlongLockInv ==
    ASSUME TypeInv, WatchInv, LockInv, NEW t \in Tasks, Still, UNCHANGED <<holder, registration, execution>>,
           \A u \in Tasks \ {t} : task'[u] = task[u],
           task'[t].swap = task[t].swap, task'[t].object = task[t].object,
           task[t].at \notin Registering,
           task[t].at \in Sending => task'[t].at \in Sending,
           task[t].at \in RecordPlaces \/ Automatic(t) => task'[t].at \in RecordPlaces \/ Automatic(t)'
    PROVE  LockInv'
  <1>1. \A s \in Swaps, o \in Objects : holder'[s][o] = t => AtRecord(t, s, o)'
    BY DEF LockInv, RecordGuards, AtRecord
  <1>2. \A l \in RailLocks : execution'[l] = t => task'[t].at \in Sending
    BY DEF LockInv, RailGuards
  <1>3. registration' # t
    BY DEF LockInv, RegistrationGuard
  <1>4. SweepsOthers'
    BY StillSweeps
  <1>5. RecordGuards' /\ RailGuards' /\ RegistrationGuard'
    BY <1>1, <1>2, <1>3, StepLocks
  <1> QED
    BY <1>4, <1>5 DEF LockInv

\* An idle task takes up work: it holds nothing yet but the rail or the registration it takes.
LEMMA IdleHoldsNothing ==
    ASSUME TypeInv, LockInv, NEW t \in Tasks, task[t].at \in {"idle", "retire"}
    PROVE  /\ \A s \in Swaps, o \in Objects : holder[s][o] # t
           /\ \A l \in RailLocks : execution[l] # t
           /\ registration # t
  BY DEF LockInv, RecordGuards, RailGuards, RegistrationGuard, AtRecord, RecordPlaces, Automatic, OnRail,
         Sending, Registering

LEMMA LooksLockInv ==
    ASSUME TypeInv, WatchInv, LockInv, NEW t \in Tasks, NEW s \in Tracked, NEW place \in Place \ Registering,
           task[t].at = "idle", Looks(t, s, place), UNCHANGED <<installed, watched, locks, sweep>>
    PROVE  LockInv'
  <1>1. \A u \in Tasks \ {t} : task'[u] = task[u]
    BY LooksFacts
  <1>2. task'[t].at # "sweep"
    BY LooksFacts DEF Registering
  <1>3. Still
    BY LooksStill DEF locks
  <1>4. SweepsOthers'
    BY <1>1, <1>2, <1>3, StillSweeps
  <1>5. RecordGuards' /\ RailGuards' /\ RegistrationGuard'
    BY <1>1, IdleHoldsNothing, StepLocks DEF locks
  <1> QED
    BY <1>4, <1>5 DEF LockInv

LEMMA CallLockInv ==
    ASSUME TypeInv, WatchInv, LockInv, NEW t \in Tasks, NEW s \in Swaps,
           CallReconcile(t, s) \/ CallUpdateOptions(t, s) \/ CallProveUnsent(t, s) \/ CallAttestSent(t, s)
    PROVE  LockInv'
  <1>1. {"lock", "options", "proveLock", "attestLock"} \subseteq Place \ Registering
    BY DEF Place, Registering
  <1>2. PICK place \in {"lock", "options", "proveLock", "attestLock"} : Looks(t, s, place) /\ s \in Tracked
    BY DEF CallReconcile, CallUpdateOptions, CallProveUnsent, CallAttestSent
  <1>3. UNCHANGED <<installed, watched, locks, sweep>> /\ task[t].at = "idle"
    BY DEF CallReconcile, CallUpdateOptions, CallProveUnsent, CallAttestSent, memory, Idle
  <1> QED
    BY <1>1, <1>2, <1>3, LooksLockInv

LEMMA WorkerLockInv ==
    ASSUME TypeInv, WatchInv, LockInv, Worker
    PROVE  LockInv'
  <1>1. CASE FullTick \/ RiskTick \/ WorkerWake
    BY <1>1, WorkerStill, LocksUntouched DEF FullTick, RiskTick, WorkerWake, Refresh
  <1>2. ASSUME NEW t \in Slots, StartReconcile(t)
        PROVE  LockInv'
    <2>1. PICK s \in batch : IF s \in Tracked THEN Looks(t, s, "lock") ELSE UNCHANGED task
      BY <1>2 DEF StartReconcile
    <2>2. UNCHANGED <<installed, watched, locks, sweep>> /\ t \in Tasks /\ task[t].at = "idle"
      BY <1>2 DEF StartReconcile, Tasks, Idle, memory
    <2>3. "lock" \in Place \ Registering
      BY DEF Place, Registering
    <2>4. CASE s \in Tracked
      BY <2>1, <2>2, <2>3, <2>4, LooksLockInv
    <2>5. CASE s \notin Tracked
      BY <2>1, <2>2, <2>5, WorkerStill, LocksUntouched
    <2> QED
      BY <2>4, <2>5
  <1> QED
    BY <1>1, <1>2 DEF Worker

\* Registration is synchronous: it begins when no task sweeps.
LEMMA InstallLockInv ==
    ASSUME TypeInv, WatchInv, LockInv, NEW S \in SUBSET Swaps, NEW recs, Install(S, recs)
    PROVE  LockInv'
  <1>1. registration = Free /\ UNCHANGED <<locks, task>>
    BY DEF Install
  <1>2. \A t \in Tasks : task[t].at \notin Registering
    BY <1>1, TrackerAssumption DEF WatchInv, HoldsRegistration
  <1>3. SweepsOthers'
    BY <1>1, <1>2 DEF SweepsOthers, Registering
  <1>4. RecordGuards' /\ RailGuards' /\ RegistrationGuard'
    BY <1>1 DEF LockInv, RecordGuards, RailGuards, RegistrationGuard, AtRecord, Automatic, OnRail, locks
  <1> QED
    BY <1>3, <1>4 DEF LockInv

LEMMA RegisterLockInv ==
    ASSUME TypeInv, WatchInv, LockInv, NEW t \in Tasks, NEW s \in Swaps,
           TrackSwap(t, s) \/ Resume(t, s) \/ Restore(t)
    PROVE  LockInv'
  <1>1. CASE TrackSwap(t, s)
    BY <1>1, InstallLockInv DEF TrackSwap
  <1>2. CASE Resume(t, s)
    BY <1>2, InstallLockInv DEF Resume
  <1>3. CASE Restore(t)
    <2>1. PICK S \in SUBSET Restorable : Install(S, journal)
      BY <1>3 DEF Restore
    <2>2. S \in SUBSET Swaps
      BY <2>1 DEF Restorable
    <2> QED
      BY <2>1, <2>2, InstallLockInv
  <1> QED
    BY <1>1, <1>2, <1>3

\* A task takes the record it looked up, and goes on to a place that owns it.
LEMMA TakesLockInv ==
    ASSUME TypeInv, WatchInv, LockInv, NEW t \in Tasks, Still, TakeRecord(t), UNCHANGED <<registration, execution>>,
           \A u \in Tasks \ {t} : task'[u] = task[u],
           task'[t].swap = task[t].swap, task'[t].object = task[t].object,
           task[t].swap \in Swaps, task[t].object \in Objects,
           task[t].at \in {"lock", "proveLock"}, task'[t].at \in {"decide", "release"}
    PROVE  LockInv'
  <1>1. /\ \A s \in Swaps, o \in Objects :
               holder'[s][o] = IF s = task[t].swap /\ o = task[t].object THEN t ELSE holder[s][o]
    BY DEF TakeRecord, TypeInv, TypeOK
  <1>2. \A s \in Swaps, o \in Objects : holder'[s][o] = t => AtRecord(t, s, o)'
    BY <1>1 DEF LockInv, RecordGuards, AtRecord, RecordPlaces
  <1>3. \A l \in RailLocks : execution[l] # t
    BY DEF LockInv, RailGuards, Sending
  <1>4. registration # t
    BY DEF LockInv, RegistrationGuard, Registering
  <1>5. RecordGuards' /\ RailGuards' /\ RegistrationGuard'
    BY <1>1, <1>2, <1>3, <1>4, StepLocks
  <1>6. SweepsOthers'
    BY StillSweeps
  <1> QED
    BY <1>5, <1>6 DEF LockInv

LEMMA ReconcileLockInv ==
    ASSUME TypeInv, WatchInv, LockInv, NEW t \in Tasks, Reconcile(t)
    PROVE  LockInv'
  <1>0. task \in [Tasks -> Task] /\ task[t] \in Task /\ Still
    BY ReconcileStill DEF TypeInv, TypeOK
  <1>1. CASE LockRecord(t)
    <2>1. CASE Record(t).enabled
      <3> DEFINE m == [task[t] EXCEPT !.at = "decide",
                       !.seen = [view |-> view[task[t].swap], status |-> hinted[task[t].swap][task[t].object]]]
      <3>1. m.at = "decide" /\ m.swap = task[t].swap /\ m.object = task[t].object
            /\ task' = [task EXCEPT ![t] = m]
        BY <1>0, <1>1, <2>1 DEF LockRecord, Task
      <3> HIDE DEF m
      <3>2. /\ task'[t].at = "decide" /\ task'[t].swap = task[t].swap /\ task'[t].object = task[t].object
            /\ \A u \in Tasks \ {t} : task'[u] = task[u]
        BY <1>0, <3>1
      <3>3. task[t].at = "lock" /\ TakeRecord(t) /\ UNCHANGED <<registration, execution>>
        BY <1>1, <2>1 DEF LockRecord
      <3>4. task[t].swap \in Swaps /\ task[t].object \in Objects
        BY <3>3, EntryFacts DEF EntryPlaces
      <3> QED
        BY <1>0, <3>2, <3>3, <3>4, TakesLockInv
    <2>2. CASE ~Record(t).enabled
      BY <1>1, <2>2, EndsLockInv DEF LockRecord, memory
    <2> QED
      BY <2>1, <2>2
  <1>2. CASE BeginAttempt(t)
    <2> DEFINE m == [task[t] EXCEPT !.at = "enter", !.kind = Derived(t), !.seen.view = IdleTask.seen.view]
    <2>1. m.at = "enter" /\ m.swap = task[t].swap /\ m.object = task[t].object
          /\ task' = [task EXCEPT ![t] = m]
      BY <1>0, <1>2 DEF BeginAttempt, Task
    <2> HIDE DEF m
    <2>2. /\ task'[t].at = "enter" /\ task'[t].swap = task[t].swap /\ task'[t].object = task[t].object
          /\ \A u \in Tasks \ {t} : task'[u] = task[u]
      BY <1>0, <2>1
    <2>3. task[t].at = "decide" /\ UNCHANGED <<holder, registration, execution>>
      BY <1>2 DEF BeginAttempt, locks
    <2> QED
      BY <1>0, <2>2, <2>3, AlongLockInv DEF Registering, Sending, RecordPlaces
  <1>3. CASE Conclude(t)
    <2> DEFINE m == [IdleTask EXCEPT !.at = "retire", !.swap = task[t].swap]
    <2>1. task' = [task EXCEPT ![t] = IdleTask] \/ task' = [task EXCEPT ![t] = m]
      BY <1>3 DEF Conclude
    <2>2. m.at = "retire"
      BY IdleTaskFacts DEF Task
    <2> HIDE DEF m
    <2>3. task'[t].at \in {"idle", "retire"} /\ \A u \in Tasks \ {t} : task'[u] = task[u]
      BY <1>0, <2>1, <2>2, IdleTaskFacts
    <2>4. task[t].at \in {"decide", "finish"} /\ UNCHANGED <<registration, execution>>
      BY <1>3 DEF Conclude
    <2>5. task[t].swap \in Swaps /\ task[t].object \in Objects
      BY <2>4, EntryFacts DEF EntryPlaces
    <2>6. \A s \in Swaps, o \in Objects :
              holder'[s][o] = IF s = task[t].swap /\ o = task[t].object THEN Free ELSE holder[s][o]
      BY <1>3, <2>5 DEF Conclude, TypeInv, TypeOK
    <2>7. \A u \in Tasks, s \in Swaps, o \in Objects : holder'[s][o] = u => u # t /\ holder[s][o] = u
      BY <2>6, TrackerAssumption DEF LockInv, RecordGuards, AtRecord
    <2>8. \A l \in RailLocks : execution[l] # t
      BY <2>4 DEF LockInv, RailGuards, Sending
    <2>9. registration # t
      BY <2>4 DEF LockInv, RegistrationGuard, Registering
    <2>10. RecordGuards' /\ RailGuards' /\ RegistrationGuard'
      BY <2>3, <2>4, <2>7, <2>8, <2>9, StepLocks
    <2>11. SweepsOthers'
      BY <1>0, <2>3, StillSweeps
    <2> QED
      BY <2>10, <2>11 DEF LockInv
  <1> QED
    BY <1>1, <1>2, <1>3 DEF Reconcile

\* A task takes its rail's lock, from a run or by hand.
LEMMA EntersLocks ==
    ASSUME TypeInv, LockInv, NEW t \in Tasks, NEW s \in Swaps, NEW k \in Kinds, Enters(t, s, k),
           \A u \in Tasks \ {t} : task'[u] = task[u], task'[t].at = "reserve",
           task[t].at \in {"idle", "enter"},
           \A r \in Swaps, o \in Objects : holder[r][o] = t => AtRecord(t, r, o)'
    PROVE  RecordGuards' /\ RailGuards' /\ RegistrationGuard'
  <1>1. UNCHANGED <<holder, registration>>
    BY DEF Enters
  <1>2. \A u \in Tasks \ {t}, l \in RailLocks : execution'[l] = u => execution[l] = u
    BY DEF Enters, TypeInv, TypeOK
  <1>3. registration # t
    BY DEF LockInv, RegistrationGuard, Registering
  <1> QED
    BY <1>1, <1>2, <1>3, StepLocks DEF Sending

LEMMA RunByHandLockInv ==
    ASSUME TypeInv, WatchInv, LockInv, NEW t \in Tasks, NEW s \in Swaps, RunByHand(t, s)
    PROVE  LockInv'
  <1>1. PICK k \in Kinds :
            /\ Enters(t, s, k)
            /\ task' = [task EXCEPT ![t] = [IdleTask EXCEPT !.at = "reserve", !.swap = s, !.kind = k]]
    BY DEF RunByHand, Manual
  <1> DEFINE m == [IdleTask EXCEPT !.at = "reserve", !.swap = s, !.kind = k]
  <1>2. m.at = "reserve" /\ task' = [task EXCEPT ![t] = m]
    BY <1>1, IdleTaskFacts DEF Task
  <1> HIDE DEF m
  <1>3. task'[t].at = "reserve" /\ \A u \in Tasks \ {t} : task'[u] = task[u]
    BY <1>2 DEF TypeInv, TypeOK
  <1>4. task[t].at = "idle"
    BY DEF RunByHand, Idle
  <1>5. RecordGuards' /\ RailGuards' /\ RegistrationGuard'
    BY <1>1, <1>3, <1>4, EntersLocks, IdleHoldsNothing
  <1>6. SweepsOthers'
    <2>1. Still
      BY CallStill
    <2> QED
      BY <1>3, <2>1, StillSweeps
  <1> QED
    BY <1>5, <1>6 DEF LockInv

LEMMA EndRunLockInv ==
    ASSUME TypeInv, WatchInv, LockInv, NEW t \in Tasks, NEW state, Still, OnRail(t), EndRun(t, state)
    PROVE  LockInv'
  <1>1. task \in [Tasks -> Task] /\ task[t] \in Task
    BY DEF TypeInv, TypeOK
  <1>2. \A u \in Tasks, l \in RailLocks : execution'[l] = u => u # t /\ execution[l] = u
    BY TrackerAssumption DEF EndRun, Returned
  <1>3. UNCHANGED <<holder, registration>> /\ registration # t
    BY DEF EndRun, LockInv, RegistrationGuard, Registering, OnRail
  <1>4. CASE task[t].object = 0
    <2>1. task'[t].at = "idle" /\ \A u \in Tasks \ {t} : task'[u] = task[u]
      BY <1>1, <1>4, IdleTaskFacts DEF EndRun
    <2>2. \A s \in Swaps, o \in Objects : holder[s][o] # t
      BY <1>4, TrackerAssumption DEF LockInv, RecordGuards, AtRecord, Objects
    <2>3. RecordGuards' /\ RailGuards' /\ RegistrationGuard'
      BY <1>2, <1>3, <2>1, <2>2, StepLocks
    <2>4. SweepsOthers'
      BY <2>1, StillSweeps
    <2> QED
      BY <2>3, <2>4 DEF LockInv
  <1>5. CASE task[t].object # 0
    <2> DEFINE m == [task[t] EXCEPT !.at = "finish", !.seen.view = view[task[t].swap]]
    <2>1. /\ task' = [task EXCEPT ![t] = m]
          /\ m.at = "finish" /\ m.swap = task[t].swap /\ m.object = task[t].object
      BY <1>1, <1>5 DEF EndRun, Task
    <2> HIDE DEF m
    <2>2. /\ task'[t].at = "finish" /\ task'[t].swap = task[t].swap /\ task'[t].object = task[t].object
          /\ \A u \in Tasks \ {t} : task'[u] = task[u]
      BY <1>1, <2>1
    <2>3. \A s \in Swaps, o \in Objects : holder[s][o] = t => AtRecord(t, s, o)'
      BY <2>2 DEF LockInv, RecordGuards, AtRecord, RecordPlaces
    <2>4. RecordGuards' /\ RailGuards' /\ RegistrationGuard'
      BY <1>2, <1>3, <2>2, <2>3, StepLocks
    <2>5. SweepsOthers'
      BY <2>2, StillSweeps
    <2> QED
      BY <2>4, <2>5 DEF LockInv
  <1> QED
    BY <1>4, <1>5

LEMMA RailLockInv ==
    ASSUME TypeInv, WatchInv, LockInv, NEW t \in Tasks, Rail(t)
    PROVE  LockInv'
  <1>1. Still /\ task[t] \in Task
    BY RailStill DEF TypeInv, TypeOK
  <1>2. CASE EnterRail(t)
    <2>1. /\ task'[t].at = "reserve" /\ task'[t].swap = task[t].swap /\ task'[t].object = task[t].object
          /\ \A u \in Tasks \ {t} : task'[u] = task[u]
      BY <1>2, GoesFacts DEF EnterRail, Place
    <2>2. task[t].at = "enter" /\ Enters(t, task[t].swap, task[t].kind) /\ task[t].object # 0
      BY <1>2 DEF EnterRail, TypeInv, HasEntry, EntryPlaces
    <2>3. \A s \in Swaps, o \in Objects : holder[s][o] = t => AtRecord(t, s, o)'
      BY <2>1, <2>2 DEF LockInv, RecordGuards, AtRecord, Automatic, OnRail
    <2>4. task[t].swap \in Swaps /\ task[t].kind \in Kinds
      BY <1>1 DEF Task
    <2>5. RecordGuards' /\ RailGuards' /\ RegistrationGuard'
      BY <2>1, <2>2, <2>3, <2>4, EntersLocks
    <2>6. SweepsOthers'
      BY <1>1, <2>1, StillSweeps
    <2> QED
      BY <2>5, <2>6 DEF LockInv
  <1>3. CASE Reserve(t) \/ Send(t) \/ NoteHash(t)
    <2>1. PICK place \in {"send", "note", "confirm"} : Goes(t, place)
      BY <1>3 DEF Reserve, Send, NoteHash
    <2>2. task[t].at \in {"reserve", "send", "note"} /\ UNCHANGED <<holder, registration, execution>>
      BY <1>3 DEF Reserve, Send, NoteHash, locks
    <2>3. /\ task'[t].at = place /\ task'[t].swap = task[t].swap /\ task'[t].object = task[t].object
          /\ \A u \in Tasks \ {t} : task'[u] = task[u]
      BY <2>1, GoesFacts DEF Place
    <2>4. task[t].at \in RecordPlaces \/ Automatic(t) => task'[t].at \in RecordPlaces \/ Automatic(t)'
      BY <2>2, <2>3 DEF Automatic, OnRail, RecordPlaces
    <2> QED
      BY <1>1, <2>2, <2>3, <2>4, AlongLockInv DEF Registering, Sending
  <1>4. CASE FindOwnSpend(t) \/ Confirm(t) \/ FailRun(t)
    <2>1. PICK state \in AttemptState : EndRun(t, state)
      BY <1>4 DEF FindOwnSpend, Confirm, FailRun, AttemptState
    <2>2. OnRail(t)
      BY <1>4 DEF FindOwnSpend, Confirm, FailRun, OnRail
    <2> QED
      BY <1>1, <2>1, <2>2, EndRunLockInv
  <1> QED
    BY <1>2, <1>3, <1>4 DEF Rail

LEMMA ResolvingLockInv ==
    ASSUME TypeInv, WatchInv, LockInv, NEW t \in Tasks, Resolving(t)
    PROVE  LockInv'
  <1>1. Still
    BY ResolvingStill
  <1>2. CASE UpdateOptions(t) \/ ForgetAttempt(t) \/ AttestSent(t)
    BY <1>2, EndsLockInv DEF UpdateOptions, ForgetAttempt, AttestSent
  <1>3. CASE TakeAttempt(t)
    <2>1. CASE Record(t).attempt # NoAttempt
      <3>1. task[t].at = "proveLock" /\ TakeRecord(t) /\ Goes(t, "release") /\ UNCHANGED <<registration, execution>>
        BY <1>3, <2>1 DEF TakeAttempt
      <3>2. task[t].swap \in Swaps /\ task[t].object \in Objects
        BY <3>1, EntryFacts DEF EntryPlaces
      <3>3. /\ task'[t].at = "release" /\ task'[t].swap = task[t].swap /\ task'[t].object = task[t].object
            /\ \A u \in Tasks \ {t} : task'[u] = task[u]
        BY <3>1, GoesFacts DEF Place
      <3> QED
        BY <1>1, <3>1, <3>2, <3>3, TakesLockInv
    <2>2. CASE Record(t).attempt = NoAttempt
      BY <1>3, <2>2, EndsLockInv DEF TakeAttempt, memory
    <2> QED
      BY <2>1, <2>2
  <1>4. CASE ReleaseReservation(t)
    <2>1. task[t].at = "release" /\ Goes(t, "forget") /\ UNCHANGED <<holder, registration, execution>>
      BY <1>4 DEF ReleaseReservation, locks
    <2>2. /\ task'[t].at = "forget" /\ task'[t].swap = task[t].swap /\ task'[t].object = task[t].object
          /\ \A u \in Tasks \ {t} : task'[u] = task[u]
      BY <2>1, GoesFacts DEF Place
    <2> QED
      BY <1>1, <2>1, <2>2, AlongLockInv DEF Registering, Sending, RecordPlaces
  <1> QED
    BY <1>2, <1>3, <1>4 DEF Resolving

\* untrack and retirement take registration when it is free.
LEMMA TakesRegistrationGuard ==
    ASSUME TypeInv, WatchInv, LockInv, NEW t \in Tasks, NEW s \in Tracked, NEW place \in {"untrackLock", "retireLock"},
           task[t].at \in {"idle", "retire"}, registration = Free, registration' = t, Looks(t, s, place),
           UNCHANGED <<holder, execution, sweep>>
    PROVE  LockInv'
  <1>1. task'[t].at = place /\ \A u \in Tasks \ {t} : task'[u] = task[u]
    BY LooksFacts DEF Place
  <1>2. \A u \in Tasks : task'[u].at # "sweep"
    BY <1>1, TrackerAssumption DEF WatchInv, HoldsRegistration, Registering
  <1>3. RecordGuards' /\ RailGuards' /\ RegistrationGuard'
    BY <1>1, IdleHoldsNothing, StepLocks DEF Registering
  <1>4. SweepsOthers'
    BY <1>2 DEF SweepsOthers
  <1> QED
    BY <1>3, <1>4 DEF LockInv

LEMMA DisablingLockInv ==
    ASSUME TypeInv, WatchInv, LockInv, NEW t \in Tasks, Disabling(t)
    PROVE  LockInv'
  <1>1. CASE Retire(t)
    <2>1. CASE task[t].swap \in Tracked
      BY <1>1, <2>1, TakesRegistrationGuard DEF Retire
    <2>2. CASE task[t].swap \notin Tracked
      BY <1>1, <2>2, EndsLockInv DEF Retire, memory
    <2> QED
      BY <2>1, <2>2
  <1>2. CASE Disable(t)
    <2>1. task[t].at \in {"untrackLock", "retireLock"} /\ TakeRecord(t) /\ UNCHANGED <<registration, execution>>
      BY <1>2 DEF Disable
    <2>2. registration = t
      BY <2>1 DEF WatchInv, HoldsRegistration, Registering
    <2>3. task[t].swap \in Swaps /\ task[t].object \in Objects
      BY <2>1, EntryFacts DEF EntryPlaces
    <2>4. /\ task'[t].at = "sweep" /\ task'[t].swap = task[t].swap /\ task'[t].object = task[t].object
          /\ \A u \in Tasks \ {t} : task'[u] = task[u]
      BY <1>2, GoesFacts DEF Disable, Place
    <2>5. \A s \in Swaps, o \in Objects :
              holder'[s][o] = IF s = task[t].swap /\ o = task[t].object THEN t ELSE holder[s][o]
      BY <2>1 DEF TakeRecord, TypeInv, TypeOK
    <2>6. \A s \in Swaps, o \in Objects : holder'[s][o] = t => AtRecord(t, s, o)'
      BY <2>4, <2>5 DEF LockInv, RecordGuards, AtRecord, RecordPlaces
    <2>7. \A l \in RailLocks : execution[l] # t
      BY <2>1 DEF LockInv, RailGuards, Sending
    <2>8. RecordGuards' /\ RailGuards' /\ RegistrationGuard'
      BY <2>1, <2>4, <2>5, <2>6, <2>7, StepLocks DEF Registering
    <2>9. \A u \in Tasks \ {t} : task'[u].at # "sweep"
      BY <2>2, <2>4 DEF WatchInv, HoldsRegistration, Registering
    <2>10. Tracked \ {task[t].swap} \subseteq Tracked'
      BY <1>2 DEF Disable, Tracked, TypeInv, TypeOK
    <2>11. sweep'.left = Tracked \ {task[t].swap}
      BY <1>2 DEF Disable, NoSweep
    <2>12. SweepsOthers'
      BY <2>4, <2>9, <2>10, <2>11 DEF SweepsOthers
    <2> QED
      BY <2>8, <2>12 DEF LockInv
  <1>3. CASE SpareUnsettled(t)
    BY <1>3, EndsLockInv DEF SpareUnsettled, memory
  <1>4. CASE SweepOne(t)
    <2>1. PICK s \in sweep.left : sweep' = [left |-> sweep.left \ {s}, used |-> sweep.used \union WatchKeys[s]]
      BY <1>4 DEF SweepOne
    <2>2. UNCHANGED <<installed, task, locks>>
      BY <1>4 DEF SweepOne, memory
    <2>3. SweepsOthers'
      BY <2>1, <2>2 DEF LockInv, SweepsOthers, Tracked
    <2>4. RecordGuards' /\ RailGuards' /\ RegistrationGuard'
      BY <2>2 DEF LockInv, RecordGuards, RailGuards, RegistrationGuard, AtRecord, Automatic, OnRail, locks
    <2> QED
      BY <2>3, <2>4 DEF LockInv
  <1>5. CASE UnregisterUnused(t)
    <2>1. RecordGuards' /\ RailGuards' /\ RegistrationGuard'
      BY <1>5, EndsGuards DEF UnregisterUnused
    <2>2. registration = t
      BY <1>5 DEF UnregisterUnused, WatchInv, HoldsRegistration, Registering
    <2>3. \A u \in Tasks : task'[u].at # "sweep"
      BY <1>5, <2>2, EndsFacts, IdleTaskFacts DEF UnregisterUnused, WatchInv, HoldsRegistration, Registering
    <2>4. SweepsOthers'
      BY <2>3 DEF SweepsOthers
    <2> QED
      BY <2>1, <2>4 DEF LockInv
  <1> QED
    BY <1>1, <1>2, <1>3, <1>4, <1>5 DEF Disabling

\* The worker's guards go with its tasks.
LEMMA DropWorkerLockInv ==
    ASSUME TypeInv, WatchInv, LockInv, DropWorker
    PROVE  LockInv'
  <1>1. Free \notin Tasks
    BY TrackerAssumption
  <1>2. \A u \in Tasks : task'[u] = IF u \in Slots THEN IdleTask ELSE task[u]
    BY DEF DropWorker
  <1>3. \A u \in Tasks, s \in Swaps, o \in Objects : holder'[s][o] = u => u \notin Slots /\ holder[s][o] = u
    BY <1>1 DEF DropWorker
  <1>4. \A u \in Tasks, l \in RailLocks : execution'[l] = u => u \notin Slots /\ execution[l] = u
    BY <1>1 DEF DropWorker
  <1>5. \A u \in Tasks : registration' = u => u \notin Slots /\ registration = u
    BY <1>1 DEF DropWorker
  <1>6. RecordGuards'
    BY <1>2, <1>3 DEF LockInv, RecordGuards, AtRecord, Automatic, OnRail
  <1>7. RailGuards' /\ RegistrationGuard'
    BY <1>2, <1>4, <1>5 DEF LockInv, RailGuards, RegistrationGuard
  <1>8. SweepsOthers'
    <2>1. Still
      BY DropWorkerStill
    <2> QED
      BY <1>2, <2>1, IdleTaskFacts, StillSweeps
  <1> QED
    BY <1>6, <1>7, <1>8 DEF LockInv

LEMMA CrashLockInv ==
    ASSUME Crash
    PROVE  LockInv'
  BY IdleTaskFacts, TrackerAssumption
     DEF Crash, RecordsFree, RailsFree, LockInv, RecordGuards, RailGuards, RegistrationGuard, SweepsOthers

LEMMA NextLockInv ==
    ASSUME TypeInv, WatchInv, LockInv, [Next]_vars
    PROVE  LockInv'
  <1>1. CASE UNCHANGED vars
    BY <1>1, LocksUntouched DEF Still, vars, memory, locks
  <1>2. ASSUME NEW s \in Swaps, Environment(s)
        PROVE  LockInv'
    <2>1. UNCHANGED <<task, locks>>
      BY <1>2 DEF Environment, Hint, HintStatus, DeadlinePasses, RetirePeriodPasses, ViewChanges
    <2> QED
      BY <1>2, <2>1, EnvironmentStill, LocksUntouched
  <1>3. ASSUME NEW t \in Tasks, StorageFails(t) \/ DropCall(t)
        PROVE  LockInv'
    BY <1>3, EndsLockInv DEF StorageFails, DropCall, memory
  <1>4. ASSUME NEW t \in Operators, NEW s \in Swaps, Call(t, s)
        PROVE  LockInv'
    <2>1. t \in Tasks
      BY DEF Tasks
    <2>2. CASE TrackSwap(t, s) \/ Resume(t, s)
      BY <2>1, <2>2, RegisterLockInv
    <2>3. CASE Untrack(t, s)
      BY <2>1, <2>3, TakesRegistrationGuard DEF Untrack, Idle
    <2> QED
      BY <1>4, <2>1, <2>2, <2>3, CallLockInv, RunByHandLockInv DEF Call
  <1>5. ASSUME NEW t \in Operators, Restore(t)
        PROVE  LockInv'
    <2>1. PICK s \in Swaps : TRUE
      BY TrackerAssumption
    <2> QED
      BY <1>5, <2>1, RegisterLockInv DEF Tasks
  <1>6. \A t \in Operators : t \in Tasks
    BY DEF Tasks
  <1>7. CASE Next
    BY <1>2, <1>3, <1>4, <1>5, <1>6, <1>7, WorkerLockInv, ReconcileLockInv, RailLockInv, DisablingLockInv,
       ResolvingLockInv, DropWorkerLockInv, CrashLockInv DEF Next
  <1> QED
    BY <1>1, <1>7

\* Who holds what, by the place of the holder.
LEMMA HoldersPlaces ==
    ASSUME TypeInv, WatchInv, LockInv, NEW u \in Tasks
    PROVE  /\ \A s \in Swaps, o \in Objects : holder[s][o] = u =>
                  /\ task[u].at \in {"decide", "finish", "enter", "sweep", "release", "forget"} \union Sending
                  /\ s = task[u].swap
           /\ \A l \in RailLocks : execution[l] = u => task[u].at \in Sending
           /\ registration = u => task[u].at \in Registering
  BY DEF LockInv, RecordGuards, RailGuards, RegistrationGuard, AtRecord, RecordPlaces, Automatic, OnRail, Sending

\* What each task waits for, by its place: nothing, a rail, the records of others, registration.
LEMMA Waiting ==
    ASSUME TypeInv, WatchInv, LockInv, NEW t \in Tasks
    PROVE  /\ WaitsFor(t) # {} =>
                  task[t].at \in {"enter", "release", "sweep", "untrackLock", "retireLock", "lock", "options",
                                  "proveLock", "attestLock", "retire"}
           /\ task[t].at \in {"enter", "release"} =>
                  \A u \in WaitsFor(t) \intersect Tasks : task[u].at \in Sending
           /\ task[t].at \in {"sweep", "untrackLock", "retireLock", "lock", "options", "proveLock", "attestLock"} =>
                  \A u \in WaitsFor(t) \intersect Tasks :
                      /\ task[u].at \in {"decide", "finish", "enter", "sweep", "release", "forget"} \union Sending
                      /\ task[t].at = "sweep" => task[u].at # "sweep"
           /\ task[t].at = "retire" =>
                  \A u \in WaitsFor(t) \intersect Tasks : task[u].at \in Registering
  <1>1. task[t] \in Task
    BY DEF TypeInv, TypeOK
  <1>2. task[t].at \in Place /\ task[t].swap \in Swaps /\ task[t].kind \in Kinds
    BY <1>1 DEF Task
  <1>3. CASE task[t].at \in {"lock", "options", "proveLock", "attestLock", "untrackLock", "retireLock"}
    <2>1. WaitsFor(t) = {holder[task[t].swap][task[t].object]} \ {Free}
      BY <1>3 DEF WaitsFor
    <2>2. task[t].object \in Objects
      BY <1>3, EntryFacts DEF EntryPlaces
    <2> QED
      BY <1>2, <1>3, <2>1, <2>2, HoldersPlaces
  <1>4. CASE task[t].at = "enter"
    <2>1. WaitsFor(t) = {execution[RailLock(task[t].swap, task[t].kind)]} \ {Free}
      BY <1>4 DEF WaitsFor
    <2>2. RailLock(task[t].swap, task[t].kind) \in RailLocks
      BY DEF RailLock, RailLocks
    <2> QED
      BY <1>4, <2>1, <2>2, HoldersPlaces
  <1>5. CASE task[t].at = "release"
    <2>1. WaitsFor(t) = {execution["evm"]} \ {Free}
      BY <1>5 DEF WaitsFor
    <2> QED
      BY <1>5, <2>1, HoldersPlaces DEF RailLocks
  <1>6. CASE task[t].at = "retire"
    <2>1. WaitsFor(t) = {registration} \ {Free}
      BY <1>6 DEF WaitsFor
    <2> QED
      BY <1>6, <2>1, HoldersPlaces
  <1>7. CASE task[t].at = "sweep"
    <2>1. WaitsFor(t) = {holder[r][installed[r]] : r \in sweep.left} \ {Free}
      BY <1>7 DEF WaitsFor
    <2>2. registration = t
      BY <1>7 DEF WatchInv, HoldsRegistration, Registering
    <2>3. sweep.left \subseteq Tracked \ {task[t].swap}
      BY <1>7 DEF LockInv, SweepsOthers
    <2>4. ASSUME NEW u \in WaitsFor(t) \intersect Tasks
          PROVE  /\ task[u].at \in {"decide", "finish", "enter", "sweep", "release", "forget"} \union Sending
                 /\ task[u].at # "sweep"
      <3>1. PICK r \in sweep.left : u = holder[r][installed[r]]
        BY <2>1, <2>4
      <3>2. r \in Swaps /\ installed[r] \in Objects /\ r # task[t].swap
        BY <2>3, <3>1, TrackerAssumption DEF Tracked, TypeInv, TypeOK, Objects
      <3>3. /\ task[u].at \in {"decide", "finish", "enter", "sweep", "release", "forget"} \union Sending
            /\ r = task[u].swap
        BY <2>4, <3>1, <3>2, HoldersPlaces
      <3>4. task[u].at # "sweep"
        BY <2>2, <2>4, <3>2, <3>3 DEF WatchInv, HoldsRegistration, Registering
      <3> QED
        BY <3>3, <3>4
    <2> QED
      BY <1>7, <2>4
  <1>8. CASE task[t].at \notin {"lock", "options", "proveLock", "attestLock", "untrackLock", "retireLock",
                                "enter", "release", "retire", "sweep"}
    <2>1. WaitsFor(t) = {}
      BY <1>8 DEF WaitsFor
    <2> QED
      BY <1>8, <2>1
  <1> QED
    BY <1>3, <1>4, <1>5, <1>6, <1>7, <1>8

\* In every group of tasks the one furthest along the order of the locks waits for no other.
LEMMA OrderedLocks ==
    ASSUME TypeInv, WatchInv, LockInv
    PROVE  NoCircularWait
  <1>1. ASSUME NEW S \in (SUBSET Tasks) \ {{}}
        PROVE  \E t \in S : WaitsFor(t) \intersect S = {}
    <2>1. CASE \E t \in S : task[t].at \notin {"enter", "release", "sweep", "untrackLock", "retireLock", "lock",
                                               "options", "proveLock", "attestLock", "retire"}
      BY <1>1, <2>1, Waiting
    <2>2. CASE /\ \A u \in S : task[u].at \in {"enter", "release", "sweep", "untrackLock", "retireLock", "lock",
                                               "options", "proveLock", "attestLock", "retire"}
               /\ \E t \in S : task[t].at \in {"enter", "release"}
      BY <1>1, <2>2, Waiting DEF Sending
    <2>3. CASE /\ \A u \in S : task[u].at \in {"sweep", "untrackLock", "retireLock", "lock", "options",
                                               "proveLock", "attestLock", "retire"}
               /\ \E t \in S : task[t].at = "sweep"
      BY <1>1, <2>3, Waiting DEF Sending
    <2>4. CASE /\ \A u \in S : task[u].at \in {"untrackLock", "retireLock", "lock", "options", "proveLock",
                                               "attestLock", "retire"}
               /\ \E t \in S : task[t].at # "retire"
      BY <1>1, <2>4, Waiting DEF Sending
    <2>5. CASE \A u \in S : task[u].at = "retire"
      BY <1>1, <2>5, Waiting DEF Registering
    <2> QED
      BY <1>1, <2>1, <2>2, <2>3, <2>4, <2>5
  <1>2. ASSUME NEW t \in Tasks, Idle(t)
        PROVE  /\ registration # t
               /\ \A l \in RailLocks : execution[l] # t
               /\ \A s \in Swaps, o \in Objects : holder[s][o] # t
    BY <1>2, IdleHoldsNothing DEF Idle
  <1> QED
    BY <1>1, <1>2 DEF NoCircularWait

\* However many swaps, slots and operators there are, and whatever fails, is dropped or
\* restarted: in every group of tasks one waits for none of the group, and a task that is
\* gone holds no lock (disable, reconcile, resolve_attempt).
THEOREM NobodyWaitsInACircle == Spec => []NoCircularWait
  <1>1. TypeInv /\ WatchInv /\ LockInv => NoCircularWait
    BY OrderedLocks
  <1>2. Spec => []WatchInv
    BY TypeInvariant, InitWatchInv, NextWatchInv, PTL DEF Spec
  <1>3. Spec => []LockInv
    BY <1>2, TypeInvariant, InitLockInv, NextLockInv, PTL DEF Spec
  <1> QED
    BY <1>1, <1>2, <1>3, TypeInvariant, PTL
=============================================================================
