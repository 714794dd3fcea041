--------------------------- MODULE ContractManager ---------------------------
(***************************************************************************)
(* rust-sdk/src/observation/manager.rs: the cache of contract observations *)
(* between the chain readers and the tracker.  Callers and the monitor's   *)
(* tasks read one contract at a time each; a read takes time, may fail, be *)
(* dropped, or end after its registration did.                             *)
(*                                                                         *)
(* An observation is the value the contract showed at one moment.  As in   *)
(* SwapTracker, a registration is an Entry object that outlives its place  *)
(* in the map while a read holds it.                                       *)
(***************************************************************************)
EXTENDS Integers, FiniteSets

CONSTANTS
    Keys,
    Values,        \* what a contract can show
    Chains,        \* what the contracts can show together
    Callers,       \* tasks that call reconcile: the tracker's, the application's
    Slots,         \* a refresh's concurrent reads (ManagerOptions::concurrency)
    MaxContracts,
    ReadTimeout, MaximumAge,
    Drops,         \* whether a sweep may be dropped halfway
    MaxEntries,    \* bound: registrations made
    MaxTime,       \* bound: moments that pass
    Unknown, Nothing, Free, Unregistered

Readers == Callers \union Slots
Objects == 1 .. MaxEntries
Moment == 0 .. MaxTime

ASSUME ManagerAssumption ==
    /\ Callers \intersect Slots = {}
    /\ Free \notin Readers
    /\ Unknown \notin Values /\ Nothing \notin Values /\ Unknown # Nothing
    /\ IsFiniteSet(Keys) /\ Keys # {} /\ Values # {}
    /\ Chains \subseteq [Keys -> Values]
    /\ MaxContracts \in Nat \ {0}
    /\ ReadTimeout \in Nat \ {0} /\ MaximumAge \in Nat \ {0}
    /\ MaxEntries \in Nat \ {0} /\ MaxTime \in Nat
    /\ Drops \in BOOLEAN
    /\ Unregistered \notin Int

\* at: the Instant of the store; taken: the moment the value was true.
Stored == [at : Moment, value : Values \union {Unknown}, taken : Moment]

\* since and taken only serve the properties.
Entry == [since : Moment, state : Stored \union {Nothing}]

ASSUME StoredAssumption == Nothing \notin Stored

Place == {"idle", "queue", "read", "answer"}

Reader == [at : Place, key : Keys, entry : 0 .. MaxEntries, began : Moment,
           value : Values, taken : Moment]

VARIABLES
    now, chain,    \* the moment, and what every contract shows now
    entries,       \* Inner.entries: the object of a registered contract, or 0
    created,       \* objects made so far
    entry,
    mutex,         \* Entry.read
    reader,        \* where each reader is
    events,        \* the last event sent for each contract
    left           \* contracts the refresh under way has yet to read

world == <<now, chain>>
map == <<entries, created>>
vars == <<world, map, entry, mutex, reader, events, left>>

Registered == {k \in Keys : entries[k] # 0}

IdleReader == [at |-> "idle", key |-> CHOOSE k \in Keys : TRUE, entry |-> 0, began |-> 0,
               value |-> CHOOSE v \in Values : TRUE, taken |-> 0]

Idle(t) == reader[t].at = "idle"
Reading(t) == reader[t].at \in {"read", "answer"}

-----------------------------------------------------------------------------
(* Registration *)

\* register_unread; a contract that is registered already keeps its entry.
Register(k) ==
    /\ k \notin Registered
    /\ Cardinality(Registered) < MaxContracts
    /\ created < MaxEntries
    /\ created' = created + 1
    /\ entries' = [entries EXCEPT ![k] = created + 1]
    /\ entry' = [entry EXCEPT ![created + 1] = [since |-> now, state |-> Nothing]]
    /\ UNCHANGED <<world, mutex, reader, events, left>>

Unregister(k) ==
    /\ k \in Registered
    /\ entries' = [entries EXCEPT ![k] = 0]
    /\ UNCHANGED <<world, created, entry, mutex, reader, events, left>>

-----------------------------------------------------------------------------
(* reconcile *)

\* The entry is looked up and kept.
Looks(t, k) ==
    reader' = [reader EXCEPT ![t] = [IdleReader EXCEPT !.at = "queue", !.key = k, !.entry = entries[k]]]

CallReconcile(t, k) ==
    /\ Idle(t) /\ k \in Registered
    /\ Looks(t, k)
    /\ UNCHANGED <<world, map, entry, mutex, events, left>>

\* Mistake: reads of one contract do not wait for each other.
BeginReadTogether(t) ==
    /\ reader[t].at = "queue"
    /\ mutex' = [mutex EXCEPT ![reader[t].entry] = t]
    /\ reader' = [reader EXCEPT ![t].at = "read", ![t].began = now]
    /\ UNCHANGED <<world, map, entry, events, left>>

\* The read's lock is granted; the timeout starts now.
BeginRead(t) ==
    /\ reader[t].at = "queue"
    /\ mutex[reader[t].entry] = Free
    /\ mutex' = [mutex EXCEPT ![reader[t].entry] = t]
    /\ reader' = [reader EXCEPT ![t].at = "read", ![t].began = now]
    /\ UNCHANGED <<world, map, entry, events, left>>

\* The node looks at the contract; its answer is on the way.
Sample(t) ==
    /\ reader[t].at = "read"
    /\ reader' = [reader EXCEPT ![t].at = "answer", ![t].value = chain[reader[t].key], ![t].taken = now]
    /\ UNCHANGED <<world, map, entry, mutex, events, left>>

\* The guards of the readers of T are returned.
End(T) ==
    /\ reader' = [t \in Readers |-> IF t \in T THEN IdleReader ELSE reader[t]]
    /\ mutex' = [o \in Objects |-> IF mutex[o] \in T THEN Free ELSE mutex[o]]

\* Mistake: a read is published although its registration is over.
StoreAnyway(t, value, taken) ==
    LET k == reader[t].key
        o == reader[t].entry
        changed == entry[o].state = Nothing \/ entry[o].state.value # value
    IN /\ entry' = [entry EXCEPT ![o].state = [at |-> now, value |-> value, taken |-> taken]]
       /\ events' = IF changed \/ value = Unknown THEN [events EXCEPT ![k] = value] ELSE events
       /\ End({t})
       /\ UNCHANGED <<world, map, left>>

\* Under the map's lock: only the registration the read was made for takes it, and an
\* event tells of a change or of an error.
Store(t, value, taken) ==
    LET k == reader[t].key
        o == reader[t].entry
        changed == entry[o].state = Nothing \/ entry[o].state.value # value
    IN /\ IF entries[k] = o
          THEN /\ entry' = [entry EXCEPT ![o].state = [at |-> now, value |-> value, taken |-> taken]]
               /\ events' = IF changed \/ value = Unknown THEN [events EXCEPT ![k] = value] ELSE events
          ELSE UNCHANGED <<entry, events>>
       /\ End({t})
       /\ UNCHANGED <<world, map, left>>

Answer(t) == reader[t].at = "answer" /\ Store(t, reader[t].value, reader[t].taken)

\* Mistake: a failed read confirms what was known.
FailKeeping(t) ==
    LET state == entry[reader[t].entry].state
    IN /\ Reading(t)
       /\ IF state = Nothing THEN Store(t, Unknown, now) ELSE Store(t, state.value, state.taken)

\* An error of the reader, or its timeout: nothing is known.
Fail(t) == Reading(t) /\ Store(t, Unknown, now)

\* A caller drops its future, or its reader panics.
DropCall(t) ==
    /\ ~Idle(t)
    /\ End({t})
    /\ UNCHANGED <<world, map, entry, events, left>>

-----------------------------------------------------------------------------
(* refresh, which the monitor calls at every tick of its interval *)

SweepDone == left = {} /\ \A t \in Slots : Idle(t)

\* Mistake: what was read once is not read again.
RefreshUnread ==
    /\ SweepDone
    /\ left' = {k \in Registered : entry[entries[k]].state = Nothing}
    /\ UNCHANGED <<world, map, entry, mutex, reader, events>>

Refresh ==
    /\ SweepDone
    /\ left' = Registered
    /\ UNCHANGED <<world, map, entry, mutex, reader, events>>

\* A contract unregistered meanwhile is passed over.
Spawn(t) ==
    /\ Idle(t)
    /\ \E k \in left :
          /\ left' = left \ {k}
          /\ IF k \in Registered THEN Looks(t, k) ELSE UNCHANGED reader
    /\ UNCHANGED <<world, map, entry, mutex, events>>

\* Dropping the JoinSet aborts the reads of the sweep: at the monitor's shutdown, or when
\* a reader panics.
DropSweep ==
    /\ Drops /\ ~SweepDone
    /\ left' = {}
    /\ End(Slots)
    /\ UNCHANGED <<world, map, entry, events>>

-----------------------------------------------------------------------------
\* Blocks and reorganizations: a contract may show anything at the next moment.  No
\* read lasts longer than its timeout.
Tick ==
    /\ now < MaxTime
    /\ \A t \in Readers : Reading(t) => now < reader[t].began + ReadTimeout
    /\ now' = now + 1
    /\ chain' \in Chains
    /\ UNCHANGED <<map, entry, mutex, reader, events, left>>

Init ==
    /\ now = 0 /\ chain \in Chains
    /\ entries = [k \in Keys |-> 0] /\ created = 0
    /\ entry = [o \in Objects |-> [since |-> 0, state |-> Nothing]]
    /\ mutex = [o \in Objects |-> Free]
    /\ reader = [t \in Readers |-> IdleReader]
    /\ events = [k \in Keys |-> Nothing]
    /\ left = {}

Read(t) == BeginRead(t) \/ Sample(t) \/ Answer(t) \/ Fail(t)

Sweep == Refresh \/ (\E t \in Slots : Spawn(t)) \/ DropSweep

Next ==
    \/ \E k \in Keys : Register(k) \/ Unregister(k)
    \/ \E t \in Callers : DropCall(t) \/ \E k \in Keys : CallReconcile(t, k)
    \/ \E t \in Readers : Read(t)
    \/ Sweep
    \/ Tick

Spec == Init /\ [][Next]_vars

-----------------------------------------------------------------------------
\* What the manager answers for a registered contract.
Get(k) ==
    LET state == entry[entries[k]].state
    IN IF state # Nothing /\ now - state.at <= MaximumAge THEN state.value ELSE Unknown

TypeOK ==
    /\ now \in Moment /\ chain \in [Keys -> Values]
    /\ entries \in [Keys -> 0 .. MaxEntries] /\ created \in 0 .. MaxEntries
    /\ Cardinality(Registered) <= MaxContracts
    /\ entry \in [Objects -> Entry]
    /\ mutex \in [Objects -> Readers \union {Free}]
    /\ reader \in [Readers -> Reader]
    /\ events \in [Keys -> Values \union {Unknown, Nothing}]
    /\ left \subseteq Keys

\* A subscriber that follows the events knows what the manager has stored: a read that
\* ends after its registration did, or beside another, is never announced over a later
\* one (reconcile, "cannot restore an old registration").
EventsFollowState ==
    \A k \in Registered :
        entry[entries[k]].state # Nothing => events[k] = entry[entries[k]].state.value

\* What get shows was true at most a read's timeout before its maximum age: neither a
\* queue of readers, a slow answer nor a failed refresh stretches it (get, reconcile).
ShownIsRecent ==
    \A k \in Registered :
        Get(k) # Unknown => now - entry[entries[k]].state.taken <= MaximumAge + ReadTimeout

Floor(k) ==
    IF entries[k] = 0 THEN Unregistered
    ELSE IF entry[entries[k]].state = Nothing THEN entry[entries[k]].since
    ELSE entry[entries[k]].state.taken

Promise == INSTANCE ObservationRegister WITH floor <- [k \in Keys |-> Floor(k)]

\* The manager implements the register: results are stored in the order their reads
\* began, in every interleaving of readers, drops and registrations.
ImplementsRegister == Promise!Spec

-----------------------------------------------------------------------------
\* A read ends within its timeout, Tokio's mutexes are first in, first out, and the
\* interval ticks again after every sweep.
FairSpec ==
    /\ Spec
    /\ WF_vars(Refresh)
    /\ \A t \in Slots : WF_vars(Spawn(t))
    /\ \A t \in Readers : SF_vars(BeginRead(t)) /\ WF_vars(Sample(t) \/ Fail(t)) /\ WF_vars(Answer(t) \/ Fail(t))

\* While the monitor runs, what a registered contract goes on showing is seen in the end,
\* or the reads of it fail (refresh, "one failed reader does not suppress other chains").
ChangeIsSeen ==
    \A k \in Keys, v \in Values :
        (k \in Registered /\ chain[k] = v) ~>
            \/ k \notin Registered \/ chain[k] # v
            \/ entry[entries[k]].state # Nothing /\ entry[entries[k]].state.value \in {v, Unknown}
==============================================================================
