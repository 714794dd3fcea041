------------------------ MODULE ContractManagerProofs ------------------------
(***************************************************************************)
(* The contract manager for any number of contracts, readers, registrations *)
(* and moments: it implements the register, its events follow what it has  *)
(* stored, and what it shows is recent.                                    *)
(***************************************************************************)
EXTENDS ContractManager, FiniteSetTheorems, TLAPS

\* The type invariant without the capacity.
ShapeOK ==
    /\ now \in Moment /\ chain \in [Keys -> Values]
    /\ entries \in [Keys -> 0 .. MaxEntries] /\ created \in 0 .. MaxEntries
    /\ entry \in [Objects -> Entry]
    /\ mutex \in [Objects -> Readers \union {Free}]
    /\ reader \in [Readers -> Reader]
    /\ events \in [Keys -> Values \union {Unknown, Nothing}]
    /\ left \subseteq Keys

\* Every registration has an object of its own, made before it is used.
OwnEntries ==
    /\ \A k \in Keys : entries[k] <= created
    /\ \A j, k \in Keys : entries[j] # 0 /\ entries[j] = entries[k] => j = k
    /\ \A t \in Readers : reader[t].entry <= created
    /\ \A t \in Readers : ~Idle(t) => reader[t].entry # 0

HoldsRead == \A t \in Readers : Reading(t) => mutex[reader[t].entry] = t

\* No read outlasts its timeout, and its value is from its own time.
Timely ==
    \A t \in Readers : Reading(t) =>
        /\ reader[t].began <= now /\ now <= reader[t].began + ReadTimeout
        /\ reader[t].at = "answer" => reader[t].began <= reader[t].taken /\ reader[t].taken <= now

\* The moment an entry shows.
Bottom(o) == IF entry[o].state = Nothing THEN entry[o].since ELSE entry[o].state.taken

Dated ==
    \A o \in Objects :
        /\ Bottom(o) <= now
        /\ entry[o].state # Nothing =>
              entry[o].state.at <= now /\ entry[o].state.at <= entry[o].state.taken + ReadTimeout

\* A read begins after everything its entry shows.
ReadsLater == \A t \in Readers : Reading(t) => Bottom(reader[t].entry) <= reader[t].began

ManagerInv == ShapeOK /\ OwnEntries /\ HoldsRead /\ Timely /\ Dated /\ ReadsLater /\ EventsFollowState

RegisterStep == [Promise!Next]_<<now, [k \in Keys |-> Floor(k)]>>

LEMMA IdleReaderFacts == IdleReader \in Reader /\ IdleReader.at = "idle" /\ IdleReader.entry = 0
  <1>1. PICK k \in Keys, v \in Values : IdleReader = [at |-> "idle", key |-> k, entry |-> 0, began |-> 0, value |-> v, taken |-> 0]
    <2>1. (CHOOSE k \in Keys : TRUE) \in Keys /\ (CHOOSE v \in Values : TRUE) \in Values
      BY ManagerAssumption
    <2> QED
      BY <2>1 DEF IdleReader
  <1> QED
    BY <1>1, ManagerAssumption DEF Reader, Place, Moment

LEMMA FloorIsBottom == \A k \in Keys : Floor(k) = IF entries[k] = 0 THEN Unregistered ELSE Bottom(entries[k])
  BY DEF Floor, Bottom

LEMMA InitManagerInv == Init => ManagerInv /\ Promise!Init
  <1> SUFFICES ASSUME Init PROVE ManagerInv /\ Promise!Init
    OBVIOUS
  <1> USE ManagerAssumption
  <1>1. ShapeOK
    BY IdleReaderFacts DEF Init, ShapeOK, Entry, Moment, Objects
  <1>2. \A t \in Readers : Idle(t) /\ ~Reading(t) /\ reader[t].entry = 0
    BY IdleReaderFacts DEF Init, Idle, Reading
  <1>3. OwnEntries /\ HoldsRead /\ Timely /\ ReadsLater
    BY <1>2 DEF Init, OwnEntries, HoldsRead, Timely, ReadsLater
  <1>4. Dated
    BY DEF Init, Dated, Bottom, Objects
  <1>5. EventsFollowState /\ Promise!Init
    BY DEF Init, EventsFollowState, Registered, Promise!Init, Floor
  <1> QED
    BY <1>1, <1>3, <1>4, <1>5 DEF ManagerInv

-----------------------------------------------------------------------------
(* Steps that touch no entry keep what the entries show; they differ in the *)
(* readers they move.                                                       *)

Kept == UNCHANGED <<now, entries, created, entry, events>>

LEMMA KeptFacts ==
    ASSUME ManagerInv, Kept
    PROVE  /\ Dated' /\ EventsFollowState' /\ RegisterStep
           /\ \A o \in Objects : Bottom(o)' = Bottom(o)
  <1>1. Dated' /\ \A o \in Objects : Bottom(o)' = Bottom(o)
    BY DEF Kept, ManagerInv, Dated, Bottom
  <1>2. EventsFollowState'
    BY DEF Kept, ManagerInv, EventsFollowState, Registered
  <1>3. UNCHANGED <<now, [k \in Keys |-> Floor(k)]>>
    BY DEF Kept, Floor
  <1> QED
    BY <1>1, <1>2, <1>3 DEF RegisterStep

\* What reader t has to be to be in place r.
Fits(t, r) ==
    /\ r.entry <= created
    /\ r.at # "idle" => r.entry # 0
    /\ r.at \in {"read", "answer"} =>
          /\ mutex'[r.entry] = t
          /\ r.began <= now /\ now <= r.began + ReadTimeout
          /\ r.at = "answer" => r.began <= r.taken /\ r.taken <= now
          /\ Bottom(r.entry) <= r.began

LEMMA MoveKeepsInv ==
    ASSUME ManagerInv, Kept, UNCHANGED chain, left' \subseteq Keys,
           NEW t \in Readers, NEW r \in Reader, reader' = [reader EXCEPT ![t] = r], Fits(t, r),
           mutex' \in [Objects -> Readers \union {Free}],
           \A u \in Readers \ {t} : Reading(u) => mutex'[reader[u].entry] = u
    PROVE  ManagerInv' /\ RegisterStep
  <1>1. \A u \in Readers : reader'[u] = IF u = t THEN r ELSE reader[u]
    BY DEF ManagerInv, ShapeOK
  <1>2. ShapeOK'
    BY DEF Kept, ManagerInv, ShapeOK
  <1>3. OwnEntries'
    BY <1>1 DEF Kept, ManagerInv, OwnEntries, Idle, Fits
  <1>4. HoldsRead'
    BY <1>1 DEF HoldsRead, Reading, Fits
  <1>5. Timely'
    BY <1>1 DEF Kept, ManagerInv, Timely, Reading, Fits
  <1>6. ReadsLater'
    <2> SUFFICES ASSUME NEW u \in Readers, Reading(u)'
                 PROVE  (Bottom(reader[u].entry) <= reader[u].began)'
      BY DEF ReadsLater
    <2>1. reader'[u].at \in {"read", "answer"}
      BY DEF Reading
    <2>2. Bottom(reader'[u].entry) <= reader'[u].began
      BY <1>1, <2>1 DEF ManagerInv, ReadsLater, Reading, Fits
    <2> QED
      BY <2>2 DEF Kept, Bottom
  <1> QED
    BY <1>2, <1>3, <1>4, <1>5, <1>6, KeptFacts DEF ManagerInv

LEMMA LooksKeepsInv ==
    ASSUME ManagerInv, NEW t \in Readers, NEW k \in Registered, Idle(t), Looks(t, k),
           Kept, UNCHANGED <<chain, mutex>>, left' \subseteq Keys
    PROVE  ManagerInv' /\ RegisterStep
  <1> DEFINE r == [IdleReader EXCEPT !.at = "queue", !.key = k, !.entry = entries[k]]
  <1>1. k \in Keys /\ entries[k] \in 0 .. MaxEntries /\ entries[k] # 0
    BY DEF Registered, ManagerInv, ShapeOK
  <1>2. r \in Reader /\ r.at = "queue" /\ r.entry = entries[k]
    BY <1>1, IdleReaderFacts DEF Reader, Place
  <1>3. Fits(t, r)
    BY <1>1, <1>2 DEF Fits, ManagerInv, OwnEntries
  <1>4. reader' = [reader EXCEPT ![t] = r]
    BY DEF Looks
  <1> HIDE DEF r
  <1> QED
    BY <1>2, <1>3, <1>4, MoveKeepsInv DEF ManagerInv, ShapeOK, HoldsRead

LEMMA CallKeepsInv ==
    ASSUME ManagerInv, NEW t \in Readers, NEW k \in Keys, CallReconcile(t, k)
    PROVE  ManagerInv' /\ RegisterStep
  BY LooksKeepsInv DEF CallReconcile, Kept, world, map, ManagerInv, ShapeOK

LEMMA RefreshKeepsInv ==
    ASSUME ManagerInv, Kept, UNCHANGED <<chain, mutex, reader>>, left' \subseteq Keys
    PROVE  ManagerInv' /\ RegisterStep
  <1>1. ShapeOK' /\ OwnEntries' /\ HoldsRead' /\ Timely'
    BY DEF Kept, ManagerInv, ShapeOK, OwnEntries, HoldsRead, Timely, Idle, Reading
  <1>2. ReadsLater'
    BY DEF Kept, ManagerInv, ReadsLater, Reading, Bottom
  <1> QED
    BY <1>1, <1>2, KeptFacts DEF ManagerInv

LEMMA SpawnKeepsInv ==
    ASSUME ManagerInv, NEW t \in Readers, Spawn(t)
    PROVE  ManagerInv' /\ RegisterStep
  <1>1. PICK k \in left : left' = left \ {k} /\ IF k \in Registered THEN Looks(t, k) ELSE UNCHANGED reader
    BY DEF Spawn
  <1>2. Kept /\ UNCHANGED <<chain, mutex>> /\ left' \subseteq Keys /\ Idle(t)
    BY <1>1 DEF Spawn, Kept, world, map, ManagerInv, ShapeOK
  <1>3. CASE k \in Registered
    BY <1>1, <1>2, <1>3, LooksKeepsInv
  <1>4. CASE k \notin Registered
    BY <1>1, <1>2, <1>4, RefreshKeepsInv
  <1> QED
    BY <1>3, <1>4

LEMMA BeginReadKeepsInv ==
    ASSUME ManagerInv, NEW t \in Readers, BeginRead(t)
    PROVE  ManagerInv' /\ RegisterStep
  <1> DEFINE r == [reader[t] EXCEPT !.at = "read", !.began = now]
             o == reader[t].entry
  <1>1. reader[t] \in Reader /\ reader[t].at = "queue" /\ mutex[o] = Free /\ mutex' = [mutex EXCEPT ![o] = t]
    BY DEF BeginRead, ManagerInv, ShapeOK
  <1>2. o \in Objects
    BY <1>1, ManagerAssumption DEF ManagerInv, OwnEntries, Idle, Objects, Reader
  <1>3. r \in Reader /\ r.at = "read" /\ r.entry = o /\ r.began = now
    BY <1>1 DEF Reader, Place, ManagerInv, ShapeOK
  <1>4. Kept /\ UNCHANGED chain /\ left' \subseteq Keys
    BY DEF BeginRead, Kept, world, map, ManagerInv, ShapeOK
  <1>5. mutex' \in [Objects -> Readers \union {Free}] /\ mutex'[o] = t
    BY <1>1, <1>2 DEF ManagerInv, ShapeOK
  <1>6. \A u \in Readers \ {t} : Reading(u) => mutex'[reader[u].entry] = u
    BY <1>1, <1>2, ManagerAssumption DEF ManagerInv, ShapeOK, HoldsRead
  <1>7. Bottom(o) <= now
    BY <1>2 DEF ManagerInv, Dated
  <1>8. Fits(t, r)
    BY <1>1, <1>2, <1>3, <1>5, <1>7, ManagerAssumption DEF Fits, ManagerInv, OwnEntries, ShapeOK, Moment, Idle
  <1>9. reader' = [reader EXCEPT ![t] = r]
    BY DEF BeginRead, ManagerInv, ShapeOK
  <1> HIDE DEF r
  <1> QED
    BY <1>3, <1>4, <1>5, <1>6, <1>8, <1>9, MoveKeepsInv

LEMMA SampleKeepsInv ==
    ASSUME ManagerInv, NEW t \in Readers, Sample(t)
    PROVE  ManagerInv' /\ RegisterStep
  <1> DEFINE r == [reader[t] EXCEPT !.at = "answer", !.value = chain[reader[t].key], !.taken = now]
  <1>1. reader[t] \in Reader /\ reader[t].at = "read" /\ Reading(t)
    BY DEF Sample, ManagerInv, ShapeOK, Reading
  <1>2. /\ r \in Reader /\ r.at = "answer" /\ r.entry = reader[t].entry
        /\ r.began = reader[t].began /\ r.taken = now
    BY <1>1 DEF Reader, Place, ManagerInv, ShapeOK
  <1>3. Kept /\ UNCHANGED <<chain, mutex>> /\ left' \subseteq Keys
    BY DEF Sample, Kept, world, map, ManagerInv, ShapeOK
  <1>4. Fits(t, r)
    BY <1>1, <1>2, <1>3 DEF Fits, ManagerInv, OwnEntries, HoldsRead, Timely, ReadsLater, ShapeOK, Moment, Idle
  <1>5. reader' = [reader EXCEPT ![t] = r]
    BY DEF Sample, ManagerInv, ShapeOK
  <1> HIDE DEF r
  <1> QED
    BY <1>2, <1>3, <1>4, <1>5, MoveKeepsInv DEF ManagerInv, ShapeOK, HoldsRead

-----------------------------------------------------------------------------
(* Reads that end, with or without a result. *)

LEMMA EndFacts ==
    ASSUME ManagerInv, NEW T \in SUBSET Readers, End(T), UNCHANGED <<now, entries, created>>
    PROVE  /\ reader' \in [Readers -> Reader] /\ mutex' \in [Objects -> Readers \union {Free}]
           /\ OwnEntries' /\ HoldsRead' /\ Timely'
           /\ \A u \in Readers : Reading(u)' => u \notin T /\ Reading(u) /\ reader'[u] = reader[u]
  <1>1. \A u \in Readers : reader'[u] = IF u \in T THEN IdleReader ELSE reader[u]
    BY DEF End
  <1>2. \A o \in Objects : mutex'[o] = IF mutex[o] \in T THEN Free ELSE mutex[o]
    BY DEF End
  <1>3. reader' \in [Readers -> Reader] /\ mutex' \in [Objects -> Readers \union {Free}]
    BY IdleReaderFacts DEF End, ManagerInv, ShapeOK
  <1>4. \A u \in Readers : Reading(u)' => u \notin T /\ Reading(u) /\ reader'[u] = reader[u]
    BY <1>1, IdleReaderFacts DEF Reading
  <1>5. OwnEntries'
    BY <1>1, IdleReaderFacts DEF ManagerInv, OwnEntries, Idle, ShapeOK
  <1>6. HoldsRead'
    <2> SUFFICES ASSUME NEW u \in Readers, Reading(u)'
                 PROVE  mutex'[reader'[u].entry] = u
      BY DEF HoldsRead
    <2>1. reader[u].entry \in Objects
      BY <1>4 DEF ManagerInv, ShapeOK, OwnEntries, Reading, Idle, Reader, Objects
    <2> QED
      BY <1>2, <1>4, <2>1 DEF ManagerInv, HoldsRead
  <1>7. Timely'
    BY <1>4 DEF ManagerInv, Timely
  <1> QED
    BY <1>3, <1>4, <1>5, <1>6, <1>7

LEMMA EndKeepsInv ==
    ASSUME ManagerInv, NEW T \in SUBSET Readers, End(T), Kept, UNCHANGED chain, left' \subseteq Keys
    PROVE  ManagerInv' /\ RegisterStep
  <1>1. ShapeOK'
    BY EndFacts DEF Kept, ManagerInv, ShapeOK
  <1>2. ReadsLater'
    BY EndFacts DEF Kept, ManagerInv, ReadsLater, Bottom
  <1> QED
    BY <1>1, <1>2, EndFacts, KeptFacts DEF ManagerInv, Kept

LEMMA DropKeepsInv ==
    ASSUME ManagerInv, (\E t \in Callers : DropCall(t)) \/ DropSweep
    PROVE  ManagerInv' /\ RegisterStep
  <1>1. ASSUME NEW t \in Callers, DropCall(t)
        PROVE  ManagerInv' /\ RegisterStep
    BY <1>1, EndKeepsInv DEF DropCall, Kept, world, map, ManagerInv, ShapeOK, Readers
  <1>2. CASE DropSweep
    BY <1>2, EndKeepsInv DEF DropSweep, Kept, world, map, Readers
  <1> QED
    BY <1>1, <1>2

LEMMA StoreKeepsInv ==
    ASSUME ManagerInv, NEW t \in Readers, Reading(t), NEW value \in Values \union {Unknown},
           NEW taken \in Moment, reader[t].began <= taken, taken <= now, Store(t, value, taken)
    PROVE  ManagerInv' /\ RegisterStep
  <1> DEFINE new == [at |-> now, value |-> value, taken |-> taken]
  <1>0. PICK k \in Keys, o \in Objects : k = reader[t].key /\ o = reader[t].entry
    BY DEF ManagerInv, ShapeOK, OwnEntries, Reading, Idle, Reader, Objects
  <1>1. End({t}) /\ UNCHANGED <<now, chain, entries, created, left>>
    BY DEF Store, world, map
  <1>2. /\ k \in Keys /\ o \in Objects /\ mutex[o] = t
        /\ k = reader[t].key /\ o = reader[t].entry
    BY <1>0 DEF ManagerInv, HoldsRead
  <1>3. CASE entries[k] # o
    <2>1. Kept
      BY <1>1, <1>2, <1>3 DEF Store, Kept
    <2> QED
      BY <1>1, <2>1, EndKeepsInv DEF ManagerInv, ShapeOK
  <1>4. CASE entries[k] = o
    <2>1. new \in Stored /\ new # Nothing
      BY StoredAssumption DEF Stored, ManagerInv, ShapeOK
    <2>2. /\ entry' = [entry EXCEPT ![o].state = new]
          /\ events' = IF entry[o].state = Nothing \/ entry[o].state.value # value \/ value = Unknown
                       THEN [events EXCEPT ![k] = value] ELSE events
      BY <1>2, <1>4 DEF Store
    <2>3. entry' \in [Objects -> Entry] /\ entry'[o].state = new /\ \A p \in Objects \ {o} : entry'[p] = entry[p]
      BY <1>2, <2>1, <2>2 DEF ManagerInv, ShapeOK, Entry
    <2>4. ShapeOK'
      BY <1>1, <1>2, <2>2, <2>3, EndFacts DEF ManagerInv, ShapeOK
    <2>5. Bottom(o)' = taken /\ \A p \in Objects \ {o} : Bottom(p)' = Bottom(p)
      BY <2>1, <2>3 DEF Bottom
    <2>6. Dated'
      <3>1. now <= taken + ReadTimeout
        BY ManagerAssumption DEF ManagerInv, Timely, ShapeOK, Moment, Reader
      <3> HIDE DEF new
      <3>2. new.at = now /\ new.taken = taken
        BY DEF new
      <3> QED
        BY <1>1, <3>2, <2>3, <2>5, <3>1 DEF ManagerInv, Dated, ShapeOK, Moment
    <2>7. ReadsLater'
      <3> SUFFICES ASSUME NEW u \in Readers, Reading(u)'
                   PROVE  (Bottom(reader[u].entry) <= reader[u].began)'
        BY DEF ReadsLater
      <3>1. u # t /\ Reading(u) /\ reader'[u] = reader[u]
        BY <1>1, EndFacts
      <3>2. reader[u].entry \in Objects \ {o}
        BY <1>2, <3>1 DEF ManagerInv, ShapeOK, OwnEntries, HoldsRead, Reading, Idle, Reader, Objects
      <3>3. Bottom(reader[u].entry) <= reader[u].began
        BY <3>1 DEF ManagerInv, ReadsLater
      <3>4. entry'[reader[u].entry] = entry[reader[u].entry]
        BY <2>3, <3>2
      <3> QED
        BY <3>1, <3>3, <3>4 DEF Bottom
    <2>8. EventsFollowState'
      <3> SUFFICES ASSUME NEW j \in Keys, entries[j] # 0, entry'[entries[j]].state # Nothing
                   PROVE  events'[j] = entry'[entries[j]].state.value
        BY <1>1 DEF EventsFollowState, Registered
      <3>1. CASE j = k
        <4>1. entry'[entries[j]].state.value = value
          BY <1>4, <2>3, <3>1
        <4>2. events'[k] = value
          <5>1. CASE entry[o].state = Nothing \/ entry[o].state.value # value \/ value = Unknown
            BY <1>2, <2>2, <5>1 DEF ManagerInv, ShapeOK
          <5>2. CASE entry[o].state # Nothing /\ entry[o].state.value = value /\ value # Unknown
            BY <1>2, <1>4, <2>2, <3>1, <5>2 DEF ManagerInv, EventsFollowState, Registered
          <5> QED
            BY <5>1, <5>2
        <4> QED
          BY <3>1, <4>1, <4>2
      <3>2. CASE j # k
        <4>1. entries[j] \in Objects \ {o}
          BY <1>2, <1>4, <3>2 DEF ManagerInv, ShapeOK, OwnEntries, Objects
        <4>2. events'[j] = events[j]
          BY <1>2, <2>2, <3>2 DEF ManagerInv, ShapeOK
        <4> QED
          BY <2>3, <4>1, <4>2 DEF ManagerInv, EventsFollowState, Registered
      <3> QED
        BY <3>1, <3>2
    <2>9. RegisterStep
      <3> DEFINE floor == [j \in Keys |-> Floor(j)]
      <3>1. Floor(k) = Bottom(o) /\ Floor(k) # Unregistered
        BY <1>2, <1>4, FloorIsBottom, ManagerAssumption DEF ManagerInv, ShapeOK, Entry, Moment, Objects, Bottom, Stored
      <3>2. Floor(k)' = taken
        BY <1>1, <1>2, <1>4, <2>1, <2>3 DEF Floor, Objects
      <3>3. \A j \in Keys \ {k} : Floor(j)' = Floor(j)
        <4> SUFFICES ASSUME NEW j \in Keys \ {k} PROVE Floor(j)' = Floor(j)
          OBVIOUS
        <4>1. entries[j] # 0 => entries[j] \in Objects \ {o}
          BY <1>2, <1>4 DEF ManagerInv, ShapeOK, OwnEntries, Objects
        <4> QED
          BY <1>1, <2>3, <4>1 DEF Floor
      <3>4. Bottom(o) <= reader[t].began /\ Bottom(o) \in Moment
        BY <1>2 DEF ManagerInv, ReadsLater, ShapeOK, Entry, Stored, Bottom
      <3>5. taken \in Floor(k) .. now
        BY <3>1, <3>4 DEF ManagerInv, ShapeOK, Moment, Reader
      <3>6. floor' = [floor EXCEPT ![k] = taken]
        BY <1>2, <3>2, <3>3
      <3>7. Promise!Observe(k)
        BY <1>1, <1>2, <3>1, <3>5, <3>6 DEF Promise!Observe
      <3> QED
        BY <1>2, <3>7 DEF RegisterStep, Promise!Next
    <2> QED
      BY <1>1, <2>4, <2>6, <2>7, <2>8, <2>9, EndFacts DEF ManagerInv
  <1> QED
    BY <1>3, <1>4

LEMMA ReadKeepsInv ==
    ASSUME ManagerInv, NEW t \in Readers, Read(t)
    PROVE  ManagerInv' /\ RegisterStep
  <1>1. reader[t] \in Reader /\ now \in Moment
    BY DEF ManagerInv, ShapeOK
  <1>2. CASE Answer(t)
    <2>1. /\ Reading(t) /\ reader[t].value \in Values \union {Unknown} /\ reader[t].taken \in Moment
          /\ reader[t].began <= reader[t].taken /\ reader[t].taken <= now
      BY <1>1, <1>2 DEF Answer, Reading, ManagerInv, Timely, Reader
    <2>2. Store(t, reader[t].value, reader[t].taken)
      BY <1>2 DEF Answer
    <2> QED
      BY <2>1, <2>2, StoreKeepsInv
  <1>3. CASE Fail(t)
    <2>1. Reading(t) /\ Store(t, Unknown, now)
      BY <1>3 DEF Fail
    <2>2. reader[t].began <= now
      BY <2>1 DEF ManagerInv, Timely
    <2> QED
      BY <1>1, <2>1, <2>2, StoreKeepsInv DEF Moment
  <1> QED
    BY <1>2, <1>3, BeginReadKeepsInv, SampleKeepsInv DEF Read

-----------------------------------------------------------------------------
(* Registrations and time *)

LEMMA RegisterKeepsInv ==
    ASSUME ManagerInv, NEW k \in Keys, Register(k)
    PROVE  ManagerInv' /\ RegisterStep
  <1>1. PICK o : o = created + 1
    OBVIOUS
  <1>2. /\ o \in Objects /\ created' = o /\ entries[k] = 0 /\ entries' = [entries EXCEPT ![k] = o]
        /\ entry' = [entry EXCEPT ![o] = [since |-> now, state |-> Nothing]]
        /\ UNCHANGED <<now, chain, mutex, reader, events, left>>
    BY <1>1, ManagerAssumption DEF Register, Registered, world, Objects, ManagerInv, ShapeOK
  <1>3. /\ \A j \in Keys \ {k} : entries'[j] = entries[j] /\ entries[j] # o
        /\ entries'[k] = o
        /\ \A u \in Readers : reader[u].entry # o
    BY <1>1, <1>2, ManagerAssumption DEF ManagerInv, OwnEntries, ShapeOK
  <1>4. entry'[o] = [since |-> now, state |-> Nothing] /\ \A p \in Objects \ {o} : entry'[p] = entry[p]
    BY <1>2 DEF ManagerInv, ShapeOK
  <1>5. ShapeOK'
    BY <1>2 DEF ManagerInv, ShapeOK, Entry, Objects
  <1>6. OwnEntries'
    BY <1>1, <1>2, <1>3, ManagerAssumption DEF ManagerInv, OwnEntries, ShapeOK, Idle, Reader, Objects
  <1>7. HoldsRead' /\ Timely'
    BY <1>2 DEF ManagerInv, HoldsRead, Timely, Reading
  <1>8. Bottom(o)' = now /\ \A p \in Objects \ {o} : Bottom(p)' = Bottom(p)
    BY <1>4 DEF Bottom
  <1>9. Dated'
    BY <1>2, <1>4, <1>8 DEF ManagerInv, Dated, ShapeOK, Moment
  <1>10. ReadsLater'
    <2> SUFFICES ASSUME NEW u \in Readers, Reading(u)
                 PROVE  (Bottom(reader[u].entry) <= reader[u].began)'
      BY <1>2 DEF ReadsLater, Reading
    <2>1. reader[u].entry \in Objects \ {o}
      BY <1>3 DEF ManagerInv, ShapeOK, OwnEntries, Reading, Idle, Reader, Objects
    <2>2. entry'[reader[u].entry] = entry[reader[u].entry]
      BY <1>4, <2>1
    <2> QED
      BY <1>2, <2>2 DEF ManagerInv, ReadsLater, Bottom
  <1>11. EventsFollowState'
    <2> SUFFICES ASSUME NEW j \in Keys, entries'[j] # 0, entry'[entries'[j]].state # Nothing
                 PROVE  events'[j] = entry'[entries'[j]].state.value
      BY DEF EventsFollowState, Registered
    <2>1. j # k /\ entries'[j] = entries[j] /\ entries[j] \in Objects \ {o}
      BY <1>2, <1>3, <1>4 DEF ManagerInv, ShapeOK, Objects
    <2> QED
      BY <1>2, <1>4, <2>1 DEF ManagerInv, EventsFollowState, Registered
  <1>12. RegisterStep
    <2> DEFINE floor == [j \in Keys |-> Floor(j)]
    <2>1. Floor(k) = Unregistered /\ Floor(k)' = now
      BY <1>2, <1>3, <1>4 DEF Floor, Objects
    <2>2. \A j \in Keys \ {k} : Floor(j)' = Floor(j)
      BY <1>3, <1>4 DEF Floor, ManagerInv, ShapeOK, Objects
    <2>3. floor' = [floor EXCEPT ![k] = now]
      BY <2>1, <2>2
    <2>4. Promise!Register(k)
      BY <1>2, <2>1, <2>3 DEF Promise!Register
    <2> QED
      BY <2>4 DEF RegisterStep, Promise!Next
  <1> QED
    BY <1>5, <1>6, <1>7, <1>9, <1>10, <1>11, <1>12 DEF ManagerInv

LEMMA UnregisterKeepsInv ==
    ASSUME ManagerInv, NEW k \in Keys, Unregister(k)
    PROVE  ManagerInv' /\ RegisterStep
  <1>1. /\ entries[k] # 0 /\ entries' = [entries EXCEPT ![k] = 0]
        /\ UNCHANGED <<now, chain, created, entry, mutex, reader, events, left>>
    BY DEF Unregister, Registered, world
  <1>2. \A j \in Keys : entries'[j] = IF j = k THEN 0 ELSE entries[j]
    BY <1>1 DEF ManagerInv, ShapeOK
  <1>3. ShapeOK'
    BY <1>1, ManagerAssumption DEF ManagerInv, ShapeOK
  <1>4. OwnEntries' /\ HoldsRead' /\ Timely'
    BY <1>1, <1>2 DEF ManagerInv, ShapeOK, OwnEntries, HoldsRead, Timely, Idle, Reading
  <1>5. Dated' /\ ReadsLater'
    BY <1>1 DEF ManagerInv, Dated, ReadsLater, Reading, Bottom
  <1>6. EventsFollowState'
    BY <1>1, <1>2 DEF ManagerInv, EventsFollowState, Registered
  <1>7. RegisterStep
    <2> DEFINE floor == [j \in Keys |-> Floor(j)]
    <2>1. entries[k] \in Objects
      BY <1>1 DEF ManagerInv, ShapeOK, Objects
    <2>2. Floor(k) # Unregistered /\ Floor(k)' = Unregistered
      BY <1>1, <1>2, <2>1, ManagerAssumption DEF Floor, ManagerInv, ShapeOK, Entry, Stored, Moment
    <2>3. \A j \in Keys \ {k} : Floor(j)' = Floor(j)
      BY <1>1, <1>2 DEF Floor
    <2>4. floor' = [floor EXCEPT ![k] = Unregistered]
      <3>1. \A j \in Keys : floor[j]' = IF j = k THEN Unregistered ELSE floor[j]
        BY <2>2, <2>3
      <3>2. floor' = [j \in Keys |-> IF j = k THEN Unregistered ELSE floor[j]]
        BY <3>1
      <3> HIDE DEF floor
      <3>3. floor \in [Keys -> {floor[j] : j \in Keys}]
        BY DEF floor
      <3> QED
        BY <3>2, <3>3
    <2>5. Promise!Unregister(k)
      BY <1>1, <2>2, <2>4 DEF Promise!Unregister
    <2> QED
      BY <2>5 DEF RegisterStep, Promise!Next
  <1> QED
    BY <1>3, <1>4, <1>5, <1>6, <1>7 DEF ManagerInv

LEMMA TickKeepsInv ==
    ASSUME ManagerInv, Tick
    PROVE  ManagerInv' /\ RegisterStep
  <1>1. /\ now' = now + 1 /\ now < MaxTime /\ chain' \in Chains
        /\ UNCHANGED <<entries, created, entry, mutex, reader, events, left>>
        /\ \A t \in Readers : Reading(t) => now < reader[t].began + ReadTimeout
    BY DEF Tick, map
  <1>2. ShapeOK'
    BY <1>1, ManagerAssumption DEF ManagerInv, ShapeOK, Moment
  <1>3. OwnEntries' /\ HoldsRead' /\ EventsFollowState'
    BY <1>1 DEF ManagerInv, OwnEntries, HoldsRead, EventsFollowState, Idle, Reading, Registered
  <1>4. Timely'
    <2> SUFFICES ASSUME NEW t \in Readers, Reading(t)
                 PROVE  /\ reader[t].began <= now + 1 /\ now + 1 <= reader[t].began + ReadTimeout
                        /\ reader[t].at = "answer" => reader[t].began <= reader[t].taken /\ reader[t].taken <= now + 1
      BY <1>1 DEF Timely, Reading
    <2>1. reader[t] \in Reader /\ now \in Moment /\ now < reader[t].began + ReadTimeout
      BY <1>1 DEF ManagerInv, ShapeOK
    <2> QED
      BY <2>1, ManagerAssumption DEF ManagerInv, Timely, Reader, Moment
  <1>5. Dated'
    <2> SUFFICES ASSUME NEW o \in Objects
                 PROVE  /\ Bottom(o) <= now + 1
                        /\ entry[o].state # Nothing =>
                              /\ entry[o].state.at <= now + 1
                              /\ entry[o].state.at <= entry[o].state.taken + ReadTimeout
      BY <1>1 DEF Dated, Bottom
    <2>1. entry[o] \in Entry /\ now \in Moment
      BY DEF ManagerInv, ShapeOK
    <2>2. Bottom(o) \in Moment /\ (entry[o].state # Nothing => entry[o].state.at \in Moment)
      BY <2>1 DEF Entry, Stored, Bottom
    <2> QED
      BY <2>1, <2>2 DEF ManagerInv, Dated, Moment
  <1>6. ReadsLater'
    BY <1>1 DEF ManagerInv, ReadsLater, Reading, Bottom
  <1>7. UNCHANGED [k \in Keys |-> Floor(k)]
    BY <1>1 DEF Floor
  <1>8. RegisterStep
    BY <1>1, <1>7 DEF RegisterStep, Promise!Next, Promise!Pass
  <1> QED
    BY <1>2, <1>3, <1>4, <1>5, <1>6, <1>8 DEF ManagerInv

LEMMA NextKeepsInv ==
    ASSUME ManagerInv, [Next]_vars
    PROVE  ManagerInv' /\ RegisterStep
  <1>1. CASE UNCHANGED vars
    BY <1>1, RefreshKeepsInv DEF vars, Kept, world, map, ManagerInv, ShapeOK
  <1>2. CASE Sweep
    <2>1. CASE Refresh
      BY <2>1, RefreshKeepsInv DEF Refresh, Kept, world, map, Registered
    <2> QED
      BY <1>2, <2>1, SpawnKeepsInv, DropKeepsInv DEF Sweep, Readers
  <1>3. ASSUME NEW t \in Callers, NEW k \in Keys, CallReconcile(t, k)
        PROVE  ManagerInv' /\ RegisterStep
    BY <1>3, CallKeepsInv DEF Readers
  <1> QED
    BY <1>1, <1>2, <1>3, RegisterKeepsInv, UnregisterKeepsInv, DropKeepsInv, ReadKeepsInv, TickKeepsInv DEF Next

-----------------------------------------------------------------------------
(* The manager's promises, for every number of contracts, readers and       *)
(* registrations.                                                          *)

\* The strengthened invariant.
THEOREM ManagerInvariant == Spec => []ManagerInv
  <1>1. Init => ManagerInv
    BY InitManagerInv
  <1>2. ManagerInv /\ [Next]_vars => ManagerInv'
    BY NextKeepsInv
  <1> QED
    BY <1>1, <1>2, PTL DEF Spec

\* Observations of a registration never go back in time nor to before it was made,
\* however reads queue, fail, are dropped or outlive it (reconcile).
THEOREM RefinesRegister == Spec => ImplementsRegister
  <1>1. Init => Promise!Init
    BY InitManagerInv
  <1>2. ManagerInv /\ [Next]_vars => [Promise!Next]_<<now, [k \in Keys |-> Floor(k)]>>
    BY NextKeepsInv DEF RegisterStep
  <1> QED
    BY <1>1, <1>2, ManagerInvariant, PTL DEF Spec, ImplementsRegister, Promise!Spec

\* Whoever follows the events of a registered contract knows what is stored for it.
THEOREM EventsTellState == Spec => []EventsFollowState
  <1>1. ManagerInv => EventsFollowState
    BY DEF ManagerInv
  <1> QED
    BY <1>1, ManagerInvariant, PTL

\* get shows nothing older than the maximum age and one read's timeout together.
THEOREM ShownStaysRecent == Spec => []ShownIsRecent
  <1>1. ManagerInv => ShownIsRecent
    <2> SUFFICES ASSUME ManagerInv, NEW k \in Registered, Get(k) # Unknown
                 PROVE  now - entry[entries[k]].state.taken <= MaximumAge + ReadTimeout
      BY DEF ShownIsRecent
    <2>1. PICK o \in Objects : o = entries[k]
      BY DEF Registered, ManagerInv, ShapeOK, Objects
    <2>2. entry[o].state # Nothing /\ now - entry[o].state.at <= MaximumAge
      BY <2>1 DEF Get
    <2>3. entry[o].state \in Stored /\ now \in Moment
      BY <2>2 DEF ManagerInv, ShapeOK, Entry
    <2>4. entry[o].state.at <= entry[o].state.taken + ReadTimeout
      BY <2>2 DEF ManagerInv, Dated
    <2> QED
      BY <2>1, <2>2, <2>3, <2>4, ManagerAssumption DEF Stored, Moment
  <1> QED
    BY <1>1, ManagerInvariant, PTL

-----------------------------------------------------------------------------
(* The capacity *)

Capacity == Cardinality(Registered) <= MaxContracts

LEMMA RegisteredFinite == IsFiniteSet(Registered) /\ Cardinality(Registered) \in Nat
  BY ManagerAssumption, FS_Subset, FS_CardinalityType DEF Registered

LEMMA NextKeepsCapacity ==
    ASSUME ManagerInv, Capacity, [Next]_vars
    PROVE  Capacity'
  <1>1. CASE UNCHANGED entries
    BY <1>1 DEF Capacity, Registered
  <1>2. ASSUME NEW k \in Keys, Register(k)
        PROVE  Capacity'
    <2>1. Registered' = Registered \union {k} /\ k \notin Registered
      BY <1>2, ManagerAssumption DEF Register, Registered, ManagerInv, ShapeOK
    <2>2. Cardinality(Registered') = Cardinality(Registered) + 1
      BY <2>1, RegisteredFinite, FS_AddElement
    <2>3. Cardinality(Registered) < MaxContracts
      BY <1>2 DEF Register
    <2> QED
      BY <2>2, <2>3, RegisteredFinite, ManagerAssumption DEF Capacity
  <1>3. ASSUME NEW k \in Keys, Unregister(k)
        PROVE  Capacity'
    <2>1. Registered' \subseteq Registered
      BY <1>3 DEF Unregister, Registered, ManagerInv, ShapeOK
    <2>2. Cardinality(Registered') <= Cardinality(Registered) /\ Cardinality(Registered') \in Nat
      BY <2>1, RegisteredFinite, FS_Subset, FS_CardinalityType
    <2> QED
      BY <2>2, RegisteredFinite, ManagerAssumption DEF Capacity
  <1>4. ASSUME NEW t \in Readers, Read(t)
        PROVE  UNCHANGED entries
    BY <1>4 DEF Read, BeginRead, Sample, Answer, Fail, Store, map
  <1>5. CASE Sweep
    BY <1>1, <1>5 DEF Sweep, Refresh, Spawn, DropSweep, map
  <1>6. ASSUME NEW t \in Callers, DropCall(t) \/ \E k \in Keys : CallReconcile(t, k)
        PROVE  UNCHANGED entries
    BY <1>6 DEF DropCall, CallReconcile, map
  <1>7. CASE Tick
    BY <1>1, <1>7 DEF Tick, map
  <1>8. CASE UNCHANGED vars
    BY <1>1, <1>8 DEF vars, map
  <1> QED
    BY <1>1, <1>2, <1>3, <1>4, <1>5, <1>6, <1>7, <1>8 DEF Next

\* The manager's state keeps its shape and never holds more contracts than it may.
THEOREM ManagerTypeCorrect == Spec => []TypeOK
  <1>1. Init => Capacity
    <2> SUFFICES ASSUME Init PROVE Capacity
      OBVIOUS
    <2>1. Registered = {}
      BY DEF Init, Registered
    <2>2. Cardinality(Registered) = 0
      BY <2>1, FS_EmptySet
    <2> QED
      BY <2>2, ManagerAssumption DEF Capacity
  <1>2. ManagerInv /\ Capacity /\ [Next]_vars => Capacity'
    BY NextKeepsCapacity
  <1>3. ManagerInv /\ Capacity => TypeOK
    BY DEF ManagerInv, ShapeOK, Capacity, TypeOK
  <1> QED
    BY <1>1, <1>2, <1>3, ManagerInvariant, PTL DEF Spec
==============================================================================
