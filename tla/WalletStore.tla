----------------------------- MODULE WalletStore -----------------------------
(***************************************************************************)
(* Swap creation, recovery and the wallet's two stores in the TypeScript    *)
(* client: the key index swaps take their keys from, and the stored swaps   *)
(* (ts-pure-sdk/src/client.ts, create/, storage/).                          *)
(*                                                                         *)
(* Calls overlap: every await of a store is a step of its own.  A swap is   *)
(* named by its place in `server`; the key index fixes its keys and, unless *)
(* its hash is an invoice's, its hash.                                      *)
(***************************************************************************)
EXTENDS CreateSwap, Integers, Sequences, FiniteSetsExt

CONSTANTS
    Stores,         \* storage backends: "memory", "idb", "sqlite"
    Callers,        \* client calls that may overlap
    Requests,       \* swaps asked for
    Prior,          \* key indices of swaps another device of this wallet may have created
    MaxSwaps,       \* swaps the server may hold (bounds the model)
    MaxIndex,       \* largest key index (bounds the model)
    MaxRetries,     \* MAX_RETRIES
    SkipCount,      \* SKIP_COUNT
    Window,         \* key indices the server scans per recovery call
    StoreFaults     \* of "crash", "rpc", "terms"

ASSUME StoreAssumption ==
    /\ Stores \subseteq {"memory", "idb", "sqlite"}
    /\ Requests \subseteq SwapRequest
    /\ IsFiniteSet(Callers) /\ Prior \subseteq 0..(MaxIndex - 1)
    /\ {MaxSwaps, MaxIndex, MaxRetries, SkipCount, Window} \subseteq Nat \ {0}
    /\ StoreFaults \subseteq {"crash", "rpc", "terms"}

VARIABLES
    backend,    \* the storage the client was built with
    keyIndex,   \* the stored key index
    server,     \* the wallet's swaps at the server: index, ownHash, prior
    local,      \* the stored swap of each, or Absent
    caller,     \* what each call is doing
    raced,      \* a write has overwritten something newer than what it was based on
    kept        \* what has been stored of each swap that only the client may drop

storeVars == <<backend, keyIndex, server, local, caller, raced, kept>>

SwapIds == 1..MaxSwaps
Items == {"funding", "terms", "payment", "recipient"}
Absent == [index |-> -1, holds |-> {}]
NoTask == [at |-> "idle", id |-> 0, index |-> 0, seen |-> 0, read |-> Absent, tries |-> 0,
            swap |-> Refused, todo |-> {}, until |-> -1, next |-> 0, complete |-> FALSE]

Does(c, step) == caller[c].at = step
Becomes(c, next) == caller' = [caller EXCEPT ![c] = next]
Returns(c) == Becomes(c, NoTask)
Glitch == "rpc" \in StoreFaults
Recovering(c) == caller[c].todo # {}

-----------------------------------------------------------------------------
(* The stores.                                                             *)

\* What get returns of what store was given: the columns there are.
Columns(swap) ==
    IF backend = "sqlite" THEN [swap EXCEPT !.holds = @ \ {"recipient"}] ELSE swap

\* A read-modify-write of a stored swap, and whether it undoes another's write.
Put(id, swap, read) ==
    /\ local' = [local EXCEPT ![id] = Columns(swap)]
    /\ raced' = (raced \/ local[id].holds # read.holds)

SetKeyIndex(index, seen) ==
    /\ keyIndex' = index
    /\ raced' = (raced \/ keyIndex # seen)

\* incrementKeyIndex: one transaction, or in SQLite a read and a write.
IncrementKeyIndex(c) ==
    /\ Does(c, "derive")
    /\ keyIndex < MaxIndex
    /\ IF backend = "sqlite"
       THEN /\ Becomes(c, [caller[c] EXCEPT !.at = "increment", !.seen = keyIndex])
            /\ UNCHANGED keyIndex
       ELSE /\ Becomes(c, [caller[c] EXCEPT !.at = "post", !.index = keyIndex])
            /\ keyIndex' = keyIndex + 1
    /\ UNCHANGED <<backend, server, local, raced, kept>>

WriteIncrement(c) ==
    /\ Does(c, "increment")
    /\ SetKeyIndex(caller[c].seen + 1, caller[c].seen)
    /\ Becomes(c, [caller[c] EXCEPT !.at = "post", !.index = caller[c].seen, !.seen = 0])
    /\ UNCHANGED <<backend, server, local, kept>>

-----------------------------------------------------------------------------
(* Creating a swap.                                                        *)

CreateSwap(c) ==
    /\ Does(c, "idle")
    /\ \E r \in Requests :
        /\ CreateSwapFor(r) # Refused
        /\ Becomes(c, [NoTask EXCEPT !.at = "derive", !.swap = CreateSwapFor(r)])
    /\ UNCHANGED <<backend, keyIndex, server, local, raced, kept>>

HashTaken(index) == \E i \in DOMAIN server : server[i].ownHash /\ server[i].index = index

OwnHashTaken(c) == caller[c].swap.hash = "own" /\ HashTaken(caller[c].index)

\* retryOnHashCollision; the last collision skips too, and then throws.
CollisionRetried(c) ==
    /\ Does(c, "post")
    /\ OwnHashTaken(c)
    /\ Becomes(c, [caller[c] EXCEPT !.at = "skip", !.tries = @ + 1, !.index = 0])
    /\ UNCHANGED <<backend, keyIndex, server, local, raced, kept>>

\* skipKeyIndices reads the index, then sets it.
SkipReads(c) ==
    /\ Does(c, "skip")
    /\ Becomes(c, [caller[c] EXCEPT !.at = "skipSet", !.seen = keyIndex])
    /\ UNCHANGED <<backend, keyIndex, server, local, raced, kept>>

SkipSets(c) ==
    /\ Does(c, "skipSet")
    /\ caller[c].seen + SkipCount <= MaxIndex
    /\ SetKeyIndex(caller[c].seen + SkipCount, caller[c].seen)
    /\ IF caller[c].tries < MaxRetries
       THEN Becomes(c, [caller[c] EXCEPT !.at = "derive", !.seen = 0])
       ELSE Returns(c)
    /\ UNCHANGED <<backend, server, local, kept>>

\* The server creates the swap.  Its answer may be lost, may lock the swap under another
\* hash than the invoice's, which checkedPaymentHash refuses, and may leave out what
\* fundingTermsOf reads ("terms").
Post(c) ==
    /\ Does(c, "post")
    /\ ~OwnHashTaken(c)
    /\ Len(server) < MaxSwaps
    /\ server' = Append(server, [index |-> caller[c].index, prior |-> FALSE,
                                 ownHash |-> caller[c].swap.hash = "own"])
    /\ \/ \E without \in SUBSET (StoreFaults \cap {"terms"}) :
            Becomes(c, [caller[c] EXCEPT !.at = "get", !.id = Len(server) + 1,
                                         !.swap.gives = @ \ without])
       \/ (Glitch \/ "payment" \in caller[c].swap.gives) /\ Returns(c)
    /\ UNCHANGED <<backend, keyIndex, local, raced, kept>>

\* storeSwap reads what is stored, and keeps of it what the funding recorded.
GetExisting(c) ==
    /\ Does(c, "get")
    /\ Becomes(c, [caller[c] EXCEPT !.at = "store", !.read = local[caller[c].id]])
    /\ UNCHANGED <<backend, keyIndex, server, local, raced, kept>>

\* Mistake: the response alone is stored.
StoredResponse(c) ==
    [index |-> caller[c].index, holds |-> IF Recovering(c) THEN {} ELSE caller[c].swap.gives]

StoredSwap(c) ==
    [index |-> caller[c].index,
     holds |-> (caller[c].read.holds \ {"recipient"})
                   \cup (IF Recovering(c) THEN {} ELSE caller[c].swap.gives)]

Keeps(id, items) == kept' = [kept EXCEPT ![id] = @ \cup items]

StoreSwap(c) ==
    /\ Does(c, "store")
    /\ Put(caller[c].id, StoredSwap(c), caller[c].read)
    /\ IF Recovering(c)
       THEN /\ Becomes(c, [caller[c] EXCEPT !.at = "next", !.read = Absent])
            /\ UNCHANGED kept
       ELSE /\ Returns(c)
            /\ Keeps(caller[c].id, caller[c].swap.gives)
    /\ UNCHANGED <<backend, keyIndex, server>>

-----------------------------------------------------------------------------
(* Recovery.                                                               *)

Highest == Max({server[i].index : i \in DOMAIN server} \cup {-1})

\* Mistake: a window begins after its first index.
ScanAfter(c, start) ==
    LET until == start + Window - 1
        found == {i \in DOMAIN server : server[i].index \in (start + 1)..until}
    IN Becomes(c, [NoTask EXCEPT !.at = "next", !.todo = {0} \cup found, !.until = until,
                                  !.next = Highest + 1, !.complete = until >= Highest])

\* recoverSwaps({startIndex}): what the server found in its window.  An empty answer
\* leaves only the key index to set.
Scan(c, start) ==
    LET until == start + Window - 1
        found == {i \in DOMAIN server : server[i].index \in start..until}
    IN Becomes(c, [NoTask EXCEPT !.at = "next", !.todo = {0} \cup found, !.until = until,
                                  !.next = Highest + 1, !.complete = until >= Highest])

RecoverSwaps(c) ==
    /\ Does(c, "idle")
    /\ Scan(c, 0)
    /\ UNCHANGED <<backend, keyIndex, server, local, raced, kept>>

\* The next recovered swap, in the order of the answer, is stored under the keys of its
\* own index.
NextRecovered(c) ==
    /\ Does(c, "next")
    /\ \E id \in caller[c].todo \ {0} :
        /\ \A other \in caller[c].todo \ {0} : id <= other
        /\ Becomes(c, [caller[c] EXCEPT !.at = "get", !.id = id, !.index = server[id].index,
                                        !.todo = @ \ {id}])
    /\ UNCHANGED <<backend, keyIndex, server, local, raced, kept>>

\* "but never regress an existing local index": read, compared, set.
ReadKeyIndex(c) ==
    /\ Does(c, "next")
    /\ caller[c].todo = {0}
    /\ Becomes(c, [caller[c] EXCEPT !.at = "raise", !.seen = keyIndex, !.id = 0, !.index = 0])
    /\ UNCHANGED <<backend, keyIndex, server, local, raced, kept>>

\* Mistake: the server's next index is set whatever the local one is.
RegressKeyIndex(c) ==
    /\ Does(c, "raise")
    /\ SetKeyIndex(caller[c].next, caller[c].seen)
    /\ Becomes(c, [caller[c] EXCEPT !.at = "scanned", !.seen = 0, !.next = 0])
    /\ UNCHANGED <<backend, server, local, kept>>

RaiseKeyIndex(c) ==
    /\ Does(c, "raise")
    /\ IF caller[c].next > caller[c].seen
       THEN SetKeyIndex(caller[c].next, caller[c].seen)
       ELSE UNCHANGED <<keyIndex, raced>>
    /\ Becomes(c, [caller[c] EXCEPT !.at = "scanned", !.seen = 0, !.next = 0])
    /\ UNCHANGED <<backend, server, local, kept>>

\* recoverAllSwaps goes on after the last index scanned until the server says complete;
\* recoverSwaps by itself returns.
Continue(c) ==
    /\ Does(c, "scanned")
    /\ IF caller[c].complete THEN Returns(c) ELSE Returns(c) \/ Scan(c, caller[c].until + 1)
    /\ UNCHANGED <<backend, keyIndex, server, local, raced, kept>>

-----------------------------------------------------------------------------
(* What funding records, and what the application drops.                   *)

\* recordEvmFunding and recordCctpBurn read the stored swap and store it with the txid.
ReadToRecord(c, id) ==
    /\ Does(c, "idle")
    /\ local[id] # Absent
    /\ Becomes(c, [NoTask EXCEPT !.at = "record", !.id = id, !.read = local[id]])
    /\ UNCHANGED <<backend, keyIndex, server, local, raced, kept>>

RecordFunding(c) ==
    /\ Does(c, "record")
    /\ Put(caller[c].id, [caller[c].read EXCEPT !.holds = @ \cup {"funding"}], caller[c].read)
    /\ Keeps(caller[c].id, {"funding"})
    /\ Returns(c)
    /\ UNCHANGED <<backend, keyIndex, server>>

\* deleteSwap, between calls on the swap.
DeleteSwap(id) ==
    /\ local[id] # Absent
    /\ \A c \in Callers : caller[c].id # id /\ ~Recovering(c)
    /\ local' = [local EXCEPT ![id] = Absent]
    /\ kept' = [kept EXCEPT ![id] = {}]
    /\ UNCHANGED <<backend, keyIndex, server, caller, raced>>

\* An answer never arrives: the call throws.
CallThrows(c) ==
    /\ Glitch
    /\ caller[c].at \in {"post", "next"}
    /\ Returns(c)
    /\ UNCHANGED <<backend, keyIndex, server, local, raced, kept>>

\* The process ends; what is in memory goes with it.
Restart ==
    /\ "crash" \in StoreFaults
    /\ caller' = [c \in Callers |-> NoTask]
    /\ IF backend = "memory"
       THEN /\ keyIndex' = 0
            /\ local' = [id \in SwapIds |-> Absent]
            /\ raced' = TRUE
            /\ kept' = [id \in SwapIds |-> {}]
       ELSE UNCHANGED <<keyIndex, local, raced, kept>>
    /\ UNCHANGED <<backend, server>>

-----------------------------------------------------------------------------
StoreInit ==
    /\ backend \in Stores
    /\ keyIndex = 0
    /\ \E n \in 0..MaxSwaps : \E indices \in [1..n -> Prior] :
          /\ \A i, j \in 1..n : i < j => indices[i] < indices[j]
          /\ server = [i \in 1..n |-> [index |-> indices[i], prior |-> TRUE, ownHash |-> TRUE]]
    /\ local = [id \in SwapIds |-> Absent]
    /\ caller = [c \in Callers |-> NoTask]
    /\ raced = FALSE
    /\ kept = [id \in SwapIds |-> {}]

StoreNext ==
    \/ \E c \in Callers :
        \/ CreateSwap(c) \/ IncrementKeyIndex(c) \/ WriteIncrement(c)
        \/ CollisionRetried(c) \/ SkipReads(c) \/ SkipSets(c) \/ Post(c)
        \/ GetExisting(c) \/ StoreSwap(c)
        \/ RecoverSwaps(c) \/ NextRecovered(c) \/ ReadKeyIndex(c) \/ RaiseKeyIndex(c) \/ Continue(c)
        \/ (\E id \in SwapIds : ReadToRecord(c, id)) \/ RecordFunding(c) \/ CallThrows(c)
    \/ \E id \in SwapIds : DeleteSwap(id)
    \/ Restart

StoreSpec == StoreInit /\ [][StoreNext]_storeVars

-----------------------------------------------------------------------------
StoreTypeOK ==
    /\ backend \in Stores /\ keyIndex \in 0..MaxIndex
    /\ Len(server) <= MaxSwaps
    /\ local \in [SwapIds -> [index : -1..MaxIndex, holds : SUBSET Items]]
    /\ raced \in BOOLEAN /\ kept \in [SwapIds -> SUBSET Items]

\* A stored swap has the keys the server's swap was created with: retries, recoveries and
\* overlapping creations never store a swap under keys that cannot open it
\* (retryOnHashCollision, recoverSwaps, storeSwap).  And unless two calls overlap in the
\* key index, no creation asks for a swap with the keys of another that this client
\* created, whatever it recovered in between (incrementKeyIndex, recoverSwaps).
KeysFitSwaps ==
    /\ \A id \in SwapIds : local[id] # Absent => local[id].index = server[id].index
    /\ raced \/ \A c \in Callers : Does(c, "post") =>
          \A i \in DOMAIN server : server[i].index = caller[c].index => server[i].prior

\* What the creation committed to and what funding recorded outlives recovery and every
\* other write, but for one that overlapped it (storeSwap: "what its funding recorded
\* must survive that"; "recovery rebuilding the swap keeps it").
WrittenOutlives == raced \/ \A id \in SwapIds : kept[id] \ {"recipient"} \subseteq local[id].holds

\* A recovery the server called complete has stored every swap it was asked for, or only
\* swaps created since, in windows without a gap (recoverAllSwaps).
RecoveredAll ==
    \A c \in Callers :
        Does(c, "scanned") /\ caller[c].complete =>
            \A i \in DOMAIN server : server[i].prior => local[i] # Absent \/ i \notin SwapIds
==============================================================================
