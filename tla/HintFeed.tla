------------------------------ MODULE HintFeed ------------------------------
(***************************************************************************)
(* WsStatusSource: the one socket that feeds the swap package its status    *)
(* hints, with the server's cap on subscriptions kept on this side          *)
(* (ts-sdk/packages/swap/src/hints/ws-status-source.ts).                    *)
(*                                                                         *)
(* The server adds no more than Cap ids to a connection and acknowledges    *)
(* the others all the same, so an id beyond the cap waits in a queue here.  *)
(***************************************************************************)
EXTENDS Naturals, FiniteSets, SequencesExt

CONSTANTS
    Hinted,         \* swap ids
    Cap,            \* MAX_SUBSCRIPTIONS
    Plugs           \* sockets that may exist at a time (bounds the model)

NoPlug == "none"

ASSUME FeedAssumption ==
    /\ IsFiniteSet(Hinted) /\ Cap \in Nat \ {0}
    /\ IsFiniteSet(Plugs) /\ NoPlug \notin Plugs

VARIABLES
    active,         \* ids with a subscription, or to get one at the next open
    queued,         \* ids that wait for a place, oldest first
    feedSocket,     \* #ws
    plug,           \* each socket: free, connecting, open, closing
    told,           \* the ids the server added for each
    isOpen,         \* #open
    again,          \* #reconnectTimer
    stopped         \* #stopped

feedVars == <<active, queued, feedSocket, plug, told, isOpen, again, stopped>>

Prefix(q, n) == IF Len(q) <= n THEN q ELSE SubSeq(q, 1, n)
Room == Cap - Cardinality(active)

\* The server takes ids while there is room, and acknowledges all.
ServerAdds(had, ids) ==
    IF Cardinality(had \cup ids) <= Cap THEN {had \cup ids}
    ELSE {had \cup more : more \in {m \in SUBSET (ids \ had) : Cardinality(had \cup m) = Cap}}

\* sendFrame writes to the held socket; one that is not open yet, or not any more, takes nothing.
SendFrame(add, drop) ==
    IF feedSocket # NoPlug /\ plug[feedSocket] = "open"
    THEN \E now \in ServerAdds(told[feedSocket] \ drop, add) : told' = [told EXCEPT ![feedSocket] = now]
    ELSE UNCHANGED told

FeedConnect ==
    \E s \in {t \in Plugs : plug[t] = "free"} :
        feedSocket' = s /\ plug' = [plug EXCEPT ![s] = "connecting"]

\* start().
FeedStart ==
    /\ feedSocket = NoPlug /\ ~again
    /\ stopped' = FALSE
    /\ FeedConnect
    /\ UNCHANGED <<active, queued, told, isOpen, again>>

\* stop(): the socket is forgotten before its close event.
FeedStop ==
    /\ ~stopped
    /\ stopped' = TRUE /\ again' = FALSE /\ isOpen' = FALSE
    /\ feedSocket' = NoPlug
    /\ plug' = IF feedSocket = NoPlug THEN plug ELSE [plug EXCEPT ![feedSocket] = "closing"]
    /\ UNCHANGED <<active, queued, told>>

\* subscribe(swapIds), one id of them after the other.
FeedSubscribe(id) ==
    /\ id \notin active /\ ~Contains(queued, id)
    /\ IF Room > 0
       THEN /\ active' = active \cup {id}
            /\ IF isOpen THEN SendFrame({id}, {}) ELSE UNCHANGED told
            /\ UNCHANGED queued
       ELSE queued' = Append(queued, id) /\ UNCHANGED <<active, told>>
    /\ UNCHANGED <<feedSocket, plug, isOpen, again, stopped>>

\* promotePending.
Promoted(places) == ToSet(Prefix(queued, places))
Waiting(places) == SubSeq(queued, Len(Prefix(queued, places)) + 1, Len(queued))

\* unsubscribe(swapIds): a queued id leaves the queue, an active one makes room.
FeedUnsubscribe(id) ==
    /\ id \in active \/ Contains(queued, id)
    /\ IF id \in active
       THEN /\ active' = (active \ {id}) \cup Promoted(Room + 1)
            /\ queued' = Waiting(Room + 1)
            /\ IF isOpen THEN SendFrame(Promoted(Room + 1), {id}) ELSE UNCHANGED told
       ELSE /\ \E i \in {j \in DOMAIN queued : queued[j] = id} : queued' = RemoveAt(queued, i)
            /\ UNCHANGED <<active, told>>
    /\ UNCHANGED <<feedSocket, plug, isOpen, again, stopped>>

\* onopen: everything active is sent again, to the socket that is held.
FeedOpens(s) ==
    LET opened == [plug EXCEPT ![s] = "open"] IN
    /\ plug[s] = "connecting"
    /\ plug' = opened
    /\ active' = active \cup Promoted(Room)
    /\ queued' = Waiting(Room)
    /\ isOpen' = TRUE
    /\ IF feedSocket # NoPlug /\ opened[feedSocket] = "open"
       THEN \E now \in ServerAdds(told[feedSocket], active \cup Promoted(Room)) :
               told' = [told EXCEPT ![feedSocket] = now]
       ELSE UNCHANGED told
    /\ UNCHANGED <<feedSocket, again, stopped>>

\* The connection breaks; onerror closes the socket that is held.
FeedBreaks(s) ==
    /\ plug[s] \in {"connecting", "open"}
    /\ plug' = [t \in Plugs |-> IF t \in {s, feedSocket} /\ plug[t] # "free"
                                THEN "closing" ELSE plug[t]]
    /\ UNCHANGED <<active, queued, feedSocket, told, isOpen, again, stopped>>

\* onDisconnect, by the close event of any socket.
FeedCloses(s) ==
    /\ plug[s] = "closing"
    /\ plug' = [plug EXCEPT ![s] = "free"]
    /\ told' = [told EXCEPT ![s] = {}]
    /\ isOpen' = FALSE /\ feedSocket' = NoPlug
    /\ again' = (again \/ ~stopped)
    /\ UNCHANGED <<active, queued, stopped>>

FeedReconnects ==
    /\ again
    /\ again' = FALSE
    /\ FeedConnect
    /\ UNCHANGED <<active, queued, told, isOpen, stopped>>

FeedInit ==
    /\ active = {} /\ queued = <<>>
    /\ feedSocket = NoPlug /\ plug = [s \in Plugs |-> "free"] /\ told = [s \in Plugs |-> {}]
    /\ isOpen = FALSE /\ again = FALSE /\ stopped = TRUE

FeedNext ==
    \/ FeedStart \/ FeedStop \/ FeedReconnects
    \/ \E id \in Hinted : FeedSubscribe(id) \/ FeedUnsubscribe(id)
    \/ \E s \in Plugs : FeedOpens(s) \/ FeedBreaks(s) \/ FeedCloses(s)

FeedSpec == FeedInit /\ [][FeedNext]_feedVars

-----------------------------------------------------------------------------
FeedTypeOK ==
    /\ active \subseteq Hinted /\ queued \in Seq(Hinted)
    /\ feedSocket \in Plugs \cup {NoPlug}
    /\ plug \in [Plugs -> {"free", "connecting", "open", "closing"}]
    /\ told \in [Plugs -> SUBSET Hinted]
    /\ isOpen \in BOOLEAN /\ again \in BOOLEAN /\ stopped \in BOOLEAN

\* No id waits while there is room, none has a place twice, and a running feed's active ids
\* are known to the server on its open socket unless a connection or a reconnect that will
\* send them again is on its way: an id the server dropped silently would never get a hint
\* (subscribe, promotePending and the reconnects).
HintsReachActive ==
    /\ Cardinality(active) <= Cap
    /\ queued # <<>> => Cardinality(active) = Cap
    /\ IsInjective(queued) /\ ToSet(queued) \cap active = {}
    /\ ~stopped => \/ again
                   \/ /\ feedSocket # NoPlug
                      /\ plug[feedSocket] = "open" => active = told[feedSocket]
==============================================================================
