--------------------------- MODULE StatusWatcher ---------------------------
(***************************************************************************)
(* createSwapStatusWatcher: one socket on which the TypeScript client       *)
(* listens to the status of the swaps somebody subscribed to                *)
(* (ts-pure-sdk/src/ws.ts).                                                 *)
(*                                                                         *)
(* A socket closes in its own time: its close event may reach the watcher   *)
(* after the watcher has moved on to another socket.                        *)
(***************************************************************************)
EXTENDS Naturals, FiniteSets

CONSTANTS
    Watched,        \* swap ids
    Handlers,       \* status handlers
    Slots,          \* sockets that may exist at a time (bounds the model)
    MaxIdles        \* times the subscriptions may run out (bounds the model)

NoSocket == "none"

ASSUME WatcherAssumption ==
    /\ IsFiniteSet(Watched) /\ IsFiniteSet(Handlers) /\ IsFiniteSet(Slots) /\ MaxIdles \in Nat
    /\ NoSocket \notin Slots

VARIABLES
    subscribers,    \* the <<id, handler>> pairs subscribed
    socket,         \* the slot of the socket the watcher holds, or NoSocket
    ready,          \* each slot: free, connecting, open, closing
    heard,          \* the ids each open socket has subscribed to on the wire
    timer,          \* a reconnect is scheduled
    intentional,    \* closingIntentionally
    idles           \* times the subscriptions ran out

watcherVars == <<subscribers, socket, ready, heard, timer, intentional, idles>>

Ids == {p[1] : p \in subscribers}

\* ensureSocket opens one unless the held one is not closed yet.
EnsureSocket(flag) ==
    IF socket # NoSocket
    THEN UNCHANGED <<socket, ready>> /\ intentional' = flag
    ELSE \E s \in {t \in Slots : ready[t] = "free"} :
            /\ socket' = s
            /\ ready' = [ready EXCEPT ![s] = "connecting"]
            /\ intentional' = FALSE

\* sendSubscribe and sendUnsubscribe write to the held socket, when it is open.
SendSubscribe(ids) ==
    heard' = IF socket # NoSocket /\ ready[socket] = "open"
             THEN [heard EXCEPT ![socket] = @ \cup ids] ELSE heard

SendUnsubscribe(ids) ==
    heard' = IF socket # NoSocket /\ ready[socket] = "open"
             THEN [heard EXCEPT ![socket] = @ \ ids] ELSE heard

\* subscribe(ids, onUpdate).
Subscribe(ids, h) ==
    /\ ids # {}
    /\ subscribers' = subscribers \cup (ids \X {h})
    /\ EnsureSocket(intentional)
    /\ SendSubscribe(ids \ Ids)
    /\ UNCHANGED <<timer, idles>>

\* closeIfIdle closes the held socket and forgets it at once.
CloseIfIdle ==
    /\ intentional' = TRUE /\ timer' = FALSE
    /\ socket' = NoSocket
    /\ ready' = IF socket # NoSocket THEN [ready EXCEPT ![socket] = "closing"] ELSE ready
    /\ idles' = idles + 1

\* unsubscribe(ids, onUpdate), an unsubscribe function, or close() for all of them.
Unsubscribe(pairs) ==
    LET left == subscribers \ pairs
        gone == Ids \ {p[1] : p \in left}
    IN /\ pairs # {} /\ pairs \subseteq subscribers
       /\ subscribers' = left
       /\ SendUnsubscribe(gone)
       /\ IF left = {}
          THEN idles < MaxIdles /\ CloseIfIdle
          ELSE UNCHANGED <<socket, ready, timer, intentional, idles>>

\* Mistake: what was subscribed before the socket opened is not sent.
SocketOpensSilently(s) ==
    /\ ready[s] = "connecting"
    /\ ready' = [ready EXCEPT ![s] = "open"]
    /\ UNCHANGED <<subscribers, socket, heard, timer, intentional, idles>>

\* "open": every id is subscribed, on the socket the watcher holds.
SocketOpens(s) ==
    /\ ready[s] = "connecting"
    /\ ready' = [ready EXCEPT ![s] = "open"]
    /\ heard' = IF socket = s THEN [heard EXCEPT ![s] = Ids] ELSE
                IF socket # NoSocket /\ ready[socket] = "open"
                THEN [heard EXCEPT ![socket] = @ \cup Ids] ELSE heard
    /\ UNCHANGED <<subscribers, socket, timer, intentional, idles>>

\* The connection breaks, or "error" closes the socket the watcher holds.
SocketFails(s) ==
    /\ ready[s] # "free"
    /\ ready' = [t \in Slots |-> IF t \in {s, socket} /\ ready[t] # "free"
                                 THEN "closing" ELSE ready[t]]
    /\ UNCHANGED <<subscribers, socket, heard, timer, intentional, idles>>

\* "close": whichever socket it is about, the held one is forgotten.
SocketCloses(s) ==
    /\ ready[s] = "closing"
    /\ ready' = [ready EXCEPT ![s] = "free"]
    /\ heard' = [heard EXCEPT ![s] = {}]
    /\ socket' = NoSocket
    /\ timer' = (timer \/ (~intentional /\ subscribers # {}))
    /\ UNCHANGED <<subscribers, intentional, idles>>

\* scheduleReconnect's timer.
Reconnect ==
    /\ timer
    /\ timer' = FALSE
    /\ IF subscribers # {} THEN EnsureSocket(intentional) ELSE UNCHANGED <<socket, ready, intentional>>
    /\ UNCHANGED <<subscribers, heard, idles>>

WatcherInit ==
    /\ subscribers = {} /\ socket = NoSocket
    /\ ready = [s \in Slots |-> "free"] /\ heard = [s \in Slots |-> {}]
    /\ timer = FALSE /\ intentional = FALSE /\ idles = 0

WatcherNext ==
    \/ \E ids \in SUBSET Watched, h \in Handlers : Subscribe(ids, h)
    \/ \E pairs \in SUBSET subscribers : Unsubscribe(pairs)
    \/ \E s \in Slots : SocketOpens(s) \/ SocketFails(s) \/ SocketCloses(s)
    \/ Reconnect

WatcherSpec == WatcherInit /\ [][WatcherNext]_watcherVars

-----------------------------------------------------------------------------
WatcherTypeOK ==
    /\ subscribers \subseteq Watched \X Handlers
    /\ socket \in Slots \cup {NoSocket}
    /\ ready \in [Slots -> {"free", "connecting", "open", "closing"}]
    /\ heard \in [Slots -> SUBSET Watched]
    /\ timer \in BOOLEAN /\ intentional \in BOOLEAN /\ idles \in 0..MaxIdles

\* Whatever order sockets open, fail and close in, a subscribed id is on the wire of an open
\* socket, or a socket on its way or a reconnect will put it there (ensureSocket,
\* closeIfIdle and the close handler).
NobodyGoesUnheard ==
    \A id \in Ids :
        \/ \E s \in Slots : ready[s] = "open" /\ id \in heard[s]
        \/ socket # NoSocket /\ ready[socket] \in {"connecting", "closing"}
        \/ timer
==============================================================================
