--------------------------- MODULE ElectrumSocket ---------------------------
(***************************************************************************)
(* ElectrumWsClient: one socket to an Electrum server, opened when needed,  *)
(* closed when idle, and reopened while anybody waits for a notification    *)
(* (ts-pure-sdk/src/electrum-ws.ts).                                        *)
(*                                                                         *)
(* As with StatusWatcher's socket, the close event of one the client gave   *)
(* up on may arrive after it opened the next.  A dead socket looks open     *)
(* and answers nothing.                                                     *)
(***************************************************************************)
EXTENDS Naturals, FiniteSets

CONSTANTS
    Scripts,        \* script hashes
    Lines           \* sockets that may exist at a time (bounds the model)

NoLine == "none"

ASSUME ElectrumAssumption == IsFiniteSet(Scripts) /\ IsFiniteSet(Lines) /\ NoLine \notin Lines

VARIABLES
    watched,        \* script hashes with a handler
    held,           \* #socket
    line,           \* each socket: free, connecting, open, dead, closing
    wire,           \* the script hashes subscribed on each
    connecting,     \* the socket #connecting waits for
    retry,          \* #reconnectTimer is set
    shut            \* close() was called

electrumVars == <<watched, held, line, wire, connecting, retry, shut>>

LooksOpen == held # NoLine /\ line[held] \in {"open", "dead"}
Answering == held # NoLine /\ line[held] = "open"

\* ensureConnected shares one attempt among its callers.
EnsureConnected ==
    IF LooksOpen \/ connecting # NoLine
    THEN UNCHANGED <<held, line, connecting>>
    ELSE \E s \in {t \in Lines : line[t] = "free"} :
            /\ held' = s /\ connecting' = s
            /\ line' = [line EXCEPT ![s] = "connecting"]

\* scheduleReconnect, for those who wait for notifications.
Retrying == retry \/ (~shut /\ watched # {})

\* teardownSocket closes the held socket and forgets it; `gone` has closed already.
Teardown(gone) ==
    /\ held' = NoLine
    /\ line' = [t \in Lines |-> IF t \in gone THEN "free"
                                ELSE IF t = held THEN "closing" ELSE line[t]]
    /\ wire' = [t \in Lines |-> IF t \in gone THEN {} ELSE wire[t]]

\* request, by a lookup that needs no notification.
ElectrumRequest ==
    /\ ~shut
    /\ EnsureConnected
    /\ UNCHANGED <<watched, wire, retry, shut>>

\* subscribeScriptHash registers the handler first; a request a dead socket swallows times
\* out and schedules a reconnect.
SubscribeScriptHash(x) ==
    /\ ~shut
    /\ watched' = watched \cup {x}
    /\ EnsureConnected
    /\ wire' = IF Answering THEN [wire EXCEPT ![held] = @ \cup {x}] ELSE wire
    /\ retry' \in {retry, retry \/ (LooksOpen /\ ~Answering)}
    /\ UNCHANGED shut

\* unsubscribeScriptHash.
UnsubscribeScriptHash(x) ==
    /\ x \in watched
    /\ watched' = watched \ {x}
    /\ wire' = IF Answering THEN [wire EXCEPT ![held] = @ \ {x}] ELSE wire
    /\ UNCHANGED <<held, line, connecting, retry, shut>>

\* connect's open handler subscribes what is registered.
LineOpens(s) ==
    /\ line[s] = "connecting"
    /\ line' = [line EXCEPT ![s] = "open"]
    /\ connecting' = NoLine
    /\ wire' = [wire EXCEPT ![s] = watched]
    /\ UNCHANGED <<watched, held, retry, shut>>

\* connectTimer, or an error: the attempt is rejected, and its socket closed.
ConnectFails(s) ==
    /\ line[s] = "connecting"
    /\ line' = [line EXCEPT ![s] = "closing"]
    /\ connecting' = IF connecting = s THEN NoLine ELSE connecting
    /\ retry' \in {retry, Retrying}
    /\ UNCHANGED <<watched, held, wire, shut>>

LineBreaks(s) ==
    /\ line[s] = "open" \/ line[s] = "dead"
    /\ line' \in {[line EXCEPT ![s] = "closing"], [line EXCEPT ![s] = "dead"]}
    /\ UNCHANGED <<watched, held, wire, connecting, retry, shut>>

\* "close": teardownSocket takes down whichever socket is held.
LineCloses(s) ==
    /\ line[s] = "closing"
    /\ Teardown({s})
    /\ connecting' = IF connecting = s THEN NoLine ELSE connecting
    /\ retry' = Retrying
    /\ UNCHANGED <<watched, shut>>

\* startPing: a ping nobody answers tears the socket down.
KeepaliveFails ==
    /\ LooksOpen
    /\ Teardown({})
    /\ retry' = Retrying
    /\ UNCHANGED <<watched, connecting, shut>>

\* maybeScheduleIdleClose.
IdleClose ==
    /\ held # NoLine /\ watched = {} /\ ~shut
    /\ Teardown({})
    /\ UNCHANGED <<watched, connecting, retry, shut>>

ElectrumReconnect ==
    /\ retry
    /\ retry' = FALSE
    /\ IF shut \/ watched = {} THEN UNCHANGED <<held, line, connecting>> ELSE EnsureConnected
    /\ UNCHANGED <<watched, wire, shut>>

\* close().
Shut ==
    /\ ~shut
    /\ shut' = TRUE /\ retry' = FALSE
    /\ Teardown({})
    /\ watched' = {}
    /\ UNCHANGED connecting

ElectrumInit ==
    /\ watched = {} /\ held = NoLine /\ connecting = NoLine
    /\ line = [s \in Lines |-> "free"] /\ wire = [s \in Lines |-> {}]
    /\ retry = FALSE /\ shut = FALSE

ElectrumNext ==
    \/ ElectrumRequest
    \/ \E x \in Scripts : SubscribeScriptHash(x) \/ UnsubscribeScriptHash(x)
    \/ \E s \in Lines : LineOpens(s) \/ ConnectFails(s) \/ LineBreaks(s) \/ LineCloses(s)
    \/ KeepaliveFails \/ IdleClose \/ ElectrumReconnect \/ Shut

ElectrumSpec == ElectrumInit /\ [][ElectrumNext]_electrumVars

-----------------------------------------------------------------------------
ElectrumTypeOK ==
    /\ watched \subseteq Scripts
    /\ held \in Lines \cup {NoLine} /\ connecting \in Lines \cup {NoLine}
    /\ line \in [Lines -> {"free", "connecting", "open", "dead", "closing"}]
    /\ wire \in [Lines -> SUBSET Scripts]
    /\ retry \in BOOLEAN /\ shut \in BOOLEAN

\* A registered handler never ends up with nothing that would bring its notifications: its
\* script is subscribed on the open socket, or a ping, a connection, a close event or a
\* reconnect is still to come (subscribeScriptHash: "the push self-heals").
PushHeals ==
    \A x \in watched :
        \/ Answering /\ x \in wire[held]
        \/ held # NoLine /\ line[held] = "dead"
        \/ connecting # NoLine \/ retry
        \/ \E s \in Lines : line[s] = "closing"
==============================================================================
