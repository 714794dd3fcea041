------------------------------ MODULE WalletProofs ------------------------------
(***************************************************************************)
(* Proofs about the TypeScript wallet: whatever order the events of its     *)
(* three sockets come in, no subscription is left without the means to be   *)
(* heard again; whatever calls overlap in its storage, what they stored      *)
(* stays; and what is proved of each of its machines holds of the wallet     *)
(* they are parts of.                                                       *)
(***************************************************************************)
EXTENDS MCWallet, WalletFundingProofs, WalletSpendProofs, FollowSwapProofs, SequenceTheorems,
        NaturalsInduction

-----------------------------------------------------------------------------
(* The status watcher. *)
\* Somebody subscribed is heard through the held socket or awaits a reconnect; a held socket is
\* never one the watcher means to close, and carries every subscription once it is open.
WatcherInv ==
    /\ WatcherTypeOK
    /\ subscribers # {} => ~intentional /\ (socket # NoSocket \/ timer)
    /\ socket # NoSocket =>
          ~intentional /\ ready[socket] # "free" /\ (ready[socket] = "open" => Ids \subseteq heard[socket])

\* The watcher's invariant is inductive.
LEMMA WatcherStep == WatcherInv /\ [WatcherNext]_watcherVars => WatcherInv'
  <1> SUFFICES ASSUME WatcherInv, [WatcherNext]_watcherVars PROVE WatcherInv'
    OBVIOUS
  <1> USE WatcherAssumption DEF WatcherInv, WatcherTypeOK, Ids
  <1>1. ASSUME NEW ids \in SUBSET Watched, NEW h \in Handlers, Subscribe(ids, h)
        PROVE  WatcherInv'
    <2>a. ids # {} /\ subscribers' = subscribers \cup (ids \X {h})
      BY <1>1 DEF Subscribe
    <2>b. subscribers' \subseteq Watched \X Handlers
      BY <1>1, <2>a
    <2>c. Ids' = Ids \cup ids
      <3>1. ASSUME NEW id \in ids PROVE id \in Ids'
        <4>1. <<id, h>> \in subscribers' /\ <<id, h>>[1] = id
          BY <2>a
        <4> QED
          BY <4>1
      <3>2. ASSUME NEW p \in subscribers' PROVE p[1] \in Ids \cup ids
        <4>1. CASE p \in subscribers
          BY <4>1
        <4>2. CASE p \in ids \X {h}
          BY <4>2
        <4> QED
          BY <2>a, <4>1, <4>2
      <3>3. Ids \subseteq Ids'
        BY <2>a
      <3> QED
        BY <3>1, <3>2, <3>3
    <2>1. /\ subscribers' \subseteq Watched \X Handlers
          /\ Ids' = Ids \cup ids
      BY <2>b, <2>c
    <2>2. /\ socket' \in Slots \cup {NoSocket}
          /\ ready' \in [Slots -> {"free", "connecting", "open", "closing"}]
          /\ intentional' \in BOOLEAN
      BY <1>1 DEF Subscribe, EnsureSocket
    <2>3. /\ heard' \in [Slots -> SUBSET Watched]
          /\ timer' \in BOOLEAN /\ idles' \in 0..MaxIdles
      BY <1>1 DEF Subscribe, SendSubscribe
    <2>4. CASE socket = NoSocket
      BY <1>1, <2>1, <2>2, <2>3, <2>4 DEF Subscribe, EnsureSocket, SendSubscribe
    <2>5. CASE socket # NoSocket
      <3>1. socket' = socket /\ ready' = ready /\ intentional' = intentional
        BY <1>1, <2>5 DEF Subscribe, EnsureSocket
      <3>2. ready[socket] = "open" => heard'[socket] = heard[socket] \cup (ids \ Ids)
        BY <1>1, <2>5 DEF Subscribe, SendSubscribe
      <3>3. ~intentional
        BY <2>5
      <3> QED
        BY <2>1, <2>2, <2>3, <2>5, <3>1, <3>2, <3>3
    <2> QED
      BY <2>4, <2>5
  <1>2. ASSUME NEW pairs \in SUBSET subscribers, Unsubscribe(pairs)
        PROVE  WatcherInv'
    <2> DEFINE left == subscribers \ pairs
               gone == Ids \ {p[1] : p \in left}
    <2>0. idles' \in 0..MaxIdles
      BY <1>2 DEF Unsubscribe, CloseIfIdle
    <2>1. WatcherTypeOK'
      BY <1>2, <2>0 DEF Unsubscribe, SendUnsubscribe, CloseIfIdle
    <2>2. CASE left = {}
      BY <1>2, <2>1, <2>2 DEF Unsubscribe, SendUnsubscribe, CloseIfIdle
    <2>3. CASE left # {}
      BY <1>2, <2>1, <2>3 DEF Unsubscribe, SendUnsubscribe, CloseIfIdle
    <2> QED
      BY <2>2, <2>3
  <1>3. ASSUME NEW s \in Slots, SocketOpens(s)
        PROVE  WatcherInv'
    BY <1>3 DEF SocketOpens
  <1>4. ASSUME NEW s \in Slots, SocketFails(s)
        PROVE  WatcherInv'
    BY <1>4 DEF SocketFails
  <1>5. ASSUME NEW s \in Slots, SocketCloses(s)
        PROVE  WatcherInv'
    BY <1>5 DEF SocketCloses
  <1>6. CASE Reconnect
    BY <1>6 DEF Reconnect, EnsureSocket
  <1>7. CASE UNCHANGED watcherVars
    BY <1>7 DEF watcherVars
  <1> QED
    BY <1>1, <1>2, <1>3, <1>4, <1>5, <1>6, <1>7 DEF WatcherNext

\* NobodyGoesUnheard, whatever order the sockets open, fail and close in: ensureSocket,
\* closeIfIdle and the close handler of createSwapStatusWatcher.
THEOREM WatcherHeals == WatcherSpec => [](WatcherTypeOK /\ NobodyGoesUnheard)
  <1>1. WatcherInit => WatcherInv
    <2> SUFFICES ASSUME WatcherInit PROVE WatcherInv
      OBVIOUS
    <2>1. idles \in 0..MaxIdles
      BY WatcherAssumption DEF WatcherInit
    <2>2. WatcherTypeOK
      BY <2>1 DEF WatcherInit, WatcherTypeOK
    <2> QED
      BY <2>2 DEF WatcherInit, WatcherInv
  <1>2. WatcherInv => WatcherTypeOK /\ NobodyGoesUnheard
    BY DEF WatcherInv, WatcherTypeOK, NobodyGoesUnheard, Ids
  <1> QED
    BY <1>1, <1>2, WatcherStep, PTL DEF WatcherSpec

-----------------------------------------------------------------------------
(* The Electrum socket. *)
\* One line at a time is not closing; while it connects the client knows, and once it is open
\* every watched script is subscribed on it.
ElectrumInv ==
    /\ ElectrumTypeOK
    /\ shut => watched = {}
    /\ connecting # NoLine => line[connecting] \in {"connecting", "closing"}
    /\ \A s \in Lines : line[s] = "connecting" => connecting = s
    /\ \A s \in Lines : line[s] \in {"connecting", "open", "dead"} => held = s
    /\ held # NoLine => line[held] # "free" /\ (line[held] = "open" => watched \subseteq wire[held])
    /\ PushHeals

\* The Electrum client's invariant is inductive.
LEMMA ElectrumStep == ElectrumInv /\ [ElectrumNext]_electrumVars => ElectrumInv'
  <1> SUFFICES ASSUME ElectrumInv, [ElectrumNext]_electrumVars PROVE ElectrumInv'
    OBVIOUS
  <1> USE ElectrumAssumption DEF ElectrumInv, ElectrumTypeOK, PushHeals, LooksOpen, Answering
  <1>1. CASE ElectrumRequest
    BY <1>1 DEF ElectrumRequest, EnsureConnected
  <1>2. ASSUME NEW x \in Scripts, SubscribeScriptHash(x)
        PROVE  ElectrumInv'
    <2>1. ElectrumTypeOK'
      BY <1>2 DEF SubscribeScriptHash, EnsureConnected
    <2>2. CASE LooksOpen \/ connecting # NoLine
      BY <1>2, <2>1, <2>2 DEF SubscribeScriptHash, EnsureConnected
    <2>3. CASE ~(LooksOpen \/ connecting # NoLine)
      BY <1>2, <2>1, <2>3 DEF SubscribeScriptHash, EnsureConnected
    <2> QED
      BY <2>2, <2>3
  <1>3. ASSUME NEW x \in Scripts, UnsubscribeScriptHash(x)
        PROVE  ElectrumInv'
    BY <1>3 DEF UnsubscribeScriptHash
  <1>4. ASSUME NEW s \in Lines, LineOpens(s)
        PROVE  ElectrumInv'
    BY <1>4 DEF LineOpens
  <1>5. ASSUME NEW s \in Lines, ConnectFails(s)
        PROVE  ElectrumInv'
    BY <1>5 DEF ConnectFails, Retrying
  <1>6. ASSUME NEW s \in Lines, LineBreaks(s)
        PROVE  ElectrumInv'
    BY <1>6 DEF LineBreaks
  <1>7. ASSUME NEW s \in Lines, LineCloses(s)
        PROVE  ElectrumInv'
    BY <1>7 DEF LineCloses, Teardown, Retrying
  <1>8. CASE KeepaliveFails
    BY <1>8 DEF KeepaliveFails, Teardown, Retrying
  <1>9. CASE IdleClose
    BY <1>9 DEF IdleClose, Teardown
  <1>10. CASE ElectrumReconnect
    BY <1>10 DEF ElectrumReconnect, EnsureConnected
  <1>11. CASE Shut
    BY <1>11 DEF Shut, Teardown
  <1>12. CASE UNCHANGED electrumVars
    BY <1>12 DEF electrumVars
  <1> QED
    BY <1>1, <1>2, <1>3, <1>4, <1>5, <1>6, <1>7, <1>8, <1>9, <1>10, <1>11, <1>12 DEF ElectrumNext

\* PushHeals, whichever connect, break, keepalive, idle or close event comes late: the
\* ElectrumWs client's subscriptions.
THEOREM ElectrumHeals == ElectrumSpec => [](ElectrumTypeOK /\ PushHeals)
  <1>1. ElectrumInit => ElectrumInv
    BY ElectrumAssumption DEF ElectrumInit, ElectrumInv, ElectrumTypeOK, PushHeals
  <1>2. ElectrumInv => ElectrumTypeOK /\ PushHeals
    BY DEF ElectrumInv
  <1> QED
    BY <1>1, <1>2, ElectrumStep, PTL DEF ElectrumSpec

-----------------------------------------------------------------------------
(* The hint feed. *)
\* The places are full while an id waits; a running feed holds a socket or awaits a reconnect,
\* a new socket has told the server nothing, and an open one exactly the active ids.
FeedInv ==
    /\ FeedTypeOK
    /\ IsFiniteSet(active) /\ Cardinality(active) <= Cap
    /\ queued # <<>> => Cardinality(active) = Cap
    /\ IsInjective(queued) /\ ToSet(queued) \cap active = {}
    /\ stopped => ~again /\ feedSocket = NoPlug
    /\ again => feedSocket = NoPlug
    /\ feedSocket = NoPlug => again \/ stopped
    /\ feedSocket # NoPlug => plug[feedSocket] # "free"
    /\ \A s \in Plugs : plug[s] \in {"free", "connecting"} => told[s] = {}
    /\ feedSocket # NoPlug /\ plug[feedSocket] = "open" => isOpen /\ active = told[feedSocket]

\* What the queue hands over: nothing of an empty one or for no place, its head for one.
LEMMA HandsOver ==
  ASSUME NEW S, queued \in Seq(S)
  PROVE  /\ queued = <<>> => \A n \in Nat : Promoted(n) = {} /\ Waiting(n) = <<>>
         /\ Promoted(0) = {} /\ Waiting(0) = queued
         /\ queued # <<>> => /\ Promoted(1) = {queued[1]}
                             /\ Waiting(1) = SubSeq(queued, 2, Len(queued))
  <1>0. Len(queued) \in Nat /\ DOMAIN queued = 1..Len(queued)
    BY LenProperties
  <1>1. ASSUME queued = <<>>, NEW n \in Nat
        PROVE  Promoted(n) = {} /\ Waiting(n) = <<>>
    <2>1. Len(queued) = 0 /\ Prefix(queued, n) = <<>>
      BY <1>1 DEF Prefix
    <2>2. Promoted(n) = {}
      BY <2>1 DEF Promoted, ToSet
    <2>3. Waiting(n) = SubSeq(queued, 1, 0)
      BY <2>1 DEF Waiting
    <2> QED
      BY <2>2, <2>3, SubSeqEmpty
  <1>2. Promoted(0) = {} /\ Waiting(0) = queued
    <2>1. Prefix(queued, 0) = <<>>
      <3>1. CASE Len(queued) = 0
        BY <3>1, EmptySeq DEF Prefix
      <3>2. CASE Len(queued) # 0
        BY <3>2, <1>0, SubSeqEmpty DEF Prefix
      <3> QED
        BY <3>1, <3>2
    <2>2. Promoted(0) = {}
      BY <2>1 DEF Promoted, ToSet
    <2>3. Waiting(0) = SubSeq(queued, 1, Len(queued))
      BY <2>1 DEF Waiting
    <2> QED
      BY <2>2, <2>3, SubSeqFull
  <1>3. ASSUME queued # <<>>
        PROVE  /\ Promoted(1) = {queued[1]}
               /\ Waiting(1) = SubSeq(queued, 2, Len(queued))
    <2>1. Len(queued) >= 1
      BY <1>0, <1>3, EmptySeq
    <2>2. \A i \in 1..1 : queued[i] \in S
      BY <2>1, <1>0, ElementOfSeq
    <2>3. /\ Len(SubSeq(queued, 1, 1)) = 1 /\ SubSeq(queued, 1, 1) \in Seq(S)
          /\ SubSeq(queued, 1, 1)[1] = queued[1]
      BY <2>2, SubSeqProperties
    <2>4. Prefix(queued, 1) \in Seq(S) /\ Len(Prefix(queued, 1)) = 1 /\ Prefix(queued, 1)[1] = queued[1]
      BY <2>1, <2>3, <1>0 DEF Prefix
    <2>5. DOMAIN Prefix(queued, 1) = {1}
      BY <2>4, LenProperties
    <2> DEFINE p == Prefix(queued, 1)
    <2> HIDE DEF p
    <2>6. {p[i] : i \in DOMAIN p} = {queued[1]}
      BY <2>4, <2>5 DEF p
    <2>7. Promoted(1) = {queued[1]}
      BY <2>6 DEF Promoted, ToSet, p
    <2>8. Waiting(1) = SubSeq(queued, 2, Len(queued))
      <3>1. Len(Prefix(queued, 1)) + 1 = 2
        BY <2>4
      <3> QED
        BY <3>1, Zenon DEF Waiting
    <2> QED
      BY <2>7, <2>8
  <1> QED
    BY <1>1, <1>2, <1>3

\* A queue of distinct ids that loses its head keeps the others apart, and only loses that.
LEMMA WithoutHead ==
  ASSUME NEW S, NEW q \in Seq(S), q # <<>>, IsInjective(q)
  PROVE  LET r == SubSeq(q, 2, Len(q)) IN
         r \in Seq(S) /\ IsInjective(r) /\ ToSet(r) = ToSet(q) \ {q[1]}
  <1> DEFINE r == SubSeq(q, 2, Len(q))
  <1>1. Len(q) \in Nat /\ DOMAIN q = 1..Len(q) /\ Len(q) >= 1 /\ \A i \in 1..Len(q) : q[i] \in S
    BY LenProperties, EmptySeq, ElementOfSeq
  <1>2. r \in Seq(S) /\ Len(r) = Len(q) - 1 /\ \A i \in 1..(Len(q) - 1) : r[i] = q[i + 1]
    BY <1>1, SubSeqProperties
  <1>3. DOMAIN r = 1..(Len(q) - 1)
    BY <1>2, LenProperties
  <1>4. IsInjective(r)
    BY <1>1, <1>2, <1>3 DEF IsInjective
  <1>5. ASSUME NEW i \in DOMAIN r PROVE r[i] \in ToSet(q) \ {q[1]}
    BY <1>1, <1>2, <1>3 DEF IsInjective, ToSet
  <1>6. ASSUME NEW i \in DOMAIN q, q[i] # q[1] PROVE q[i] \in ToSet(r)
    <2>1. i - 1 \in DOMAIN r /\ r[i - 1] = q[i]
      BY <1>1, <1>2, <1>3, <1>6
    <2> QED
      BY <2>1 DEF ToSet
  <1> QED
    BY <1>2, <1>4, <1>5, <1>6 DEF ToSet

\* A queue that loses one id keeps the others apart.
LEMMA WithoutOne ==
  ASSUME NEW S, NEW q \in Seq(S), IsInjective(q), NEW k \in DOMAIN q
  PROVE  RemoveAt(q, k) \in Seq(S) /\ IsInjective(RemoveAt(q, k)) /\ ToSet(RemoveAt(q, k)) \subseteq ToSet(q)
  <1> DEFINE a == SubSeq(q, 1, k - 1)
             b == SubSeq(q, k + 1, Len(q))
             r == a \o b
             at(i) == IF i < k THEN i ELSE i + 1
  <1>1. Len(q) \in Nat /\ DOMAIN q = 1..Len(q) /\ k \in 1..Len(q) /\ \A i \in 1..Len(q) : q[i] \in S
    BY LenProperties, ElementOfSeq
  <1>2. a \in Seq(S) /\ Len(a) = k - 1 /\ \A i \in 1..(k - 1) : a[i] = q[i]
    BY <1>1, SubSeqProperties
  <1>3. b \in Seq(S) /\ Len(b) = Len(q) - k /\ \A i \in 1..(Len(q) - k) : b[i] = q[k + i]
    <2>1. \A i \in (k + 1)..Len(q) : q[i] \in S
      BY <1>1
    <2>2. /\ b \in Seq(S) /\ Len(b) = IF k + 1 <= Len(q) THEN Len(q) - (k + 1) + 1 ELSE 0
          /\ \A i \in 1..(Len(q) - (k + 1) + 1) : b[i] = q[k + 1 + i - 1]
      BY <1>1, <2>1, SubSeqProperties
    <2> QED
      BY <2>2, <1>1
  <1>4. /\ r \in Seq(S) /\ Len(r) = Len(a) + Len(b)
        /\ \A i \in 1..(Len(a) + Len(b)) : r[i] = IF i <= Len(a) THEN a[i] ELSE b[i - Len(a)]
    BY <1>2, <1>3, ConcatProperties
  <1>5. DOMAIN r = 1..(Len(q) - 1)
    BY <1>1, <1>2, <1>3, <1>4, LenProperties
  <1> HIDE DEF a, b, r
  <1>6. ASSUME NEW i \in DOMAIN r PROVE at(i) \in DOMAIN q /\ r[i] = q[at(i)]
    <2>1. CASE i < k
      BY <1>1, <1>2, <1>3, <1>4, <1>5, <2>1
    <2>2. CASE ~(i < k)
      <3>1. r[i] = b[i - (k - 1)] /\ i - (k - 1) \in 1..(Len(q) - k)
        BY <1>1, <1>2, <1>3, <1>4, <1>5, <2>2
      <3>2. b[i - (k - 1)] = q[k + (i - (k - 1))]
        BY <1>3, <3>1
      <3> QED
        BY <1>1, <1>5, <2>2, <3>1, <3>2
    <2> QED
      BY <2>1, <2>2
  <1>7. ASSUME NEW i \in DOMAIN r, NEW j \in DOMAIN r, r[i] = r[j] PROVE i = j
    <2>1. at(i) = at(j)
      BY <1>6, <1>7 DEF IsInjective
    <2> QED
      BY <1>1, <1>5, <2>1
  <1>8. ASSUME NEW i \in DOMAIN r PROVE r[i] \in ToSet(q)
    BY <1>6 DEF ToSet
  <1>9. IsInjective(r) /\ ToSet(r) \subseteq ToSet(q)
    BY <1>7, <1>8 DEF IsInjective, ToSet
  <1> QED
    BY <1>4, <1>9 DEF r, a, b, RemoveAt

\* The server takes all that fits.
LEMMA TakesWhatFits ==
  ASSUME NEW had, NEW ids, Cardinality(had \cup ids) <= Cap
  PROVE  \A now \in ServerAdds(had, ids) : now = had \cup ids
  BY DEF ServerAdds

\* The feed's invariant is inductive.
LEMMA FeedStep == FeedInv /\ [FeedNext]_feedVars => FeedInv'
  <1> SUFFICES ASSUME FeedInv, [FeedNext]_feedVars PROVE FeedInv'
    OBVIOUS
  <1> USE FeedAssumption
  <1>0. /\ Len(queued) \in Nat /\ DOMAIN queued = 1..Len(queued)
        /\ Cardinality(active) \in Nat /\ Room \in Nat
        /\ queued # <<>> => Room = 0
    BY LenProperties, FS_CardinalityType DEF FeedInv, FeedTypeOK, Room
  <1>1. CASE FeedStart
    BY <1>1 DEF FeedStart, FeedConnect, FeedInv, FeedTypeOK
  <1>2. CASE FeedStop
    BY <1>2 DEF FeedStop, FeedInv, FeedTypeOK
  <1>3. CASE FeedReconnects
    BY <1>3 DEF FeedReconnects, FeedConnect, FeedInv, FeedTypeOK
  <1>4. ASSUME NEW id \in Hinted, FeedSubscribe(id)
        PROVE  FeedInv'
    <2>1. id \notin active /\ id \notin ToSet(queued)
      BY <1>4, <1>0 DEF FeedSubscribe, Contains, ToSet
    <2>2. CASE Room > 0
      <3>1. /\ active' = active \cup {id} /\ queued' = queued /\ queued = <<>>
            /\ IsFiniteSet(active') /\ Cardinality(active') <= Cap
        <4>1. active' = active \cup {id} /\ queued' = queued /\ queued = <<>>
          BY <1>4, <1>0, <2>2 DEF FeedSubscribe
        <4>2. IsFiniteSet(active \cup {id}) /\ Cardinality(active \cup {id}) = Cardinality(active) + 1
          BY <2>1, FS_AddElement DEF FeedInv
        <4>3. Cardinality(active) + 1 <= Cap
          BY <2>2, <1>0 DEF Room
        <4> QED
          BY <4>1, <4>2, <4>3
      <3>2. /\ feedSocket # NoPlug /\ plug[feedSocket] = "open" =>
                  told' = [told EXCEPT ![feedSocket] = active']
            /\ ~(feedSocket # NoPlug /\ plug[feedSocket] = "open") => told' = told
        <4>1. CASE feedSocket # NoPlug /\ plug[feedSocket] = "open"
          <5>1. isOpen /\ told[feedSocket] = active
            BY <4>1 DEF FeedInv
          <5>2. PICK now \in ServerAdds(told[feedSocket] \ {}, {id}) : told' = [told EXCEPT ![feedSocket] = now]
            BY <1>4, <2>2, <4>1, <5>1 DEF FeedSubscribe, SendFrame
          <5>3. now = active'
            BY <3>1, <5>1, <5>2, TakesWhatFits
          <5> QED
            BY <4>1, <5>2, <5>3
        <4>2. CASE ~(feedSocket # NoPlug /\ plug[feedSocket] = "open")
          BY <1>4, <2>2, <4>2 DEF FeedSubscribe, SendFrame
        <4> QED
          BY <4>1, <4>2
      <3>3. ToSet(queued') = {}
        BY <3>1, EmptySeq DEF ToSet
      <3> QED
        BY <1>4, <3>1, <3>2, <3>3 DEF FeedSubscribe, FeedInv, FeedTypeOK
    <2>3. CASE ~(Room > 0)
      <3>1. queued' = Append(queued, id) /\ UNCHANGED <<active, told, feedSocket, plug, isOpen, again, stopped>>
        BY <1>4, <2>3 DEF FeedSubscribe
      <3>2. Cardinality(active) = Cap
        BY <2>3, <1>0 DEF Room, FeedInv
      <3>3. /\ queued' \in Seq(Hinted) /\ DOMAIN queued' = 1..(Len(queued) + 1)
            /\ \A i \in 1..(Len(queued) + 1) : queued'[i] = IF i = Len(queued) + 1 THEN id ELSE queued[i]
        BY <3>1, <1>0 DEF FeedInv, FeedTypeOK
      <3>4. IsInjective(queued')
        BY <3>3, <2>1, <1>0 DEF FeedInv, IsInjective, ToSet
      <3>5. ToSet(queued') \cap active = {}
        BY <3>3, <2>1, <1>0 DEF FeedInv, ToSet
      <3> QED
        BY <3>1, <3>2, <3>3, <3>4, <3>5 DEF FeedInv, FeedTypeOK
    <2> QED
      BY <2>2, <2>3
  <1>5. ASSUME NEW id \in Hinted, FeedUnsubscribe(id)
        PROVE  FeedInv'
    <2>1. CASE id \in active
      <3>1. /\ active' = (active \ {id}) \cup Promoted(Room + 1) /\ queued' = Waiting(Room + 1)
            /\ UNCHANGED <<feedSocket, plug, isOpen, again, stopped>>
        BY <1>5, <2>1 DEF FeedUnsubscribe
      <3>2. IsFiniteSet(active \ {id}) /\ Cardinality(active \ {id}) = Cardinality(active) - 1
        BY <2>1, FS_RemoveElement DEF FeedInv
      <3>3. /\ active' \subseteq Hinted /\ IsFiniteSet(active') /\ Cardinality(active') <= Cap
            /\ queued' \in Seq(Hinted) /\ IsInjective(queued') /\ ToSet(queued') \cap active' = {}
            /\ queued' # <<>> => Cardinality(active') = Cap
        <4>1. CASE queued = <<>>
          <5>1. Promoted(Room + 1) = {} /\ queued' = <<>>
            BY <4>1, <3>1, <1>0, HandsOver DEF FeedInv, FeedTypeOK
          <5>2. active' = active \ {id} /\ queued' = queued
            BY <3>1, <4>1, <5>1
          <5> QED
            BY <3>2, <4>1, <5>2, <1>0 DEF FeedInv, FeedTypeOK
        <4>2. CASE queued # <<>>
          <5>1. Room + 1 = 1
            BY <4>2, <1>0
          <5>2. Promoted(Room + 1) = {queued[1]} /\ queued' = SubSeq(queued, 2, Len(queued))
            BY <4>2, <5>1, <3>1, HandsOver DEF FeedInv, FeedTypeOK
          <5>3. queued' \in Seq(Hinted) /\ IsInjective(queued') /\ ToSet(queued') = ToSet(queued) \ {queued[1]}
            BY <4>2, <5>2, WithoutHead DEF FeedInv, FeedTypeOK
          <5>4. queued[1] \in Hinted /\ queued[1] \in ToSet(queued)
            BY <4>2, <1>0, EmptySeq, ElementOfSeq DEF FeedInv, FeedTypeOK, ToSet
          <5>5. active' = (active \ {id}) \cup {queued[1]} /\ queued[1] \notin active
            BY <3>1, <5>2, <5>4 DEF FeedInv
          <5>6. IsFiniteSet(active') /\ Cardinality(active') = Cardinality(active)
            <6> DEFINE rest == active \ {id}
            <6>1. IsFiniteSet(rest) /\ Cardinality(rest) = Cardinality(active) - 1 /\ queued[1] \notin rest
              BY <3>2, <5>5
            <6> HIDE DEF rest
            <6>2. IsFiniteSet(rest \cup {queued[1]}) /\ Cardinality(rest \cup {queued[1]}) = Cardinality(rest) + 1
              BY <6>1, FS_AddElement
            <6>3. Cardinality(rest) + 1 = Cardinality(active)
              BY <6>1, <1>0
            <6> QED
              BY <6>2, <6>3, <5>5 DEF rest
          <5> QED
            BY <4>2, <5>3, <5>4, <5>5, <5>6 DEF FeedInv, FeedTypeOK
        <4> QED
          BY <4>1, <4>2
      <3>4. /\ feedSocket # NoPlug /\ plug[feedSocket] = "open" =>
                  told' = [told EXCEPT ![feedSocket] = active']
            /\ ~(feedSocket # NoPlug /\ plug[feedSocket] = "open") => told' = told
        <4>1. CASE feedSocket # NoPlug /\ plug[feedSocket] = "open"
          <5>1. isOpen /\ told[feedSocket] = active
            BY <4>1 DEF FeedInv
          <5>2. PICK now \in ServerAdds(told[feedSocket] \ {id}, Promoted(Room + 1)) :
                       told' = [told EXCEPT ![feedSocket] = now]
            BY <1>5, <2>1, <4>1, <5>1 DEF FeedUnsubscribe, SendFrame
          <5>3. now = active'
            BY <3>1, <3>3, <5>1, <5>2, TakesWhatFits
          <5> QED
            BY <4>1, <5>2, <5>3
        <4>2. CASE ~(feedSocket # NoPlug /\ plug[feedSocket] = "open")
          BY <1>5, <2>1, <4>2 DEF FeedUnsubscribe, SendFrame
        <4> QED
          BY <4>1, <4>2
      <3> QED
        BY <3>1, <3>3, <3>4 DEF FeedInv, FeedTypeOK
    <2>2. CASE id \notin active
      <3>1. PICK i \in DOMAIN queued : queued' = RemoveAt(queued, i)
        BY <1>5, <2>2 DEF FeedUnsubscribe
      <3>2. UNCHANGED <<active, told, feedSocket, plug, isOpen, again, stopped>>
        BY <1>5, <2>2 DEF FeedUnsubscribe
      <3>3. queued' \in Seq(Hinted) /\ IsInjective(queued') /\ ToSet(queued') \subseteq ToSet(queued)
        BY <3>1, WithoutOne DEF FeedInv, FeedTypeOK
      <3>4. queued # <<>>
        BY <3>1, <1>0
      <3> QED
        BY <3>2, <3>3, <3>4 DEF FeedInv, FeedTypeOK
    <2> QED
      BY <2>1, <2>2
  <1>6. ASSUME NEW s \in Plugs, FeedOpens(s)
        PROVE  FeedInv'
    <2> DEFINE opened == [plug EXCEPT ![s] = "open"]
    <2>1. Promoted(Room) = {} /\ Waiting(Room) = queued
      BY <1>0, HandsOver DEF FeedInv, FeedTypeOK
    <2>2. /\ active' = active /\ queued' = queued /\ isOpen' = TRUE /\ plug' = opened
          /\ UNCHANGED <<feedSocket, again, stopped>> /\ plug[s] = "connecting"
      BY <1>6, <2>1 DEF FeedOpens
    <2>3. /\ feedSocket # NoPlug /\ opened[feedSocket] = "open" =>
                told' = [told EXCEPT ![feedSocket] = active]
          /\ ~(feedSocket # NoPlug /\ opened[feedSocket] = "open") => told' = told
      <3>1. CASE feedSocket # NoPlug /\ opened[feedSocket] = "open"
        <4>1. told[feedSocket] \subseteq active
          BY <2>2, <3>1 DEF FeedInv, FeedTypeOK
        <4>2. PICK now \in ServerAdds(told[feedSocket], active) : told' = [told EXCEPT ![feedSocket] = now]
          BY <1>6, <2>1, <3>1 DEF FeedOpens
        <4>3. told[feedSocket] \cup active = active
          BY <4>1
        <4>4. now = active
          BY <4>2, <4>3, TakesWhatFits DEF FeedInv
        <4> QED
          BY <3>1, <4>2, <4>4
      <3>2. CASE ~(feedSocket # NoPlug /\ opened[feedSocket] = "open")
        BY <1>6, <3>2 DEF FeedOpens
      <3> QED
        BY <3>1, <3>2
    <2> QED
      BY <2>2, <2>3 DEF FeedInv, FeedTypeOK
  <1>7. ASSUME NEW s \in Plugs, FeedBreaks(s)
        PROVE  FeedInv'
    BY <1>7 DEF FeedBreaks, FeedInv, FeedTypeOK
  <1>8. ASSUME NEW s \in Plugs, FeedCloses(s)
        PROVE  FeedInv'
    BY <1>8 DEF FeedCloses, FeedInv, FeedTypeOK
  <1>9. CASE UNCHANGED feedVars
    BY <1>9 DEF feedVars, FeedInv, FeedTypeOK
  <1> QED
    BY <1>1, <1>2, <1>3, <1>4, <1>5, <1>6, <1>7, <1>8, <1>9 DEF FeedNext

\* HintsReachActive, whatever order ids come and go and sockets open, break and close in:
\* WsStatusSource's subscribe, unsubscribe, promotePending and reconnects.
THEOREM FeedReaches == FeedSpec => [](FeedTypeOK /\ HintsReachActive)
  <1>1. FeedInit => FeedInv
    <2> SUFFICES ASSUME FeedInit PROVE FeedInv
      OBVIOUS
    <2>1. FeedTypeOK
      BY EmptySeq DEF FeedInit, FeedTypeOK
    <2>2. IsFiniteSet(active) /\ Cardinality(active) <= Cap
      BY FeedAssumption, FS_EmptySet DEF FeedInit
    <2>3. queued = <<>> /\ IsInjective(queued) /\ ToSet(queued) = {}
      BY EmptySeq DEF FeedInit, IsInjective, ToSet
    <2> QED
      BY <2>1, <2>2, <2>3, FeedAssumption DEF FeedInit, FeedInv
  <1>2. FeedInv => FeedTypeOK /\ HintsReachActive
    BY DEF FeedInv, HintsReachActive
  <1> QED
    BY <1>1, <1>2, FeedStep, PTL DEF FeedSpec

-----------------------------------------------------------------------------
(* The storage and the recovery.                                            *)

Swaps == [index : 0..(MaxIndex - 1), prior : BOOLEAN, ownHash : BOOLEAN]
Stored == [index : -1..(MaxIndex - 1), holds : SUBSET Items]
StoreSteps == {"idle", "derive", "increment", "post", "skip", "skipSet", "get", "store", "record",
               "next", "raise", "scanned"}
StoreTask ==
    [at : StoreSteps, id : Nat, index : 0..(MaxIndex - 1), seen : 0..MaxIndex, read : Stored,
     tries : Nat, swap : [hash : {"own", "invoice", "none"}, gives : SUBSET Items],
     todo : SUBSET Nat, until : Int, next : 0..MaxIndex, complete : BOOLEAN]

ServerOK == server \in Seq(Swaps) /\ Len(server) <= MaxSwaps

\* A stored swap is one of the server's, under its keys; what was kept of it is there.
LocalOK ==
    /\ local \in [SwapIds -> Stored] /\ kept \in [SwapIds -> SUBSET Items]
    /\ \A id \in SwapIds : local[id] # Absent =>
          id \in DOMAIN server /\ local[id].index = server[id].index
    /\ WrittenOutlives

\* A call that stores or records a swap has its keys; a recovery has stored, is storing or
\* is yet to store every swap of the windows it scanned.
TaskOK(t) ==
    /\ t \in StoreTask
    /\ t.at = "increment" => t.seen < MaxIndex
    /\ t.at \in {"get", "store"} => t.id \in DOMAIN server /\ t.index = server[t.id].index
    /\ t.at = "record" => t.id \in DOMAIN server /\ t.read.index = server[t.id].index
    /\ t.todo # {} =>
          /\ t.at \in {"next", "get", "store", "raise", "scanned"}
          /\ 0 \in t.todo /\ t.todo \subseteq {0} \cup DOMAIN server
          /\ t.at \in {"raise", "scanned"} => t.todo = {0}
          /\ \A i \in DOMAIN server :
                server[i].prior /\ server[i].index <= t.until =>
                   local[i] # Absent \/ i \in t.todo \/ (t.at \in {"get", "store"} /\ i = t.id)
          /\ t.complete => \A i \in DOMAIN server : server[i].prior => server[i].index <= t.until
    /\ t.at \in {"next", "raise", "scanned"} => t.todo # {}

CallersOK == caller = [c \in Callers |-> caller[c]] /\ \A c \in Callers : TaskOK(caller[c])

\* While no two calls overlap in the key index, the keys below it are the ones given out,
\* each once.
KeysOK ==
    raced \/
       /\ \A i \in DOMAIN server : server[i].prior \/ server[i].index < keyIndex
       /\ \A c \in Callers : Does(c, "post") =>
             /\ caller[c].index < keyIndex
             /\ \A i \in DOMAIN server : server[i].index = caller[c].index => server[i].prior
       /\ \A c, d \in Callers :
             Does(c, "post") /\ Does(d, "post") /\ caller[c].index = caller[d].index => c = d

StoreInv ==
    /\ backend \in Stores /\ keyIndex \in 0..MaxIndex /\ raced \in BOOLEAN
    /\ ServerOK /\ LocalOK /\ CallersOK /\ KeysOK

\* The bounds are positive.
LEMMA StoreBounds == {MaxSwaps, MaxIndex, MaxRetries, SkipCount, Window} \subseteq Nat \ {0}
  BY StoreAssumption

\* The invariant of the store implies what the runs check of it.
LEMMA StoreHolds ==
  ASSUME StoreInv
  PROVE  StoreTypeOK /\ KeysFitSwaps /\ WrittenOutlives /\ RecoveredAll
  <1>1. DOMAIN server = 1..Len(server) /\ Len(server) \in Nat /\ DOMAIN server \subseteq SwapIds
    BY StoreBounds DEF StoreInv, ServerOK, SwapIds
  <1>2. StoreTypeOK
    <2>1. Stored \subseteq [index : -1..MaxIndex, holds : SUBSET Items]
      BY StoreBounds DEF Stored
    <2>2. local \in [SwapIds -> [index : -1..MaxIndex, holds : SUBSET Items]]
      BY <2>1 DEF StoreInv, LocalOK
    <2> QED
      BY <2>2 DEF StoreInv, LocalOK, ServerOK, StoreTypeOK
  <1>3. KeysFitSwaps
    BY DEF StoreInv, LocalOK, KeysOK, KeysFitSwaps
  <1>4. RecoveredAll
    <2> SUFFICES ASSUME NEW c \in Callers, Does(c, "scanned"), caller[c].complete,
                        NEW i \in DOMAIN server, server[i].prior
                 PROVE  local[i] # Absent
      BY DEF RecoveredAll
    <2>1. TaskOK(caller[c]) /\ caller[c].at = "scanned"
      BY DEF StoreInv, CallersOK, Does
    <2>2. caller[c].todo = {0} /\ server[i].index <= caller[c].until
      BY <2>1 DEF TaskOK
    <2>3. i # 0
      BY <1>1
    <2> QED
      BY <2>1, <2>2, <2>3 DEF TaskOK
  <1> QED
    BY <1>2, <1>3, <1>4 DEF StoreInv, LocalOK

\* The server keeps its swaps and gets no older ones, and what is stored stays stored.
Grows ==
    /\ DOMAIN server \subseteq DOMAIN server' /\ \A i \in DOMAIN server : server'[i] = server[i]
    /\ \A i \in DOMAIN server' : i \in DOMAIN server \/ ~server'[i].prior
    /\ \A id \in SwapIds : local[id] # Absent => local'[id] # Absent

\* A call that a step leaves alone keeps its promises while no stored swap is lost.
LEMMA TaskLasts ==
  ASSUME StoreInv, Grows, NEW c \in Callers, caller'[c] = caller[c]
  PROVE  TaskOK(caller[c])'
  <1>1. TaskOK(caller[c])
    BY DEF StoreInv, CallersOK
  <1>2. DOMAIN server \subseteq SwapIds
    BY StoreBounds DEF StoreInv, ServerOK, SwapIds
  <1> DEFINE t == caller[c]
  <1>3. t' = t
    OBVIOUS
  <1> HIDE DEF t
  <1>4. TaskOK(t)
    BY <1>1 DEF t
  <1>5. TaskOK(t)'
    BY <1>2, <1>3, <1>4 DEF TaskOK, Grows
  <1> QED
    BY <1>5 DEF t

\* A step of one call leaves the others as they were.
LEMMA CallerSteps ==
  ASSUME StoreInv, Grows, NEW c \in Callers, NEW t, caller' = [caller EXCEPT ![c] = t],
         TaskOK(caller[c])'
  PROVE  CallersOK'
  <1>1. caller' = [d \in Callers |-> caller'[d]] /\ \A d \in Callers \ {c} : caller'[d] = caller[d]
    BY DEF StoreInv, CallersOK
  <1>2. \A d \in Callers : TaskOK(caller[d])'
    BY <1>1, TaskLasts
  <1> QED
    BY <1>1, <1>2 DEF CallersOK

\* The key index only rises unless two calls raced, so what is below it stays given out.
LEMMA KeysLast ==
  ASSUME StoreInv, UNCHANGED server, keyIndex' \in Nat, raced' \in BOOLEAN, raced => raced',
         raced' \/ keyIndex <= keyIndex',
         \A c \in Callers : caller'[c].at = "post" => caller[c].at = "post"
           /\ caller'[c].index = caller[c].index
  PROVE  KeysOK'
  <1> SUFFICES ASSUME ~raced' PROVE KeysOK'
    BY DEF KeysOK
  <1>1. keyIndex \in Nat /\ ~raced /\ keyIndex <= keyIndex'
    BY StoreBounds DEF StoreInv
  <1>2. \A i \in DOMAIN server : server[i].index \in Nat
    <2>1. \A i \in DOMAIN server : server[i] \in Swaps
      BY DEF StoreInv, ServerOK
    <2> QED
      BY <2>1, StoreBounds DEF Swaps
  <1>3. \A c \in Callers : caller[c].index \in Nat
    BY StoreBounds DEF StoreInv, CallersOK, TaskOK, StoreTask
  <1> QED
    BY <1>1, <1>2, <1>3 DEF StoreInv, KeysOK, Does

\* A step that moves one call and leaves what is stored and the key index alone.
LEMMA CallerMoves ==
  ASSUME StoreInv, UNCHANGED <<backend, keyIndex, server, local, raced, kept>>,
         NEW c \in Callers, NEW t, caller' = [caller EXCEPT ![c] = t],
         caller'[c].at = "post" => caller[c].at = "post" /\ caller'[c].index = caller[c].index,
         TaskOK(caller[c])'
  PROVE  StoreInv'
  <1>1. Grows
    BY DEF Grows
  <1>2. CallersOK'
    BY <1>1, CallerSteps
  <1>3. \A d \in Callers : caller'[d].at = "post" => caller[d].at = "post"
          /\ caller'[d].index = caller[d].index
    BY DEF StoreInv, CallersOK
  <1>4. KeysOK'
    BY <1>3, KeysLast, StoreBounds DEF StoreInv
  <1> QED
    BY <1>2, <1>4 DEF StoreInv, ServerOK, LocalOK, WrittenOutlives

\* A call that returned promises nothing.
LEMMA NoTaskOK == TaskOK(NoTask)' /\ NoTask.at = "idle"
  BY StoreBounds DEF NoTask, TaskOK, StoreTask, StoreSteps, Stored, Absent, Items, Refused

\* A call that returns leaves the others as they were.
LEMMA CallReturns ==
  ASSUME StoreInv, NEW c \in Callers, Returns(c), Grows
  PROVE  CallersOK'
  <1>1. caller' = [caller EXCEPT ![c] = NoTask] /\ caller'[c] = NoTask
    BY DEF Returns, Becomes, StoreInv, CallersOK
  <1> HIDE DEF NoTask
  <1>2. TaskOK(caller[c])'
    BY <1>1, NoTaskOK DEF TaskOK
  <1> QED
    BY <1>1, <1>2, CallerSteps

\* What a swap of the wallet is stored as has the keys of the server's swap.
LEMMA PutKeeps ==
  ASSUME StoreInv, NEW id \in DOMAIN server, NEW entry \in Stored, NEW read \in Stored,
           NEW items \in SUBSET Items,
         entry.index = server[id].index, Put(id, entry, read), UNCHANGED <<backend, server>>,
         entry.holds \subseteq Items,
         read.holds \ {"recipient"} \subseteq entry.holds, items \ {"recipient"} \subseteq entry.holds,
         kept' = [kept EXCEPT ![id] = @ \cup items]
  PROVE  LocalOK' /\ Grows /\ raced' \in BOOLEAN /\ (raced => raced')
  <1>a. DOMAIN server \subseteq SwapIds /\ server[id] \in Swaps
    BY StoreBounds DEF StoreInv, ServerOK, SwapIds
  <1>b. server[id].index \in 0..(MaxIndex - 1)
    BY <1>a DEF Swaps
  <1>1. Columns(entry) \in Stored /\ Columns(entry).index = entry.index
          /\ Columns(entry).holds \subseteq entry.holds
        /\ entry.holds \ {"recipient"} \subseteq Columns(entry).holds
    BY DEF Columns, Stored
  <1>2. Columns(entry) # Absent
    BY <1>b, <1>1, StoreBounds DEF Absent
  <1> DEFINE new == Columns(entry)
  <1>3. local' = [local EXCEPT ![id] = new] /\ raced' = (raced \/ local[id].holds # read.holds)
    BY DEF Put
  <1> HIDE DEF new
  <1>4. local' \in [SwapIds -> Stored] /\ local'[id] = new
        /\ \A j \in SwapIds \ {id} : local'[j] = local[j]
    BY <1>a, <1>1, <1>3 DEF StoreInv, LocalOK, new
  <1>5. kept' \in [SwapIds -> SUBSET Items] /\ kept'[id] = kept[id] \cup items
        /\ \A j \in SwapIds \ {id} : kept'[j] = kept[j]
    BY <1>a DEF StoreInv, LocalOK
  <1>6. raced' \/ kept'[id] \ {"recipient"} \subseteq local'[id].holds
    <2> SUFFICES ASSUME ~raced' PROVE kept'[id] \ {"recipient"} \subseteq local'[id].holds
      OBVIOUS
    <2>1. ~raced /\ local[id].holds = read.holds
      BY <1>3 DEF StoreInv
    <2>2. kept[id] \ {"recipient"} \subseteq read.holds
      BY <1>a, <2>1 DEF StoreInv, LocalOK, WrittenOutlives
    <2> QED
      BY <1>1, <1>4, <1>5, <2>2 DEF new
  <1>7. WrittenOutlives'
    <2> SUFFICES ASSUME ~raced',
          NEW j \in SwapIds PROVE kept'[j] \ {"recipient"} \subseteq local'[j].holds
      BY DEF WrittenOutlives
    <2>1. ~raced
      BY <1>3
    <2> QED
      BY <1>4, <1>5, <1>6, <2>1 DEF StoreInv, LocalOK, WrittenOutlives
  <1>8. \A j \in SwapIds : local'[j] # Absent => j \in DOMAIN server /\ local'[j].index = server[j].index
    BY <1>1, <1>4 DEF StoreInv, LocalOK, new
  <1>9. Grows
    BY <1>1, <1>2, <1>4 DEF Grows, new
  <1>10. raced' \in BOOLEAN /\ (raced => raced')
    BY <1>3
  <1> QED
    BY <1>4, <1>5, <1>7, <1>8, <1>9, <1>10 DEF LocalOK

\* The highest index is an index of the server's, or -1, and no swap of the server is
\* above it.
LEMMA HighestOfAll ==
  ASSUME StoreInv
  PROVE  Highest \in -1..(MaxIndex - 1) /\ \A i \in DOMAIN server : server[i].index <= Highest
  <1> DEFINE S == {server[i].index : i \in DOMAIN server} \cup {-1}
             gaps == {n \in Nat : \E x \in S : n = MaxIndex - x}
  <1>1. S \subseteq -1..(MaxIndex - 1) /\ -1 \in S
    <2>1. \A i \in DOMAIN server : server[i] \in Swaps
      BY DEF StoreInv, ServerOK
    <2> QED
      BY <2>1, StoreBounds DEF Swaps
  <1> HIDE DEF S
  <1>2. PICK n \in gaps : \A m \in gaps : n <= m
    <2>1. MaxIndex - (-1) \in gaps
      BY <1>1, StoreBounds
    <2> HIDE DEF gaps
    <2>2. gaps # {} /\ gaps \subseteq Nat
      BY <2>1 DEF gaps
    <2>3. PICK n \in gaps : \A m \in gaps : <<m, n>> \notin OpToRel(<, Nat)
      BY <2>2, NatLessThanWellFounded, WFMin
    <2>4. ASSUME NEW m \in gaps, m < n PROVE FALSE
      <3>1. <<m, n>> \in OpToRel(<, Nat)
        BY <2>2, <2>4 DEF OpToRel
      <3> QED
        BY <2>3, <3>1
    <2>5. \A m \in gaps : n <= m
      BY <2>2, <2>4
    <2> QED
      BY <2>5
  <1>3. PICK x \in S : n = MaxIndex - x
    BY <1>2
  <1>4. \A y \in S : x >= y
    <2> SUFFICES ASSUME NEW y \in S PROVE x >= y
      OBVIOUS
    <2>1. MaxIndex - y \in gaps
      BY <1>1, StoreBounds
    <2> QED
      BY <1>1, <1>2, <1>3, <2>1, StoreBounds
  <1>5. Highest \in S /\ \A y \in S : Highest >= y
    BY <1>4 DEF Highest, Max, S
  <1> QED
    BY <1>1, <1>5, StoreBounds DEF S

\* A created swap gives the client only what it can store.
LEMMA SwapsGive ==
  ASSUME NEW r \in SwapRequest
  PROVE  CreateSwapFor(r) \in [hash : {"own", "invoice", "none"}, gives : SUBSET Items]
  <1>1. ASSUME NEW h \in {"own", "invoice", "none"}, NEW gives \in SUBSET Items
        PROVE  [hash |-> h, gives |-> gives] \in [hash : {"own", "invoice", "none"}, gives : SUBSET Items]
    OBVIOUS
  <1>2. Recipient(r) \in SUBSET Items /\ {} \in SUBSET Items /\ {"terms"} \in SUBSET Items
        /\ {"terms", "payment"} \in SUBSET Items
    BY DEF Recipient, Items
  <1> DEFINE Made == [hash : {"own", "invoice", "none"}, gives : SUBSET Items]
  <1>3. /\ Refused \in Made /\ UnderOwnHash(Recipient(r)) \in Made /\ UnderOwnHash({}) \in Made
        /\ UnderOwnHash({"terms"}) \in Made /\ UnderInvoiceHash({}) \in Made
        /\ UnderInvoiceHash({"terms", "payment"}) \in Made
    BY <1>1, <1>2 DEF Refused, UnderOwnHash, UnderInvoiceHash
  <1> HIDE DEF Made
  <1>4. CreateSwapFor(r) \in
          {Refused, CreateArkadeToEvm(r), CreateArkadeToLightning(r), CreateBitcoinToLightning(r),
           CreateLightningToArkade(r), CreateLightningToBitcoin(r), CreateLightningToEvm(r),
           CreateBitcoinToEvm(r), CreateBitcoinToArkade(r), CreateEvmToLightning(r),
           CreateEvmToArkade(r), CreateEvmToBitcoin(r)}
    BY DEF CreateSwapFor
  <1>5. /\ CreateArkadeToEvm(r) \in Made /\ CreateArkadeToLightning(r) \in Made
        /\ CreateBitcoinToLightning(r) \in Made /\ CreateLightningToArkade(r) \in Made
        /\ CreateLightningToBitcoin(r) \in Made /\ CreateLightningToEvm(r) \in Made
        /\ CreateBitcoinToEvm(r) \in Made /\ CreateBitcoinToArkade(r) \in Made
        /\ CreateEvmToLightning(r) \in Made /\ CreateEvmToArkade(r) \in Made
        /\ CreateEvmToBitcoin(r) \in Made
    BY <1>3 DEF CreateArkadeToEvm, CreateArkadeToLightning, CreateBitcoinToLightning,
                CreateLightningToArkade, CreateLightningToBitcoin, CreateLightningToEvm,
                CreateBitcoinToEvm, CreateBitcoinToArkade, CreateEvmToLightning,
                CreateEvmToArkade, CreateEvmToBitcoin
  <1> QED
    BY <1>3, <1>4, <1>5 DEF Made

\* What a scan leaves the call to do covers its window.
LEMMA ScanCovers ==
  ASSUME StoreInv, NEW c \in Callers, NEW start \in Int, Scan(c, start),
         \A i \in DOMAIN server : server[i].prior /\ server[i].index < start => local[i] # Absent,
         UNCHANGED <<backend, keyIndex, server, local, raced, kept>>
  PROVE  StoreInv'
  <1>a. Highest \in -1..(MaxIndex - 1) /\ \A i \in DOMAIN server : server[i].index <= Highest
    BY HighestOfAll
  <1>b. \A i \in DOMAIN server : server[i] \in Swaps /\ i \in Nat
    BY DEF StoreInv, ServerOK
  <1> DEFINE until == start + Window - 1
             found == {i \in DOMAIN server : server[i].index \in start..until}
             done == until >= Highest
             next == caller'[c]
  <1>1. /\ caller' = [caller EXCEPT ![c] = next]
        /\ next = [NoTask EXCEPT !.at = "next", !.todo = {0} \cup found, !.until = until,
                                 !.next = Highest + 1, !.complete = done]
    BY DEF Scan, Becomes, StoreInv, CallersOK
  <1>2. until \in Int /\ found \subseteq DOMAIN server /\ found \subseteq Nat
    BY <1>b, StoreBounds
  <1>3. \A i \in DOMAIN server : server[i].index \in Int
    BY <1>b, StoreBounds DEF Swaps
  <1>4. \A i \in DOMAIN server : server[i].prior /\ server[i].index <= until => local[i] # Absent
          \/ i \in found
    BY <1>2, <1>3
  <1>5. done => \A i \in DOMAIN server : server[i].prior => server[i].index <= until
    BY <1>a, <1>2, <1>3, StoreBounds
  <1>6. /\ Absent \in Stored /\ Refused \in [hash : {"own", "invoice", "none"}, gives : SUBSET Items]
        /\ done \in BOOLEAN
    BY StoreBounds DEF Absent, Stored, Refused
  <1>7. Highest + 1 \in 0..MaxIndex /\ 0 \in 0..(MaxIndex - 1) /\ 0 \in 0..MaxIndex
    BY <1>a, StoreBounds
  <1> HIDE DEF until, found, done
  <1>8. next = [at |-> "next", id |-> 0, index |-> 0, seen |-> 0, read |-> Absent, tries |-> 0,
                swap |-> Refused, todo |-> {0} \cup found, until |-> until, next |-> Highest + 1,
                complete |-> done]
    BY <1>1 DEF NoTask
  <1>9. next \in StoreTask
    BY <1>2, <1>6, <1>7, <1>8 DEF StoreTask, StoreSteps
  <1>10. TaskOK(caller[c])'
    <2>1. next \in StoreTask /\ next.at = "next" /\ next.todo = {0} \cup found
          /\ next.until = until /\ next.complete = done
      BY <1>8, <1>9
    <2> QED
      BY <1>2, <1>4, <1>5, <2>1 DEF TaskOK
  <1>11. caller'[c].at # "post"
    BY <1>8
  <1> QED
    BY <1>1, <1>10, <1>11, CallerMoves

\* A step that moves one call and raises the key index, or overlaps another that did.
LEMMA IndexMoves ==
  ASSUME StoreInv, UNCHANGED <<backend, server, local, kept>>, keyIndex' \in 0..MaxIndex,
         raced' \in BOOLEAN, raced => raced', raced' \/ keyIndex <= keyIndex',
         NEW c \in Callers, NEW t, caller' = [caller EXCEPT ![c] = t],
         caller'[c].at # "post", TaskOK(caller[c])'
  PROVE  StoreInv'
  <1>1. Grows
    BY DEF Grows
  <1>2. CallersOK'
    BY <1>1, CallerSteps
  <1>3. \A d \in Callers : caller'[d].at = "post" => caller[d].at = "post"
          /\ caller'[d].index = caller[d].index
    BY DEF StoreInv, CallersOK
  <1>4. KeysOK'
    BY <1>3, KeysLast, StoreBounds
  <1>5. WrittenOutlives'
    BY DEF WrittenOutlives, StoreInv, LocalOK
  <1> QED
    BY <1>2, <1>4, <1>5 DEF StoreInv, ServerOK, LocalOK

\* A call that is given the key index as it stands, which rises past it.
LEMMA IndexGiven ==
  ASSUME StoreInv, UNCHANGED <<backend, server, local, kept>>, keyIndex' \in 0..MaxIndex,
         raced' \in BOOLEAN, raced => raced', NEW c \in Callers,
           NEW t, caller' = [caller EXCEPT ![c] = t],
         TaskOK(caller[c])', caller[c].at # "post",
         raced' \/ (caller'[c].index = keyIndex /\ keyIndex' = keyIndex + 1)
  PROVE  StoreInv'
  <1>1. Grows
    BY DEF Grows
  <1>2. CallersOK'
    BY <1>1, CallerSteps
  <1>3. \A d \in Callers \ {c} : caller'[d] = caller[d]
    BY DEF StoreInv, CallersOK
  <1>4. KeysOK'
    <2> SUFFICES ASSUME ~raced' PROVE KeysOK'
      BY DEF KeysOK
    <2>1. ~raced /\ caller'[c].index = keyIndex /\ keyIndex' = keyIndex + 1 /\ keyIndex \in Nat
      BY StoreBounds DEF StoreInv
    <2>2. \A i \in DOMAIN server : server[i].index \in Nat
      <3>1. \A i \in DOMAIN server : server[i] \in Swaps
        BY DEF StoreInv, ServerOK
      <3> QED
        BY <3>1, StoreBounds DEF Swaps
    <2>3. \A d \in Callers : caller[d].index \in Nat
      BY StoreBounds DEF StoreInv, CallersOK, TaskOK, StoreTask
    <2>4. \A i \in DOMAIN server : server[i].prior \/ server[i].index < keyIndex
      BY <2>1 DEF StoreInv, KeysOK
    <2>5. \A d \in Callers \ {c} : caller'[d].at = "post" =>
             /\ caller'[d].index = caller[d].index /\ caller[d].index < keyIndex
             /\ \A i \in DOMAIN server : server[i].index = caller[d].index => server[i].prior
      BY <1>3, <2>1 DEF StoreInv, KeysOK, Does
    <2>6. \A d, e \in Callers \ {c} :
             caller'[d].at = "post" /\ caller'[e].at = "post" /\ caller'[d].index = caller'[e].index =>
               d = e
      BY <1>3, <2>1 DEF StoreInv, KeysOK, Does
    <2>7. \A d, e \in Callers :
             caller'[d].at = "post" /\ caller'[e].at = "post" /\ caller'[d].index = caller'[e].index =>
               d = e
      BY <2>1, <2>3, <2>5, <2>6
    <2> QED
      BY <2>1, <2>2, <2>3, <2>4, <2>5, <2>7 DEF KeysOK, Does
  <1>5. WrittenOutlives'
    BY DEF WrittenOutlives, StoreInv, LocalOK
  <1> QED
    BY <1>2, <1>4, <1>5 DEF StoreInv, ServerOK, LocalOK

\* Every step of the store keeps the invariant.
LEMMA StoreStep == StoreInv /\ [StoreNext]_storeVars => StoreInv'
  <1> SUFFICES ASSUME StoreInv, [StoreNext]_storeVars PROVE StoreInv'
    OBVIOUS
  <1>a. \A c \in Callers : TaskOK(caller[c]) /\ caller[c] \in StoreTask
    BY DEF StoreInv, CallersOK, TaskOK
  <1>b. /\ DOMAIN server = 1..Len(server) /\ Len(server) \in Nat /\ DOMAIN server \subseteq SwapIds
        /\ \A i \in DOMAIN server : server[i] \in Swaps
    BY StoreBounds DEF StoreInv, ServerOK, SwapIds
  <1>c. \A c \in Callers : \A t : Becomes(c, t) => caller' = [caller EXCEPT ![c] = t] /\ caller'[c] = t
    BY DEF Becomes, StoreInv, CallersOK
  <1>d. Absent \in Stored /\ Refused \in [hash : {"own", "invoice", "none"}, gives : SUBSET Items]
    BY StoreBounds DEF Absent, Stored, Refused
  \* A call that ends with nothing else done.
  <1>e. ASSUME NEW c \in Callers, Returns(c), UNCHANGED <<backend, keyIndex, server, local, raced, kept>>
        PROVE  StoreInv'
    <2>1. caller' = [caller EXCEPT ![c] = NoTask] /\ caller'[c] = NoTask
      BY <1>c, <1>e DEF Returns
    <2> HIDE DEF NoTask
    <2>2. TaskOK(caller[c])' /\ caller'[c].at # "post"
      BY <2>1, NoTaskOK DEF TaskOK
    <2> QED
      BY <1>e, <2>1, <2>2, CallerMoves
  <1>1. ASSUME NEW c \in Callers, CreateSwap(c) PROVE StoreInv'
    <2>1. PICK r \in Requests : Becomes(c, [NoTask EXCEPT !.at = "derive", !.swap = CreateSwapFor(r)])
      BY <1>1 DEF CreateSwap
    <2> DEFINE made == CreateSwapFor(r)
    <2>2. made \in [hash : {"own", "invoice", "none"}, gives : SUBSET Items]
      BY StoreAssumption, SwapsGive
    <2> HIDE DEF made
    <2>3. /\ caller' = [caller EXCEPT ![c] = caller'[c]]
          /\ caller'[c] = [NoTask EXCEPT !.at = "derive", !.swap = made]
      BY <1>c, <2>1 DEF made
    <2>4. caller'[c] = [at |-> "derive", id |-> 0, index |-> 0, seen |-> 0, read |-> Absent, tries |-> 0,
                        swap |-> made, todo |-> {}, until |-> -1, next |-> 0, complete |-> FALSE]
      BY <2>3 DEF NoTask
    <2>5. TaskOK(caller[c])'
      BY <1>d, <2>2, <2>4, StoreBounds DEF TaskOK, StoreTask, StoreSteps
    <2> QED
      BY <1>1, <2>3, <2>4, <2>5, CallerMoves DEF CreateSwap
  <1>2. ASSUME NEW c \in Callers, IncrementKeyIndex(c) PROVE StoreInv'
    <2>0. /\ caller[c].at = "derive" /\ keyIndex < MaxIndex
               /\ UNCHANGED <<backend, server, local, raced, kept>>
          /\ TaskOK(caller[c]) /\ caller[c] \in StoreTask /\ keyIndex \in 0..MaxIndex
      BY <1>2, <1>a DEF IncrementKeyIndex, Does, StoreInv
    <2>1. CASE backend = "sqlite"
      <3>1. /\ caller' = [caller EXCEPT ![c] = caller'[c]] /\ UNCHANGED keyIndex
            /\ caller'[c] = [caller[c] EXCEPT !.at = "increment", !.seen = keyIndex]
        BY <1>2, <1>c, <2>1 DEF IncrementKeyIndex
      <3>2. TaskOK(caller[c])' /\ caller'[c].at = "increment"
        BY <2>0, <3>1 DEF TaskOK, StoreTask, StoreSteps
      <3> QED
        BY <2>0, <3>1, <3>2, CallerMoves
    <2>2. CASE backend # "sqlite"
      <3>1. /\ caller' = [caller EXCEPT ![c] = caller'[c]] /\ keyIndex' = keyIndex + 1
            /\ caller'[c] = [caller[c] EXCEPT !.at = "post", !.index = keyIndex]
        BY <1>2, <1>c, <2>2 DEF IncrementKeyIndex
      <3>2. keyIndex \in 0..(MaxIndex - 1) /\ keyIndex' \in 0..MaxIndex
        BY <2>0, <3>1, StoreBounds
      <3>3. TaskOK(caller[c])' /\ caller'[c].index = keyIndex
        BY <2>0, <3>1, <3>2 DEF TaskOK, StoreTask, StoreSteps
      <3> QED
        BY <2>0, <3>1, <3>2, <3>3, IndexGiven DEF StoreInv
    <2> QED
      BY <2>1, <2>2
  <1>3. ASSUME NEW c \in Callers, WriteIncrement(c) PROVE StoreInv'
    <2>0. /\ caller[c].at = "increment" /\ UNCHANGED <<backend, server, local, kept>>
          /\ TaskOK(caller[c]) /\ caller[c] \in StoreTask /\ keyIndex \in 0..MaxIndex
          /\ keyIndex' = caller[c].seen + 1 /\ raced' = (raced \/ keyIndex # caller[c].seen)
      BY <1>3, <1>a DEF WriteIncrement, Does, StoreInv, SetKeyIndex
    <2>1. /\ caller' = [caller EXCEPT ![c] = caller'[c]]
          /\ caller'[c] = [caller[c] EXCEPT !.at = "post", !.index = caller[c].seen, !.seen = 0]
      BY <1>3, <1>c DEF WriteIncrement
    <2>2. caller[c].seen \in 0..(MaxIndex - 1) /\ keyIndex' \in 0..MaxIndex /\ 0 \in 0..MaxIndex
      BY <2>0, StoreBounds DEF TaskOK, StoreTask
    <2>3. TaskOK(caller[c])' /\ caller'[c].index = caller[c].seen
      BY <2>0, <2>1, <2>2 DEF TaskOK, StoreTask, StoreSteps
    <2>4. raced' \in BOOLEAN /\ (raced => raced') /\ (raced' \/ keyIndex = caller[c].seen)
      BY <2>0
    <2> QED
      BY <2>0, <2>1, <2>2, <2>3, <2>4, IndexGiven
  <1>4. ASSUME NEW c \in Callers, CollisionRetried(c) PROVE StoreInv'
    <2>1. /\ caller[c].at = "post" /\ TaskOK(caller[c]) /\ caller[c] \in StoreTask
          /\ caller' = [caller EXCEPT ![c] = caller'[c]]
          /\ caller'[c] = [caller[c] EXCEPT !.at = "skip", !.tries = @ + 1, !.index = 0]
      BY <1>4, <1>a, <1>c DEF CollisionRetried, Does
    <2>2. 0 \in 0..(MaxIndex - 1) /\ caller[c].tries + 1 \in Nat
      BY <2>1, StoreBounds DEF StoreTask
    <2>3. caller'[c] \in StoreTask
      BY <2>1, <2>2 DEF StoreTask, StoreSteps
    <2>4. TaskOK(caller[c])' /\ caller'[c].at = "skip"
      <3>1. caller'[c].at = "skip" /\ caller'[c].todo = caller[c].todo
        BY <2>1 DEF StoreTask
      <3> QED
        BY <2>1, <2>3, <3>1 DEF TaskOK
    <2> QED
      BY <1>4, <2>1, <2>4, CallerMoves DEF CollisionRetried
  <1>5. ASSUME NEW c \in Callers, SkipReads(c) PROVE StoreInv'
    <2>1. /\ caller[c].at = "skip" /\ TaskOK(caller[c]) /\ caller[c] \in StoreTask
               /\ keyIndex \in 0..MaxIndex
          /\ caller' = [caller EXCEPT ![c] = caller'[c]]
          /\ caller'[c] = [caller[c] EXCEPT !.at = "skipSet", !.seen = keyIndex]
      BY <1>5, <1>a, <1>c DEF SkipReads, Does, StoreInv
    <2>2. TaskOK(caller[c])' /\ caller'[c].at = "skipSet"
      BY <2>1 DEF TaskOK, StoreTask, StoreSteps
    <2> QED
      BY <1>5, <2>1, <2>2, CallerMoves DEF SkipReads
  <1>6. ASSUME NEW c \in Callers, SkipSets(c) PROVE StoreInv'
    <2>0. /\ caller[c].at = "skipSet" /\ UNCHANGED <<backend, server, local, kept>>
          /\ TaskOK(caller[c]) /\ caller[c] \in StoreTask /\ keyIndex \in 0..MaxIndex
          /\ caller[c].seen + SkipCount <= MaxIndex
          /\ keyIndex' = caller[c].seen + SkipCount /\ raced' = (raced \/ keyIndex # caller[c].seen)
      BY <1>6, <1>a DEF SkipSets, Does, StoreInv, SetKeyIndex
    <2>1. caller[c].seen \in 0..MaxIndex /\ keyIndex' \in 0..MaxIndex /\ 0 \in 0..MaxIndex
      BY <2>0, StoreBounds DEF StoreTask
    <2>2. raced' \in BOOLEAN /\ (raced => raced') /\ (raced' \/ keyIndex <= keyIndex')
      <3>1. caller[c].seen <= keyIndex'
        BY <2>0, <2>1, StoreBounds
      <3> QED
        BY <2>0, <3>1
    <2>3. CASE Becomes(c, [caller[c] EXCEPT !.at = "derive", !.seen = 0])
      <3>1. /\ caller' = [caller EXCEPT ![c] = caller'[c]]
            /\ caller'[c] = [caller[c] EXCEPT !.at = "derive", !.seen = 0]
        BY <1>c, <2>3
      <3>2. TaskOK(caller[c])' /\ caller'[c].at = "derive"
        BY <2>0, <2>1, <3>1 DEF TaskOK, StoreTask, StoreSteps
      <3> QED
        BY <2>0, <2>1, <2>2, <3>1, <3>2, IndexMoves
    <2>4. CASE Returns(c)
      <3>1. caller' = [caller EXCEPT ![c] = NoTask] /\ caller'[c] = NoTask
        BY <1>c, <2>4 DEF Returns
      <3> HIDE DEF NoTask
      <3>2. TaskOK(caller[c])' /\ caller'[c].at # "post"
        BY <3>1, NoTaskOK DEF TaskOK
      <3> QED
        BY <2>0, <2>1, <2>2, <3>1, <3>2, IndexMoves
    <2> QED
      BY <1>6, <2>3, <2>4 DEF SkipSets
  <1>7. ASSUME NEW c \in Callers, Post(c) PROVE StoreInv'
    <2> DEFINE new == [index |-> caller[c].index, prior |-> FALSE,
          ownHash |-> caller[c].swap.hash = "own"]
    <2>0. /\ caller[c].at = "post" /\ TaskOK(caller[c]) /\ caller[c] \in StoreTask
          /\ server' = Append(server, new) /\ Len(server) < MaxSwaps
          /\ UNCHANGED <<backend, keyIndex, local, raced, kept>>
      BY <1>7, <1>a DEF Post, Does
    <2>1. caller[c].index \in 0..(MaxIndex - 1) /\ caller[c].todo = {}
      BY <2>0 DEF TaskOK, StoreTask
    <2>2. new \in Swaps /\ new.index = caller[c].index /\ ~new.prior
      BY <2>1 DEF Swaps
    <2> HIDE DEF new
    <2>3. /\ server' \in Seq(Swaps) /\ Len(server') = Len(server) + 1
          /\ \A i \in DOMAIN server : server'[i] = server[i]
          /\ \A i : i = Len(server) + 1 => server'[i] = new
          /\ \A i \in DOMAIN server' : i \in DOMAIN server \/ i = Len(server) + 1
          /\ DOMAIN server \subseteq DOMAIN server' /\ \A i : i = Len(server) + 1 => i \in DOMAIN server'
      BY <2>0, <2>2 DEF StoreInv, ServerOK
    <2>4. ServerOK' /\ Grows
      <3>1. Len(server) + 1 <= MaxSwaps
        BY <1>b, <2>0, StoreBounds
      <3> QED
        BY <2>0, <2>2, <2>3, <3>1 DEF ServerOK, Grows
    <2>5. CallersOK' /\ caller'[c].at # "post" /\ \A d \in Callers \ {c} : caller'[d] = caller[d]
      <3>1. CASE Returns(c)
        <4>1. caller' = [caller EXCEPT ![c] = NoTask] /\ caller'[c] = NoTask
          BY <1>c, <3>1 DEF Returns
        <4>2. caller'[c].at # "post" /\ \A d \in Callers \ {c} : caller'[d] = caller[d]
          BY <4>1, NoTaskOK DEF StoreInv, CallersOK
        <4> QED
          BY <2>4, <3>1, <4>2, CallReturns
      <3>2. ASSUME NEW without \in SUBSET (StoreFaults \cap {"terms"}),
                   Becomes(c, [caller[c] EXCEPT !.at = "get", !.id = Len(server) + 1,
                                                !.swap.gives = @ \ without])
            PROVE  CallersOK' /\ caller'[c].at # "post" /\ \A d \in Callers \ {c} : caller'[d] = caller[d]
        <4> DEFINE entry == [caller[c].swap EXCEPT !.gives = @ \ without]
        <4>1. /\ caller' = [caller EXCEPT ![c] = caller'[c]]
              /\ caller'[c] = [caller[c] EXCEPT !.at = "get", !.id = Len(server) + 1,
                                                !.swap.gives = @ \ without]
          BY <1>c, <3>2
        <4>2. caller'[c] = [caller[c] EXCEPT !.at = "get", !.id = Len(server) + 1, !.swap = entry]
          BY <2>0, <4>1 DEF StoreTask
        <4>3. entry \in [hash : {"own", "invoice", "none"}, gives : SUBSET Items]
          BY <2>0 DEF StoreTask
        <4> HIDE DEF entry
        <4>4. Len(server) + 1 \in Nat
          BY <1>b
        <4>5. caller'[c] \in StoreTask
          BY <2>0, <4>2, <4>3, <4>4 DEF StoreTask, StoreSteps
        <4>6. /\ caller'[c].at = "get" /\ caller'[c].id = Len(server) + 1 /\ caller'[c].todo = {}
              /\ caller'[c].index = caller[c].index
          BY <2>0, <2>1, <4>2 DEF StoreTask
        <4>7. TaskOK(caller[c])'
          BY <2>2, <2>3, <4>5, <4>6 DEF TaskOK
        <4>8. \A d \in Callers \ {c} : caller'[d] = caller[d]
          BY <4>1 DEF StoreInv, CallersOK
        <4> QED
          BY <2>4, <4>1, <4>6, <4>7, <4>8, CallerSteps
      <3> QED
        BY <1>7, <3>1, <3>2 DEF Post
    <2>6. KeysOK'
      <3> SUFFICES ASSUME ~raced PROVE KeysOK'
        BY <2>0 DEF KeysOK
      <3>1. caller[c].index < keyIndex
        BY <2>0 DEF StoreInv, KeysOK, Does
      <3>2. \A i \in DOMAIN server' : server'[i].prior \/ server'[i].index < keyIndex
        BY <2>2, <2>3, <3>1 DEF StoreInv, KeysOK
      <3>3. ASSUME NEW d \in Callers, caller'[d].at = "post"
            PROVE  /\ d # c /\ caller'[d] = caller[d] /\ caller[d].index < keyIndex
                   /\ caller[d].index # caller[c].index
                   /\ \A i \in DOMAIN server : server[i].index = caller[d].index => server[i].prior
        BY <2>0, <2>5, <3>3 DEF StoreInv, KeysOK, Does
      <3>4. ASSUME NEW d \in Callers, caller'[d].at = "post", NEW i \in DOMAIN server',
                   server'[i].index = caller'[d].index
            PROVE  server'[i].prior
        <4>1. CASE i \in DOMAIN server
          BY <2>3, <3>3, <3>4, <4>1
        <4>2. CASE i = Len(server) + 1
          BY <2>2, <2>3, <3>3, <3>4, <4>2
        <4> QED
          BY <2>3, <4>1, <4>2
      <3>5. \A d, e \in Callers :
               caller'[d].at = "post" /\ caller'[e].at = "post"
                 /\ caller'[d].index = caller'[e].index => d = e
        BY <3>3 DEF StoreInv, KeysOK, Does
      <3> QED
        BY <2>0, <3>2, <3>3, <3>4, <3>5 DEF KeysOK, Does
    <2>7. LocalOK'
      BY <2>0, <2>3 DEF StoreInv, LocalOK, WrittenOutlives
    <2> QED
      BY <2>0, <2>4, <2>5, <2>6, <2>7 DEF StoreInv
  <1>8. ASSUME NEW c \in Callers, GetExisting(c) PROVE StoreInv'
    <2>1. /\ caller[c].at = "get" /\ TaskOK(caller[c]) /\ caller[c] \in StoreTask
          /\ caller' = [caller EXCEPT ![c] = caller'[c]]
          /\ caller'[c] = [caller[c] EXCEPT !.at = "store", !.read = local[caller[c].id]]
      BY <1>8, <1>a, <1>c DEF GetExisting, Does
    <2>2. local[caller[c].id] \in Stored
      BY <1>b, <2>1 DEF TaskOK, StoreInv, LocalOK
    <2>3. TaskOK(caller[c])' /\ caller'[c].at = "store"
      BY <1>8, <2>1, <2>2 DEF TaskOK, StoreTask, StoreSteps, GetExisting
    <2> QED
      BY <1>8, <2>1, <2>3, CallerMoves DEF GetExisting
  <1>9. ASSUME NEW c \in Callers, StoreSwap(c) PROVE StoreInv'
    <2> DEFINE id == caller[c].id
               read == caller[c].read
               entry == StoredSwap(c)
               items == IF Recovering(c) THEN {} ELSE caller[c].swap.gives
    <2>0. /\ caller[c].at = "store" /\ TaskOK(caller[c]) /\ caller[c] \in StoreTask
          /\ Put(id, entry, read) /\ UNCHANGED <<backend, keyIndex, server>>
      BY <1>9, <1>a DEF StoreSwap, Does
    <2>1. /\ id \in DOMAIN server /\ id \in SwapIds /\ caller[c].index = server[id].index
          /\ caller[c].index \in 0..(MaxIndex - 1) /\ read \in Stored /\ items \in SUBSET Items
      BY <1>b, <2>0 DEF TaskOK, StoreTask
    <2>2. entry = [index |-> caller[c].index, holds |-> (read.holds \ {"recipient"}) \cup items]
      BY DEF StoredSwap
    <2>3. /\ entry \in Stored /\ entry.index = server[id].index /\ entry.holds \subseteq Items
          /\ read.holds \ {"recipient"} \subseteq entry.holds /\ items \ {"recipient"} \subseteq entry.holds
      BY <2>1, <2>2, StoreBounds DEF Stored
    <2>4. kept' = [kept EXCEPT ![id] = @ \cup items]
      <3>1. CASE Recovering(c)
        <4>1. kept[id] \cup items = kept[id] /\ kept' = kept
          BY <1>9, <3>1 DEF StoreSwap
        <4> HIDE DEF id, items
        <4>2. [kept EXCEPT ![id] = kept[id]] = kept
          BY <2>1 DEF StoreInv, LocalOK
        <4> QED
          BY <4>1, <4>2
      <3>2. CASE ~Recovering(c)
        BY <1>9, <3>2 DEF StoreSwap, Keeps
      <3> QED
        BY <3>1, <3>2
    <2> HIDE DEF entry, items
    <2>5. LocalOK' /\ Grows /\ raced' \in BOOLEAN /\ (raced => raced')
      BY <2>0, <2>1, <2>3, <2>4, PutKeeps
    <2>6. /\ CallersOK'
          /\ \A d \in Callers : caller'[d].at = "post" => caller[d].at = "post"
               /\ caller'[d].index = caller[d].index
      <3>1. CASE Returns(c)
        <4>1. caller' = [caller EXCEPT ![c] = NoTask] /\ caller'[c] = NoTask
          BY <1>c, <3>1 DEF Returns
        <4> QED
          BY <2>5, <3>1, <4>1, NoTaskOK, CallReturns DEF StoreInv, CallersOK
      <3>2. CASE Becomes(c, [caller[c] EXCEPT !.at = "next", !.read = Absent]) /\ Recovering(c)
        <4>1. /\ caller' = [caller EXCEPT ![c] = caller'[c]]
              /\ caller'[c] = [caller[c] EXCEPT !.at = "next", !.read = Absent]
          BY <1>c, <3>2
        <4>2. caller'[c] \in StoreTask
          BY <1>d, <2>0, <4>1 DEF StoreTask, StoreSteps
        <4>3. /\ caller'[c].at = "next" /\ caller'[c].todo = caller[c].todo
              /\ caller'[c].until = caller[c].until /\ caller'[c].complete = caller[c].complete
          BY <2>0, <4>1 DEF StoreTask
        <4>4. local'[id] # Absent
          <5>1. Columns(entry).index = entry.index
            BY <2>3 DEF Columns, Stored
          <5>2. local' = [local EXCEPT ![id] = Columns(entry)]
            BY <2>0 DEF Put
          <5>3. local'[id].index = server[id].index
            BY <2>1, <2>3, <5>1, <5>2 DEF StoreInv, LocalOK
          <5> QED
            BY <2>1, <5>3, StoreBounds DEF Absent
        <4>5. \A i \in DOMAIN server : local[i] # Absent => local'[i] # Absent
          BY <1>b, <2>5 DEF Grows
        <4>6. TaskOK(caller[c])'
          BY <2>0, <2>1, <3>2, <4>2, <4>3, <4>4, <4>5 DEF TaskOK, Recovering
        <4> QED
          BY <2>5, <4>1, <4>3, <4>6, CallerSteps DEF StoreInv, CallersOK
      <3> QED
        BY <1>9, <3>1, <3>2 DEF StoreSwap
    <2>7. KeysOK'
      BY <2>0, <2>5, <2>6, KeysLast, StoreBounds DEF StoreInv
    <2> QED
      BY <2>0, <2>5, <2>6, <2>7 DEF StoreInv, ServerOK
  <1>10. ASSUME NEW c \in Callers, RecoverSwaps(c) PROVE StoreInv'
    <2>1. \A i \in DOMAIN server : ~(server[i].index < 0)
      BY <1>b, StoreBounds DEF Swaps
    <2> QED
      BY <1>10, <2>1, ScanCovers DEF RecoverSwaps
  <1>11. ASSUME NEW c \in Callers, NextRecovered(c) PROVE StoreInv'
    <2>1. PICK id \in caller[c].todo \ {0} :
             Becomes(c, [caller[c] EXCEPT !.at = "get", !.id = id, !.index = server[id].index,
                                          !.todo = @ \ {id}])
      BY <1>11 DEF NextRecovered
    <2>2. /\ caller[c].at = "next" /\ TaskOK(caller[c]) /\ caller[c] \in StoreTask
          /\ caller' = [caller EXCEPT ![c] = caller'[c]]
          /\ caller'[c] = [caller[c] EXCEPT !.at = "get", !.id = id, !.index = server[id].index,
                                            !.todo = @ \ {id}]
          /\ UNCHANGED <<backend, keyIndex, server, local, raced, kept>>
      BY <1>11, <1>a, <1>c, <2>1 DEF NextRecovered, Does
    <2>3. id \in DOMAIN server /\ id \in Nat /\ server[id].index \in 0..(MaxIndex - 1)
      BY <1>b, <2>1, <2>2 DEF TaskOK, Swaps
    <2>4. TaskOK(caller[c])' /\ caller'[c].at = "get"
      <3>1. caller'[c] \in StoreTask
        BY <2>2, <2>3 DEF StoreTask, StoreSteps
      <3>2. /\ caller'[c].at = "get" /\ caller'[c].id = id /\ caller'[c].index = server[id].index
            /\ caller'[c].todo = caller[c].todo \ {id} /\ caller'[c].until = caller[c].until
            /\ caller'[c].complete = caller[c].complete
        BY <2>2 DEF StoreTask
      <3> QED
        BY <2>1, <2>2, <2>3, <3>1, <3>2 DEF TaskOK
    <2> QED
      BY <2>2, <2>4, CallerMoves
  <1>12. ASSUME NEW c \in Callers, ReadKeyIndex(c) PROVE StoreInv'
    <2>1. /\ caller[c].at = "next" /\ TaskOK(caller[c]) /\ caller[c] \in StoreTask
               /\ keyIndex \in 0..MaxIndex
          /\ caller[c].todo = {0} /\ caller' = [caller EXCEPT ![c] = caller'[c]]
          /\ caller'[c] = [caller[c] EXCEPT !.at = "raise", !.seen = keyIndex, !.id = 0, !.index = 0]
          /\ UNCHANGED <<backend, keyIndex, server, local, raced, kept>>
      BY <1>12, <1>a, <1>c DEF ReadKeyIndex, Does, StoreInv
    <2>2. 0 \in 0..(MaxIndex - 1) /\ 0 \in Nat
      BY StoreBounds
    <2>3. caller'[c] \in StoreTask
      BY <2>1, <2>2 DEF StoreTask, StoreSteps
    <2>4. /\ caller'[c].at = "raise" /\ caller'[c].todo = {0} /\ caller'[c].until = caller[c].until
          /\ caller'[c].complete = caller[c].complete
      BY <2>1 DEF StoreTask
    <2>5. TaskOK(caller[c])'
      BY <2>1, <2>3, <2>4 DEF TaskOK
    <2> QED
      BY <2>1, <2>4, <2>5, CallerMoves
  <1>13. ASSUME NEW c \in Callers, RaiseKeyIndex(c) PROVE StoreInv'
    <2>0. /\ caller[c].at = "raise" /\ UNCHANGED <<backend, server, local, kept>>
          /\ TaskOK(caller[c]) /\ caller[c] \in StoreTask /\ keyIndex \in 0..MaxIndex
          /\ caller' = [caller EXCEPT ![c] = caller'[c]]
          /\ caller'[c] = [caller[c] EXCEPT !.at = "scanned", !.seen = 0, !.next = 0]
      BY <1>13, <1>a, <1>c DEF RaiseKeyIndex, Does, StoreInv
    <2>1. caller[c].seen \in 0..MaxIndex /\ caller[c].next \in 0..MaxIndex /\ 0 \in 0..MaxIndex
      BY <2>0, StoreBounds DEF StoreTask
    <2>2. /\ keyIndex' \in 0..MaxIndex /\ raced' \in BOOLEAN /\ (raced => raced')
          /\ raced' \/ keyIndex <= keyIndex'
      <3>1. raced \in BOOLEAN
        BY DEF StoreInv
      <3>2. CASE caller[c].next > caller[c].seen
        <4>1. keyIndex' = caller[c].next /\ raced' = (raced \/ keyIndex # caller[c].seen)
          BY <1>13, <3>2 DEF RaiseKeyIndex, SetKeyIndex
        <4>2. caller[c].seen <= caller[c].next
          BY <2>1, <3>2
        <4> QED
          BY <2>1, <3>1, <4>1, <4>2
      <3>3. CASE ~(caller[c].next > caller[c].seen)
        <4>1. UNCHANGED <<keyIndex, raced>>
          BY <1>13, <3>3 DEF RaiseKeyIndex
        <4> QED
          BY <2>0, <3>1, <4>1
      <3> QED
        BY <3>2, <3>3
    <2>3. TaskOK(caller[c])' /\ caller'[c].at = "scanned"
      BY <2>0, <2>1 DEF TaskOK, StoreTask, StoreSteps
    <2> QED
      BY <2>0, <2>2, <2>3, IndexMoves
  <1>14. ASSUME NEW c \in Callers, Continue(c) PROVE StoreInv'
    <2>0. /\ caller[c].at = "scanned" /\ UNCHANGED <<backend, keyIndex, server, local, raced, kept>>
          /\ TaskOK(caller[c]) /\ caller[c] \in StoreTask
      BY <1>14, <1>a DEF Continue, Does
    <2>1. CASE Returns(c)
      BY <1>e, <2>0, <2>1
    <2>2. CASE Scan(c, caller[c].until + 1)
      <3>1. caller[c].until \in Int /\ caller[c].todo = {0}
        BY <2>0 DEF TaskOK, StoreTask
      <3>2. \A i \in DOMAIN server : server[i].index \in Int /\ i # 0
        BY <1>b, StoreBounds DEF Swaps
      <3>3. \A i \in DOMAIN server : server[i].prior /\ server[i].index < caller[c].until + 1 =>
              local[i] # Absent
        BY <2>0, <3>1, <3>2 DEF TaskOK
      <3> QED
        BY <2>0, <2>2, <3>1, <3>3, ScanCovers
    <2> QED
      BY <1>14, <2>1, <2>2 DEF Continue
  <1>15. ASSUME NEW c \in Callers, NEW id \in SwapIds, ReadToRecord(c, id) PROVE StoreInv'
    <2>1. /\ local[id] # Absent /\ local[id] \in Stored /\ id \in DOMAIN server
          /\ local[id].index = server[id].index /\ id \in Nat
      BY <1>15 DEF ReadToRecord, StoreInv, LocalOK, SwapIds
    <2>2. /\ caller' = [caller EXCEPT ![c] = caller'[c]]
          /\ caller'[c] = [NoTask EXCEPT !.at = "record", !.id = id, !.read = local[id]]
      BY <1>15, <1>c DEF ReadToRecord
    <2> DEFINE read == local[id]
    <2>3. caller'[c] = [at |-> "record", id |-> id, index |-> 0, seen |-> 0, read |-> read, tries |-> 0,
                        swap |-> Refused, todo |-> {}, until |-> -1, next |-> 0, complete |-> FALSE]
      BY <2>2 DEF NoTask
    <2>4. caller'[c] \in StoreTask
      BY <1>d, <2>1, <2>3, StoreBounds DEF StoreTask, StoreSteps
    <2>5. TaskOK(caller[c])'
      <3>1. /\ caller'[c].at = "record" /\ caller'[c].id = id /\ caller'[c].read = read
                 /\ caller'[c].todo = {}
        BY <2>3
      <3> QED
        BY <1>15, <2>1, <2>4, <3>1 DEF TaskOK, ReadToRecord
    <2> QED
      BY <1>15, <2>2, <2>3, <2>5, CallerMoves DEF ReadToRecord
  <1>16. ASSUME NEW c \in Callers, RecordFunding(c) PROVE StoreInv'
    <2> DEFINE id == caller[c].id
               read == caller[c].read
               entry == [read EXCEPT !.holds = @ \cup {"funding"}]
    <2>0. /\ caller[c].at = "record" /\ TaskOK(caller[c]) /\ caller[c] \in StoreTask
          /\ Put(id, entry, read) /\ UNCHANGED <<backend, keyIndex, server>> /\ Returns(c)
          /\ kept' = [kept EXCEPT ![id] = @ \cup {"funding"}]
      BY <1>16, <1>a DEF RecordFunding, Does, Keeps
    <2>1. /\ id \in DOMAIN server /\ read.index = server[id].index /\ read \in Stored
      BY <2>0 DEF TaskOK, StoreTask
    <2>2. /\ entry \in Stored /\ entry.index = server[id].index /\ entry.holds = read.holds \cup {"funding"}
          /\ read.holds \subseteq Items /\ {"funding"} \in SUBSET Items
      BY <2>1 DEF Stored, Items
    <2> HIDE DEF entry
    <2>3. LocalOK' /\ Grows /\ raced' \in BOOLEAN /\ (raced => raced')
      <3>1. /\ entry.holds \subseteq Items /\ read.holds \ {"recipient"} \subseteq entry.holds
            /\ {"funding"} \ {"recipient"} \subseteq entry.holds
        BY <2>2
      <3> QED
        BY <2>0, <2>1, <2>2, <3>1, PutKeeps
    <2>4. /\ CallersOK'
          /\ \A d \in Callers : caller'[d].at = "post" => caller[d].at = "post"
               /\ caller'[d].index = caller[d].index
      <3>1. caller' = [caller EXCEPT ![c] = NoTask] /\ caller'[c] = NoTask
        BY <1>c, <2>0 DEF Returns
      <3> QED
        BY <2>0, <2>3, <3>1, NoTaskOK, CallReturns DEF StoreInv, CallersOK
    <2>5. KeysOK'
      BY <2>0, <2>3, <2>4, KeysLast, StoreBounds DEF StoreInv
    <2> QED
      BY <2>0, <2>3, <2>4, <2>5 DEF StoreInv, ServerOK
  <1>17. ASSUME NEW c \in Callers, CallThrows(c) PROVE StoreInv'
    BY <1>17, <1>e DEF CallThrows
  <1>18. ASSUME NEW id \in SwapIds, DeleteSwap(id) PROVE StoreInv'
    <2>0. /\ local' = [local EXCEPT ![id] = Absent] /\ kept' = [kept EXCEPT ![id] = {}]
          /\ UNCHANGED <<backend, keyIndex, server, caller, raced>>
          /\ \A c \in Callers : ~Recovering(c)
      BY <1>18 DEF DeleteSwap
    <2>1. LocalOK'
      BY <1>d, <2>0 DEF StoreInv, LocalOK, WrittenOutlives, Absent
    <2>2. ASSUME NEW c \in Callers PROVE TaskOK(caller[c])'
      <3>1. TaskOK(caller[c]) /\ caller'[c] = caller[c] /\ caller[c].todo = {}
        BY <1>a, <2>0 DEF Recovering
      <3> DEFINE t == caller[c]
      <3>2. t' = t /\ TaskOK(t) /\ t.todo = {}
        BY <3>1
      <3> HIDE DEF t
      <3>3. TaskOK(t)'
        BY <2>0, <3>2 DEF TaskOK
      <3> QED
        BY <3>3 DEF t
    <2>3. CallersOK'
      BY <2>0, <2>2 DEF StoreInv, CallersOK
    <2>4. KeysOK'
      BY <2>0, KeysLast, StoreBounds DEF StoreInv
    <2> QED
      BY <2>0, <2>1, <2>3, <2>4 DEF StoreInv, ServerOK
  <1>19. CASE Restart
    <2>1. /\ caller' = [c \in Callers |-> NoTask] /\ \A c \in Callers : caller'[c] = NoTask
          /\ UNCHANGED <<backend, server>>
      BY <1>19 DEF Restart
    <2>2. CallersOK' /\ \A c \in Callers : caller'[c].at # "post"
      <3> HIDE DEF NoTask
      <3>1. \A c \in Callers : TaskOK(caller[c])'
        BY <2>1, NoTaskOK DEF TaskOK
      <3> QED
        BY <2>1, <3>1, NoTaskOK DEF CallersOK
    <2>3. CASE backend = "memory"
      <3>1. /\ keyIndex' = 0 /\ raced' /\ raced' = TRUE
            /\ local' = [id \in SwapIds |-> Absent] /\ kept' = [id \in SwapIds |-> {}]
        BY <1>19, <2>3 DEF Restart
      <3>2. LocalOK' /\ KeysOK' /\ keyIndex' \in 0..MaxIndex
        BY <1>d, <3>1, StoreBounds DEF LocalOK, WrittenOutlives, KeysOK
      <3> QED
        BY <2>1, <2>2, <3>1, <3>2 DEF StoreInv, ServerOK
    <2>4. CASE backend # "memory"
      <3>1. UNCHANGED <<keyIndex, local, raced, kept>>
        BY <1>19, <2>4 DEF Restart
      <3>2. LocalOK'
        BY <2>1, <3>1 DEF StoreInv, LocalOK, WrittenOutlives
      <3>3. KeysOK'
        BY <2>1, <2>2, <3>1, KeysLast, StoreBounds DEF StoreInv
      <3> QED
        BY <2>1, <2>2, <3>1, <3>2, <3>3 DEF StoreInv, ServerOK
    <2> QED
      BY <2>3, <2>4
  <1>20. CASE UNCHANGED storeVars
    <2>1. UNCHANGED <<backend, keyIndex, server, local, caller, raced, kept>>
      BY <1>20 DEF storeVars
    <2>2. Grows
      BY <2>1 DEF Grows
    <2>3. CallersOK'
      <3>1. \A c \in Callers : TaskOK(caller[c])'
        BY <2>1, <2>2, TaskLasts
      <3> QED
        BY <2>1, <3>1 DEF StoreInv, CallersOK
    <2>4. KeysOK'
      BY <2>1, KeysLast, StoreBounds DEF StoreInv
    <2> QED
      BY <2>1, <2>3, <2>4 DEF StoreInv, ServerOK, LocalOK, WrittenOutlives
  <1> QED
    BY <1>1, <1>2, <1>3, <1>4, <1>5, <1>6, <1>7, <1>8, <1>9, <1>10, <1>11, <1>12, <1>13, <1>14,
       <1>15, <1>16, <1>17, <1>18, <1>19, <1>20 DEF StoreNext

\* A stored swap has the keys it was created under; unless two writes overlapped, no swap is
\* created under keys that another has, and what was stored of a swap stays stored; a complete
\* recovery has stored every earlier swap of the wallet (swap-creation.ts, client.ts
\* recoverSwaps, storage).  The invariant adds what each call in flight still owes: the index
\* it was given, the swap it stores, the swaps it is yet to store.
THEOREM StoreKeeps == StoreSpec => [](StoreTypeOK /\ KeysFitSwaps /\ WrittenOutlives /\ RecoveredAll)
  <1>1. StoreInit => StoreInv
    <2> SUFFICES ASSUME StoreInit PROVE StoreInv
      OBVIOUS
    <2>1. PICK n \in 0..MaxSwaps : \E indices \in [1..n -> Prior] :
             server = [i \in 1..n |-> [index |-> indices[i], prior |-> TRUE, ownHash |-> TRUE]]
      BY DEF StoreInit
    <2>2. PICK indices \in [1..n -> Prior] :
             server = [i \in 1..n |-> [index |-> indices[i], prior |-> TRUE, ownHash |-> TRUE]]
      BY <2>1
    <2>3. n \in Nat /\ n <= MaxSwaps
      BY <2>1, StoreBounds
    <2>4. \A i \in 1..n : [index |-> indices[i], prior |-> TRUE, ownHash |-> TRUE] \in Swaps
      BY StoreAssumption DEF Swaps
    <2>5. ServerOK /\ DOMAIN server = 1..n /\ \A i \in 1..n : server[i].prior
      BY <2>2, <2>3, <2>4 DEF ServerOK
    <2>6. /\ caller = [c \in Callers |-> NoTask] /\ \A c \in Callers : caller[c] = NoTask
          /\ local = [id \in SwapIds |-> Absent] /\ kept = [id \in SwapIds |-> {}]
          /\ keyIndex = 0 /\ raced = FALSE /\ backend \in Stores
      BY DEF StoreInit
    <2>7. TaskOK(NoTask)
      BY StoreBounds DEF NoTask, TaskOK, StoreTask, StoreSteps, Stored, Absent, Items, Refused
    <2>8. CallersOK /\ \A c \in Callers : caller[c].at # "post"
      BY <2>6, <2>7, NoTaskOK DEF CallersOK
    <2>9. LocalOK
      BY <2>6, StoreBounds DEF LocalOK, WrittenOutlives, Stored, Absent
    <2>10. KeysOK
      BY <2>5, <2>8 DEF KeysOK, Does
    <2>11. keyIndex \in 0..MaxIndex
      <3>1. 0 \in 0..MaxIndex
        BY StoreBounds
      <3> QED
        BY <2>6, <3>1
    <2>12. raced \in BOOLEAN
      BY <2>6
    <2> QED
      BY <2>5, <2>6, <2>8, <2>9, <2>10, <2>11, <2>12 DEF StoreInv
  <1> QED
    BY <1>1, StoreStep, StoreHolds, PTL DEF StoreSpec

-----------------------------------------------------------------------------
(* Quotes.  What division rounds away, and what an order is worth.          *)

LEMMA ProductGrows ==
  ASSUME NEW a \in Nat, NEW b \in Nat, NEW c \in Nat, a <= b
  PROVE  a * c <= b * c /\ a * c \in Nat /\ b * c \in Nat
  OBVIOUS

LEMMA ProductLess ==
  ASSUME NEW a \in Nat, NEW b \in Nat, NEW c \in Nat, a * c < b * c
  PROVE  a < b
  <1> SUFFICES ASSUME b <= a PROVE FALSE
    OBVIOUS
  <1> QED
    BY ProductGrows

LEMMA Divides ==
  ASSUME NEW x \in Nat, NEW y \in Nat \ {0}
  PROVE  /\ x \div y \in Nat
         /\ (x \div y) * y <= x
         /\ x < (x \div y + 1) * y
  OBVIOUS

\* The quotient is the greatest whose product fits.
LEMMA DividesMost ==
  ASSUME NEW x \in Nat, NEW y \in Nat \ {0}, NEW z \in Nat, z * y <= x
  PROVE  z <= x \div y
  <1>1. z * y < (x \div y + 1) * y /\ x \div y + 1 \in Nat
    BY Divides
  <1> QED
    BY <1>1, ProductLess

LEMMA DividesGrows ==
  ASSUME NEW x \in Nat, NEW z \in Nat, NEW y \in Nat \ {0}, x <= z
  PROVE  x \div y <= z \div y
  BY Divides, DividesMost

\* What is rounded up covers what was divided.
LEMMA CeilingCovers ==
  ASSUME NEW x \in Nat, NEW n \in Nat \ {0}, NEW d \in Nat \ {0}
  PROVE  Ceiled(x, <<n, d>>) \in Nat /\ x * n <= Ceiled(x, <<n, d>>) * d
  <1> DEFINE y == x * n + d - 1
  <1>1. y \in Nat /\ Ceiled(x, <<n, d>>) = y \div d
    BY DEF Ceiled
  <1>2. y < (y \div d + 1) * d /\ y \div d \in Nat
    BY <1>1, Divides
  <1>3. (y \div d + 1) * d = (y \div d) * d + d
    BY <1>2
  <1> QED
    BY <1>1, <1>2, <1>3

LEMMA FloorFits ==
  ASSUME NEW x \in Nat, NEW n \in Nat \ {0}, NEW d \in Nat \ {0}
  PROVE  /\ Floored(x, <<n, d>>) \in Nat /\ Floored(x, <<n, d>>) * d <= x * n
  BY Divides DEF Floored

LEMMA FloorMost ==
  ASSUME NEW x \in Nat, NEW n \in Nat \ {0}, NEW d \in Nat \ {0}, NEW z \in Nat, z * d <= x * n
  PROVE  z <= Floored(x, <<n, d>>)
  BY DividesMost DEF Floored

LEMMA LessGrows ==
  ASSUME NEW x \in Nat, NEW y \in Nat, NEW z \in Nat, x <= y
  PROVE  Less(x, z) \in Nat /\ Less(x, z) <= Less(y, z) /\ Less(y, z) \in Nat
  BY DEF Less

\* Sats through the DEX: the fees scale what is paid out, and the bridge's fee comes off whole.
LEMMA DexPaysTokens ==
  ASSUME NEW s \in Nat, NEW f \in Nat, NEW c \in Nat \ {0}, NEW n \in Nat \ {0}, NEW d \in Nat \ {0}, NEW b \in Nat
  PROVE  NetTargetSourcePinned(s, f, Less(Floored(s * c, <<n, d>>), b), b)
            <= Less(Floored(Less(s + 1, f) * c, <<n, d>>), b)
  <1> DEFINE gross == Floored(s * c, <<n, d>>)
             x == s - f
             worth == Floored((x + 1) * c, <<n, d>>)
  <1>0. Less(Floored(Less(s + 1, f) * c, <<n, d>>), b) \in Nat
    <2> DEFINE y == Less(s + 1, f) * c
    <2>1. y \in Nat
      BY DEF Less
    <2> HIDE DEF y
    <2>a. Floored(y, <<n, d>>) \in Nat
      BY <2>1, FloorFits
    <2>2. Less(Floored(y, <<n, d>>), b) \in Nat
      BY <2>a DEF Less
    <2> QED
      BY <2>2 DEF y
  <1>1. CASE s = 0 \/ f > s
    BY <1>0, <1>1 DEF NetTargetSourcePinned
  <1>2. CASE ~(s = 0 \/ f > s)
    <2>1. x \in Nat /\ x <= s /\ s \in Nat \ {0} /\ Less(s + 1, f) = x + 1
      BY <1>2 DEF Less
    <2>2. s * c \in Nat /\ (x + 1) * c \in Nat /\ x * c <= (x + 1) * c
      BY <2>1
    <2>3. gross \in Nat /\ gross * d <= s * c * n
      BY <2>2, FloorFits
    <2>4. NetTargetSourcePinned(s, f, Less(gross, b), b) = Less((x * (Less(gross, b) + b)) \div s, b)
      BY <1>2 DEF NetTargetSourcePinned
    <2> DEFINE grossed == Less(gross, b) + b
               net == (x * grossed) \div s
    <2>5. CASE gross <= b
      <3>1. grossed = b
        BY <2>3, <2>5 DEF Less
      <3>2. x * b <= b * s
        BY <2>1
      <3>3. net <= b
        <4>1. net * s <= x * b /\ net \in Nat
          BY <2>1, <3>1, Divides
        <4>2. net * s < (b + 1) * s
          BY <2>1, <3>2, <4>1
        <4> QED
          BY <2>1, <4>1, <4>2, ProductLess
      <3>4. Less(net, b) = 0
        BY <3>3, <2>1, <3>1, Divides DEF Less
      <3> QED
        BY <1>0, <2>4, <3>4
    <2>6. CASE gross > b
      <3>1. grossed = gross
        BY <2>3, <2>6 DEF Less
      <3>2. net \in Nat /\ net * s <= x * gross
        BY <2>1, <2>3, <3>1, Divides
      <3> HIDE DEF net, gross, x
      <3>3. net * s * d <= x * (gross * d)
        <4>1. (net * s) * d <= (x * gross) * d
          BY <2>1, <2>3, <3>2, ProductGrows
        <4> QED
          BY <4>1, <2>1, <2>3, <3>2
      <3>4. (gross * d) * x <= (s * c * n) * x
        BY <2>1, <2>3, ProductGrows
      <3>5. (net * d) * s <= (x * c * n) * s
        BY <2>1, <2>3, <3>2, <3>3, <3>4
      <3>6. net * d < (x * c * n + 1)
        <4>1. (net * d) * s < (x * c * n + 1) * s
          BY <2>1, <3>2, <3>5
        <4> QED
          BY <2>1, <3>2, <4>1, ProductLess
      <3>7. net * d <= (x + 1) * c * n
        BY <2>1, <3>2, <3>6
      <3>8. net <= Floored((x + 1) * c, <<n, d>>)
        <4> DEFINE y == (x + 1) * c
        <4>1. y \in Nat /\ net * d <= y * n
          BY <2>1, <2>2, <3>7
        <4> HIDE DEF y
        <4>2. net <= Floored(y, <<n, d>>)
          BY <3>2, <4>1, FloorMost
        <4> QED
          BY <4>2 DEF y
      <3>9. Less(net, b) <= Less(Floored((x + 1) * c, <<n, d>>), b)
        BY <2>2, <3>2, <3>8, FloorFits, LessGrows
      <3> QED
        BY <2>1, <2>4, <3>9 DEF net, gross, x
    <2> QED
      BY <2>3, <2>5, <2>6
  <1> QED
    BY <1>1, <1>2

\* A pinned amount of a token costs what the DEX asked for it, in whole sats.
LEMMA DexSellsTokens ==
  ASSUME NEW a \in Nat, NEW f \in Nat, NEW c \in Nat \ {0}, NEW n \in Nat \ {0}, NEW d \in Nat \ {0}, NEW b \in Nat
  PROVE  /\ Ceiled(a + b, <<d, n>>) \div c \in Nat
         /\ a <= Less(Floored(Less(Ceiled(a + b, <<d, n>>) \div c + f + 1, f) * c, <<n, d>>), b)
  <1> DEFINE asked == Ceiled(a + b, <<d, n>>)
             q == asked \div c
  <1>1. asked \in Nat /\ (a + b) * d <= asked * n
    BY CeilingCovers
  <1> HIDE DEF asked
  <1>2. q \in Nat /\ asked < (q + 1) * c
    BY <1>1, Divides
  <1> HIDE DEF q
  <1>3. (q + 1) * c \in Nat /\ asked * n <= ((q + 1) * c) * n
    BY <1>1, <1>2, ProductGrows
  <1>4. (a + b) * d <= ((q + 1) * c) * n
    BY <1>1, <1>2, <1>3
  <1>5. a + b <= Floored((q + 1) * c, <<n, d>>) /\ Floored((q + 1) * c, <<n, d>>) \in Nat
    <2> DEFINE y == (q + 1) * c
    <2>1. y \in Nat /\ (a + b) * d <= y * n /\ a + b \in Nat
      BY <1>3, <1>4
    <2> HIDE DEF y
    <2>2. a + b <= Floored(y, <<n, d>>) /\ Floored(y, <<n, d>>) \in Nat
      BY <2>1, FloorFits, FloorMost
    <2> QED
      BY <2>2 DEF y
  <1>6. a <= Less(Floored((q + 1) * c, <<n, d>>), b)
    BY <1>5 DEF Less
  <1>7. Less(q + f + 1, f) = q + 1
    BY <1>2 DEF Less
  <1> QED
    BY <1>2, <1>6, <1>7 DEF q, asked

\* A token that is pinned pays out as much as was quoted.
LEMMA DexPaysSats ==
  ASSUME NEW a \in Nat, NEW f \in Nat, NEW c \in Nat \ {0}, NEW n \in Nat \ {0}, NEW d \in Nat \ {0}, NEW b \in Nat
  PROVE  Less(Floored(Less(a, b), <<d, n>>) \div c, f) <= Less(Floored(Less(a + 1, b), <<d, n>>) \div c, f)
  <1> DEFINE x == Less(a, b)
             y == Less(a + 1, b)
  <1>1. x \in Nat /\ y \in Nat /\ x <= y
    BY LessGrows
  <1>2. x * d \in Nat /\ y * d \in Nat /\ x * d <= y * d
    BY <1>1, ProductGrows
  <1>3. Floored(x, <<d, n>>) \in Nat /\ Floored(y, <<d, n>>) \in Nat /\ Floored(x, <<d, n>>) <= Floored(y, <<d, n>>)
    BY <1>2, DividesGrows, Divides DEF Floored
  <1> HIDE DEF x, y
  <1>4. Floored(x, <<d, n>>) \div c \in Nat /\ Floored(y, <<d, n>>) \div c \in Nat
        /\ Floored(x, <<d, n>>) \div c <= Floored(y, <<d, n>>) \div c
    BY <1>3, DividesGrows, Divides
  <1>5. Less(Floored(x, <<d, n>>) \div c, f) <= Less(Floored(y, <<d, n>>) \div c, f)
    BY <1>4, LessGrows
  <1> QED
    BY <1>5 DEF x, y

\* Pinned sats, bought through the DEX: what is paid for the fees is what was asked per sat.
LEMMA DexSellsSats ==
  ASSUME NEW a \in Nat \ {0}, NEW f \in Nat, NEW c \in Nat \ {0}, NEW n \in Nat \ {0}, NEW d \in Nat \ {0}, NEW b \in Nat
  PROVE  a <= Less(Floored(Less(((a + f) * (Ceiled(a * c, <<n, d>>) + b)) \div a + 1, b), <<d, n>>) \div c, f)
  <1> DEFINE asked == Ceiled(a * c, <<n, d>>)
             src == ((a + f) * (asked + b)) \div a + 1
             sold == Less(src, b)
  <1>1. a * c \in Nat /\ asked \in Nat /\ a * c * n <= asked * d
    BY CeilingCovers
  <1> HIDE DEF asked
  <1>2. (a + f) * (asked + b) \in Nat
    BY <1>1
  <1>3. src \in Nat /\ (a + f) * (asked + b) < src * a
    BY <1>2, Divides
  <1> HIDE DEF src
  <1>4. a * b <= (a + f) * (asked + b) /\ (a + f) * asked + a * b <= (a + f) * (asked + b)
    <2>1. (a + f) * (asked + b) = (a + f) * asked + a * b + f * b
      BY <1>1
    <2>2. f * b \in Nat /\ (a + f) * asked \in Nat /\ a * b \in Nat
      BY <1>1
    <2> QED
      BY <2>1, <2>2
  <1>5. b < src
    <2>1. b * a < src * a
      BY <1>3, <1>4, <1>2
    <2> QED
      BY <1>3, <2>1, ProductLess
  <1>6. sold \in Nat /\ sold + b = src
    BY <1>3, <1>5 DEF Less
  <1> HIDE DEF sold
  <1>7. (a + f) * asked < sold * a
    <2>1. src * a = sold * a + b * a
      BY <1>6
    <2>2. (a + f) * asked \in Nat /\ sold * a \in Nat /\ a * b \in Nat /\ b * a = a * b
      BY <1>1, <1>6
    <2> QED
      BY <1>2, <1>3, <1>4, <2>1, <2>2
  <1>8. ((a + f) * c * n) * a <= (sold * d) * a
    <2>1. (a * c * n) * (a + f) <= (asked * d) * (a + f)
      BY <1>1, ProductGrows
    <2>2. ((a + f) * asked) * d <= (sold * a) * d
      BY <1>1, <1>6, <1>7, ProductGrows
    <2>3. (asked * d) * (a + f) = ((a + f) * asked) * d /\ (sold * a) * d = (sold * d) * a
          /\ (a * c * n) * (a + f) = ((a + f) * c * n) * a
      BY <1>1, <1>6
    <2>4. (asked * d) * (a + f) \in Nat /\ (sold * d) * a \in Nat /\ (a * c * n) * (a + f) \in Nat
      BY <1>1, <1>6
    <2> QED
      BY <2>1, <2>2, <2>3, <2>4
  <1>9. (a + f) * c * n <= sold * d
    <2>1. ~(sold * d < (a + f) * c * n)
      <3> SUFFICES ASSUME sold * d + 1 <= (a + f) * c * n PROVE FALSE
        BY <1>6
      <3>1. (sold * d + 1) * a <= ((a + f) * c * n) * a
        BY <1>6, ProductGrows
      <3>2. (sold * d + 1) * a = (sold * d) * a + a
        BY <1>6
      <3> QED
        BY <1>6, <1>8, <3>1, <3>2
    <2> QED
      BY <1>6, <2>1
  <1>10. (a + f) * c <= Floored(sold, <<d, n>>) /\ Floored(sold, <<d, n>>) \in Nat
    <2> DEFINE z == (a + f) * c
    <2>1. z \in Nat /\ z * n <= sold * d
      BY <1>9
    <2> HIDE DEF z
    <2>2. z <= Floored(sold, <<d, n>>) /\ Floored(sold, <<d, n>>) \in Nat
      BY <1>6, <2>1, FloorFits, FloorMost
    <2> QED
      BY <2>2 DEF z
  <1>11. a + f <= Floored(sold, <<d, n>>) \div c /\ Floored(sold, <<d, n>>) \div c \in Nat
    BY <1>10, DividesMost, Divides
  <1>12. a <= Less(Floored(sold, <<d, n>>) \div c, f)
    BY <1>11 DEF Less
  <1> QED
    BY <1>12 DEF sold, src, asked

\* A peg: what is rounded to the nearest pegged sat, and what that is worth in sats.
LEMMA PegRounds ==
  ASSUME NEW s \in Nat, NEW n \in Nat \ {0}, NEW d \in Nat \ {0}
  PROVE  LET r == (s * n + d \div 2) \div d IN
         /\ r \in Nat
         /\ 2 * r * d <= 2 * s * n + d
         /\ 2 * s * n <= 2 * r * d + d
  <1> DEFINE h == d \div 2
             x == s * n + h
             r == x \div d
  <1>1. h \in Nat /\ 2 * h <= d /\ d <= 2 * h + 1
    OBVIOUS
  <1> HIDE DEF h
  <1>2. x \in Nat
    BY <1>1
  <1>3. r \in Nat /\ r * d <= x /\ x < (r + 1) * d
    BY <1>2, Divides
  <1>4. (r + 1) * d = r * d + d
    BY <1>3
  <1>5. s * n \in Nat /\ r * d \in Nat
    BY <1>3
  <1> HIDE DEF r
  <1>6. 2 * (r * d) <= 2 * (s * n) + d /\ 2 * (s * n) <= 2 * (r * d) + d
    BY <1>1, <1>3, <1>4, <1>5
  <1>7. 2 * r * d = 2 * (r * d) /\ 2 * s * n = 2 * (s * n)
    BY <1>3
  <1> QED
    BY <1>3, <1>6, <1>7 DEF r, h

\* At par nothing is rounded.
LEMMA ParIsExact ==
  ASSUME NEW s \in Nat, NEW p \in Nat \ {0}
  PROVE  (s * p + p \div 2) \div p = s
  <1> DEFINE r == (s * p + p \div 2) \div p
  <1>1. r \in Nat /\ 2 * r * p <= 2 * s * p + p /\ 2 * s * p <= 2 * r * p + p
    BY PegRounds
  <1> HIDE DEF r
  <1>2. 2 * r * p < (2 * s + 2) * p /\ 2 * s * p < (2 * r + 2) * p
    <2>1. (2 * s + 2) * p = 2 * s * p + 2 * p /\ (2 * r + 2) * p = 2 * r * p + 2 * p
      BY <1>1
    <2>2. 2 * s * p \in Nat /\ 2 * r * p \in Nat
      BY <1>1
    <2> QED
      BY <1>1, <2>1, <2>2
  <1>3. 2 * r < 2 * s + 2 /\ 2 * s < 2 * r + 2
    BY <1>1, <1>2, ProductLess
  <1>4. r = s
    BY <1>1, <1>3
  <1> QED
    BY <1>4 DEF r

\* Rounding before the fees are taken gains no more than the dust makes up for.
LEMMA PegScales ==
  ASSUME NEW s \in Nat \ {0}, NEW x \in Nat, x <= s, NEW n \in Nat \ {0}, NEW d \in Nat \ {0},
         NEW dust \in Nat, d <= dust * n,
         NEW gross \in Nat, 2 * gross * d <= 2 * s * n + d,
         NEW worth \in Nat, 2 * (x + dust) * n <= 2 * worth * d + d
  PROVE  x * gross <= s * worth
  <1>1. 2 * x * n + d <= 2 * worth * d
    <2>1. 2 * (x + dust) * n = 2 * x * n + 2 * (dust * n)
      OBVIOUS
    <2>2. 2 * x * n \in Nat /\ dust * n \in Nat /\ 2 * worth * d \in Nat
      OBVIOUS
    <2> QED
      BY <2>1, <2>2
  <1> DEFINE g == 2 * gross * d
             p == 2 * worth * d
             u == 2 * s * n
             v == 2 * x * n
  <1>2. g \in Nat /\ p \in Nat /\ u \in Nat /\ v \in Nat /\ g <= u + d /\ v + d <= p
    BY <1>1
  <1>3. u * x = v * s /\ x * g = (x * gross) * (2 * d) /\ s * p = (s * worth) * (2 * d)
    OBVIOUS
  <1> HIDE DEF g, p, u, v
  <1>4. g * x <= (u + d) * x /\ (v + d) * s <= p * s /\ x * d <= s * d
    BY <1>2, ProductGrows
  <1>5. g * x = x * g /\ p * s = s * p /\ (u + d) * x = u * x + x * d /\ (v + d) * s = v * s + s * d
    BY <1>2
  <1>6. x * d \in Nat /\ s * d \in Nat /\ u * x \in Nat /\ x * g \in Nat /\ s * p \in Nat
    BY <1>2
  <1>7. x * g <= s * p
    BY <1>3, <1>4, <1>5, <1>6
  <1> DEFINE y == x * gross
             z == s * worth
             e == 2 * d
  <1>8. y \in Nat /\ z \in Nat /\ e \in Nat \ {0} /\ y * e <= z * e
    BY <1>3, <1>7
  <1> HIDE DEF y, z, e
  <1>9. y * e < (z + 1) * e
    <2>1. (z + 1) * e = z * e + e /\ z * e \in Nat /\ y * e \in Nat
      BY <1>8
    <2> QED
      BY <1>8, <2>1
  <1>10. y < z + 1
    BY <1>8, <1>9, ProductLess
  <1> QED
    BY <1>8, <1>10 DEF y, z

\* What a fraction of a product leaves.
LEMMA ShareFits ==
  ASSUME NEW s \in Nat \ {0}, NEW x \in Nat, NEW g \in Nat, NEW p \in Nat, NEW c \in Nat, x * g <= s * p
  PROVE  (x * (g * c)) \div s \in Nat /\ (x * (g * c)) \div s <= p * c
  <1> DEFINE y == x * (g * c)
             z == p * c
  <1>1. y = (x * g) * c /\ z * s = (s * p) * c
    OBVIOUS
  <1>2. x * g \in Nat /\ s * p \in Nat /\ (x * g) * c <= (s * p) * c
    BY ProductGrows
  <1>3. y \in Nat /\ z \in Nat /\ y <= z * s
    BY <1>1, <1>2
  <1> HIDE DEF y, z
  <1>4. y \div s \in Nat /\ (y \div s) * s <= y
    BY <1>3, Divides
  <1> DEFINE q == y \div s
  <1> HIDE DEF q
  <1>5. q \in Nat /\ q * s < (z + 1) * s
    <2>1. q \in Nat /\ q * s <= y
      BY <1>4 DEF q
    <2>2. (z + 1) * s = z * s + s /\ z * s \in Nat /\ q * s \in Nat
      BY <1>3, <2>1
    <2> QED
      BY <1>3, <2>1, <2>2
  <1>6. q < z + 1
    BY <1>3, <1>5, ProductLess
  <1> QED
    BY <1>3, <1>5, <1>6 DEF q, y, z

\* Pinned sats to the pegged token, when the dust is worth a pegged sat.
LEMMA PegPaysTokens ==
  ASSUME NEW s \in Nat, NEW f \in Nat, NEW c \in Nat \ {0}, NEW n \in Nat \ {0}, NEW d \in Nat \ {0},
         NEW dust \in Nat, s = 0 \/ d <= dust * n
  PROVE  NetTargetSourcePinned(s, f, ((s * n + d \div 2) \div d) * c, 0)
            <= ((Less(s + dust, f) * n + d \div 2) \div d) * c
  <1> DEFINE left == Less(s + dust, f)
             gross == (s * n + d \div 2) \div d
             worth == (left * n + d \div 2) \div d
  <1>1. left \in Nat
    BY DEF Less
  <1>2. CASE s = 0 \/ f > s
    <2> HIDE DEF left
    <2>1. worth \in Nat
      BY <1>1, PegRounds
    <2> HIDE DEF worth
    <2>2. worth * c \in Nat
      BY <2>1
    <2> QED
      BY <1>2, <2>2 DEF NetTargetSourcePinned, worth, left
  <1>3. CASE ~(s = 0 \/ f > s)
    <2> DEFINE x == s - f
    <2>1. x \in Nat /\ x <= s /\ s \in Nat \ {0} /\ left = x + dust
      BY <1>3 DEF Less
    <2> HIDE DEF left
    <2>2. worth \in Nat /\ 2 * left * n <= 2 * worth * d + d
      BY <1>1, PegRounds
    <2>3. gross \in Nat /\ 2 * gross * d <= 2 * s * n + d
      BY PegRounds
    <2>4. NetTargetSourcePinned(s, f, gross * c, 0) = Less((x * (gross * c + 0)) \div s, 0)
      BY <1>3 DEF NetTargetSourcePinned
    <2> HIDE DEF gross, worth, x
    <2>5. x * gross <= s * worth
      BY <2>1, <2>2, <2>3, PegScales
    <2>6. (x * (gross * c)) \div s \in Nat /\ (x * (gross * c)) \div s <= worth * c
      BY <2>1, <2>2, <2>3, <2>5, ShareFits
    <2>7. gross * c + 0 = gross * c
      BY <2>3
    <2> DEFINE net == (x * (gross * c)) \div s
    <2> HIDE DEF net
    <2>8. net \in Nat /\ net <= worth * c
      BY <2>6 DEF net
    <2>9. Less(net, 0) = net
      BY <2>8 DEF Less
    <2>10. NetTargetSourcePinned(s, f, gross * c, 0) <= worth * c
      BY <2>4, <2>7, <2>8, <2>9 DEF net
    <2> QED
      BY <2>10 DEF gross, worth, left
  <1> QED
    BY <1>2, <1>3

\* A common factor goes.
LEMMA FactorGoes ==
  ASSUME NEW y \in Nat, NEW z \in Nat, NEW e \in Nat \ {0}, y * e <= z * e
  PROVE  y <= z
  <1>1. (z + 1) * e = z * e + e /\ z * e \in Nat /\ y * e \in Nat
    OBVIOUS
  <1>2. y * e < (z + 1) * e
    BY <1>1
  <1>3. y < z + 1
    BY <1>2, ProductLess
  <1> QED
    BY <1>3

\* The pegged token that is pinned: q sats are the whole sats it is worth.
LEMMA PegSellsTokens ==
  ASSUME NEW a \in Nat, NEW q \in Nat, NEW r \in Nat, NEW c \in Nat \ {0}, NEW n \in Nat \ {0}, NEW d \in Nat \ {0},
         a * d < (q + 1) * (c * n), (q + 1) * n <= r * d
  PROVE  a <= r * c
  <1> DEFINE u == (q + 1) * n
             v == r * d
  <1>1. u \in Nat /\ v \in Nat /\ u <= v
    OBVIOUS
  <1>2. u * c = (q + 1) * (c * n) /\ v * c = (r * c) * d /\ a * d \in Nat /\ r * c \in Nat
    OBVIOUS
  <1> HIDE DEF u, v
  <1>3. u * c <= v * c /\ u * c \in Nat /\ v * c \in Nat
    BY <1>1, ProductGrows
  <1>4. a * d <= (r * c) * d
    BY <1>2, <1>3
  <1> DEFINE y == r * c
  <1>5. y \in Nat /\ a * d <= y * d
    BY <1>4
  <1> HIDE DEF y
  <1>6. a <= y
    BY <1>5, FactorGoes
  <1> QED
    BY <1>6 DEF y

\* A peg off par: half a sat's rounding is made up for.
LEMMA PegCovers ==
  ASSUME NEW q \in Nat, NEW e \in Nat, NEW r \in Nat, NEW n \in Nat \ {0}, NEW d \in Nat \ {0},
         d <= e * (2 * n), 2 * (q + 1 + e) * n <= 2 * r * d + d
  PROVE  (q + 1) * n <= r * d
  <1>1. 2 * (q + 1 + e) * n = 2 * ((q + 1) * n) + e * (2 * n) /\ 2 * r * d = 2 * (r * d)
    OBVIOUS
  <1>2. (q + 1) * n \in Nat /\ e * (2 * n) \in Nat /\ r * d \in Nat
    OBVIOUS
  <1> QED
    BY <1>1, <1>2

\* Pegged sats that are pinned.
LEMMA PegSellsSats ==
  ASSUME NEW g \in Nat, NEW a \in Nat \ {0}, NEW E \in Nat, NEW S \in Nat, NEW e \in Nat,
         NEW c \in Nat \ {0}, NEW n \in Nat \ {0}, NEW d \in Nat \ {0},
         g * E < (S + 1) * a,
         (g * (c * n)) * (2 * a) <= 2 * ((g * E) * d) + (e * d) * (2 * a)
  PROVE  g * (c * n) <= (S + 1 + e) * d
  <1> DEFINE u == g * E
             v == (S + 1) * a
             w == g * (c * n)
             x == e * d
  <1>1. u \in Nat /\ v \in Nat /\ u <= v /\ w \in Nat /\ x \in Nat /\ w * (2 * a) <= 2 * (u * d) + x * (2 * a)
    OBVIOUS
  <1>2. v * d = ((S + 1) * d) * a /\ (S + 1 + e) * d = (S + 1) * d + x
    OBVIOUS
  <1> HIDE DEF u, v, w, x
  <1>3. u * d <= v * d
    BY <1>1, ProductGrows
  <1> DEFINE t == (S + 1) * d
  <1>4. t \in Nat /\ v * d = t * a
    BY <1>2
  <1> HIDE DEF t
  <1>5. (t + x) * (2 * a) = 2 * (t * a) + x * (2 * a)
    BY <1>1, <1>4
  <1>6. u * d \in Nat /\ v * d \in Nat /\ x * (2 * a) \in Nat /\ t * a \in Nat /\ w * (2 * a) \in Nat
    BY <1>1, <1>4
  <1>7. w * (2 * a) <= (t + x) * (2 * a)
    BY <1>1, <1>3, <1>4, <1>5, <1>6
  <1> DEFINE b == 2 * a
             z == t + x
  <1>8. b \in Nat \ {0} /\ z \in Nat /\ w * b <= z * b
    BY <1>1, <1>4, <1>7
  <1> HIDE DEF b, z
  <1>9. w <= z
    BY <1>1, <1>8, FactorGoes
  <1> QED
    BY <1>2, <1>9 DEF w, z, t

\* What the rounding of a peg off par may cost, scaled by the fees.
LEMMA PegSellsSatsOff ==
  ASSUME NEW g \in Nat, NEW a \in Nat \ {0}, NEW r \in Nat, NEW e \in Nat,
         NEW c \in Nat \ {0}, NEW n \in Nat \ {0}, NEW d \in Nat \ {0},
         2 * a * n <= 2 * r * d + d, c * g <= e * (2 * a)
  PROVE  (g * (c * n)) * (2 * a) <= 2 * ((g * (r * c)) * d) + (e * d) * (2 * a)
  <1> DEFINE k == c * g
             u == 2 * a * n
             v == 2 * r * d
             x == e * (2 * a)
  <1>1. k \in Nat /\ u \in Nat /\ v \in Nat /\ x \in Nat /\ u <= v + d /\ k <= x
    OBVIOUS
  <1>2. (g * (c * n)) * (2 * a) = u * k /\ 2 * ((g * (r * c)) * d) = v * k /\ (e * d) * (2 * a) = x * d
    OBVIOUS
  <1> HIDE DEF k, u, v, x
  <1>3. u * k <= (v + d) * k /\ k * d <= x * d
    BY <1>1, ProductGrows
  <1>4. (v + d) * k = v * k + k * d
    BY <1>1
  <1>5. u * k \in Nat /\ v * k \in Nat /\ k * d \in Nat /\ x * d \in Nat
    BY <1>1
  <1> QED
    BY <1>2, <1>3, <1>4, <1>5

-----------------------------------------------------------------------------
(* Quotes.  The amounts are what is worth, whatever the direction and route.  *)

\* A market's prices and fees are naturals, its prices none of them zero.
LEMMA MarketPrices ==
  ASSUME NEW m \in Markets
  PROVE  /\ m.scale \in Nat \ {0} /\ m.peg[1] \in Nat \ {0} /\ m.peg[2] \in Nat \ {0}
         /\ m.rate[1] \in Nat \ {0} /\ m.rate[2] \in Nat \ {0}
         /\ m.bridgeFee \in Nat /\ m.nativeFee \in Nat /\ m.networkFee \in Nat /\ m.extraFee \in Nat
  BY QuoteAssumption

\* The fees are whole sats.
LEMMA FeesAreSats ==
  ASSUME NEW m \in Markets, NEW a, NEW fee \in Percentages, NEW sats \in Nat
  PROVE  TotalFeeSats(m, a, fee, sats) \in Nat /\ BridgeFee(m, a) \in Nat
  <1> DEFINE x == sats * EffectiveFeePct(m, fee)
  <1>1. EffectiveFeePct(m, fee) \in Nat
    BY MarketPrices DEF EffectiveFeePct, Percentages
  <1>2. x \in Nat
    BY <1>1
  <1> HIDE DEF x
  <1>3. x \div 10 \in Nat
    BY <1>2
  <1>4. BridgeNativeFeeSats(m, a) \in Nat
    BY MarketPrices DEF BridgeNativeFeeSats
  <1>5. TotalFeeSats(m, a, fee, sats) \in Nat
    BY <1>3, <1>4, MarketPrices DEF TotalFeeSats, x
  <1> QED
    BY <1>5, MarketPrices DEF BridgeFee

\* Nothing of a pegged token is bridged.
LEMMA PegsStay ==
  ASSUME NEW m, NEW a, IsPivotToken(m, a)
  PROVE  BridgeFee(m, a) = 0
  BY DEF IsPivotToken, BridgeFee

\* The quote of an ask, by its direction and its pinned side, pays out what it promises.
QuoteKept(m, a, q) ==
    Executed(m, a, q.netSource + Dust(m, a, q.fees), q.fees) >= q.netTarget

\* Sats are pinned, tokens bought.
LEMMA SatsPinnedForTokens ==
  ASSUME NEW m \in Markets, NEW a, a.amount \in Nat, NEW fee \in Percentages, ToEvm(a), "source" \in a.pinned
  PROVE  QuoteKept(m, a, ComposeQuote(m, a, fee)) /\ ComposeQuote(m, a, fee).netSource = a.amount
  <1> DEFINE q == ComposeQuote(m, a, fee)
             p == BtcEvmPivot(m, a)
             f == TotalFeeSats(m, a, fee, a.amount)
             s == a.amount
             n == m.peg[1]
             d == m.peg[2]
             b == BridgeFee(m, a)
  <1>0. p = IF IsPivotToken(m, a) THEN DirectBtcToPeggedPivot(m, a) ELSE DexSourcePinned(m, a)
    BY DEF BtcEvmPivot
  <1>1. p.btcSats = s
    BY <1>0 DEF DirectBtcToPeggedPivot, DexSourcePinned
  <1>2. f \in Nat /\ b \in Nat /\ s \in Nat
    BY FeesAreSats
  <1>3. q.netSource = s /\ q.fees = f /\ q.netTarget = NetTargetSourcePinned(s, f, p.evmSmallest, b)
    BY <1>1 DEF ComposeQuote, ComposeBtcToEvm, QuoteOf
  <1>4. n \in Nat \ {0} /\ d \in Nat \ {0} /\ m.scale \in Nat \ {0} /\ m.rate[1] \in Nat \ {0} /\ m.rate[2] \in Nat \ {0}
    BY MarketPrices
  <1>5. CASE IsPivotToken(m, a)
    <2> DEFINE dust == Dust(m, a, f)
    <2>1. dust \in Nat /\ (s = 0 \/ d <= dust * n)
      <3>1. CASE ~RoundsPeg(m, a)
        BY <1>2, <1>4, <1>5, <3>1 DEF RoundsPeg, Dust
      <3>2. CASE RoundsPeg(m, a)
        <4>1. dust = Ceiled(1, <<d, n>>)
          BY <3>2 DEF Dust, InverseRate
        <4>2. Ceiled(1, <<d, n>>) \in Nat /\ 1 * d <= Ceiled(1, <<d, n>>) * n
          BY <1>4, CeilingCovers
        <4> QED
          BY <1>4, <4>1, <4>2
      <3> QED
        BY <3>1, <3>2
    <2>2. p.evmSmallest = ((s * n + d \div 2) \div d) * m.scale /\ b = 0
      BY <1>0, <1>5, PegsStay DEF DirectBtcToPeggedPivot, SatsToPeggedBase
    <2>3. Executed(m, a, s + dust, f) = ((Less(s + dust, f) * n + d \div 2) \div d) * m.scale
      BY <1>5 DEF Executed, SatsToPeggedBase
    <2> HIDE DEF dust
    <2>4. NetTargetSourcePinned(s, f, ((s * n + d \div 2) \div d) * m.scale, 0)
             <= ((Less(s + dust, f) * n + d \div 2) \div d) * m.scale
      BY <1>2, <1>4, <2>1, PegPaysTokens
    <2>5. q.netTarget <= Executed(m, a, s + dust, f)
      BY <1>3, <2>2, <2>3, <2>4
    <2> QED
      BY <1>3, <2>5 DEF QuoteKept, dust
  <1>6. CASE ~IsPivotToken(m, a)
    <2>1. Dust(m, a, f) = 1
      BY <1>6 DEF Dust, RoundsPeg
    <2>2. \A x : Floored(x, m.rate) = Floored(x, <<m.rate[1], m.rate[2]>>)
      BY DEF Floored
    <2>3. p.evmSmallest = Less(Floored(s * m.scale, <<m.rate[1], m.rate[2]>>), b)
      BY <1>0, <1>6, <2>2 DEF DexSourcePinned, ExactInForToken
    <2>4. Executed(m, a, s + 1, f) = Less(Floored(Less(s + 1, f) * m.scale, <<m.rate[1], m.rate[2]>>), b)
      BY <1>6, <2>2 DEF Executed, ExactInForToken
    <2>5. NetTargetSourcePinned(s, f, Less(Floored(s * m.scale, <<m.rate[1], m.rate[2]>>), b), b)
             <= Less(Floored(Less(s + 1, f) * m.scale, <<m.rate[1], m.rate[2]>>), b)
      BY <1>2, <1>4, DexPaysTokens
    <2>6. q.netTarget <= Executed(m, a, s + 1, f)
      BY <1>3, <2>3, <2>4, <2>5
    <2> QED
      BY <1>3, <2>1, <2>6 DEF QuoteKept
  <1> QED
    BY <1>3, <1>5, <1>6

\* The tokens bought are pinned.
LEMMA TokensPinnedForTokens ==
  ASSUME NEW m \in Markets, NEW a, a.amount \in Nat, NEW fee \in Percentages, ToEvm(a), "source" \notin a.pinned
  PROVE  QuoteKept(m, a, ComposeQuote(m, a, fee)) /\ ComposeQuote(m, a, fee).netTarget = a.amount
  <1> DEFINE quoted == ComposeQuote(m, a, fee)
             p == BtcEvmPivot(m, a)
             q == p.btcSats
             f == TotalFeeSats(m, a, fee, q)
             t == a.amount
             c == m.scale
             n == m.peg[1]
             d == m.peg[2]
             b == BridgeFee(m, a)
  <1>1. n \in Nat \ {0} /\ d \in Nat \ {0} /\ c \in Nat \ {0} /\ m.rate[1] \in Nat \ {0} /\ m.rate[2] \in Nat \ {0} /\ t \in Nat
    BY MarketPrices
  <1>2. p.evmSmallest = t
    BY DEF BtcEvmPivot, DirectBtcToPeggedPivot, DexTargetPinned
  <1>3. quoted.netSource = q + f /\ quoted.fees = f /\ quoted.netTarget = t
    BY <1>2 DEF ComposeQuote, ComposeBtcToEvm, QuoteOf
  <1>4. CASE IsPivotToken(m, a)
    <2>1. q = (t * d) \div (c * n)
      BY <1>4 DEF BtcEvmPivot, DirectBtcToPeggedPivot, PeggedBaseToSats
    <2>2. q \in Nat /\ t * d < (q + 1) * (c * n)
      <3> DEFINE x == t * d
                 y == c * n
      <3>1. x \in Nat /\ y \in Nat \ {0} /\ q = x \div y
        BY <1>1, <2>1
      <3> HIDE DEF x, y, q
      <3>2. q \in Nat /\ x < (q + 1) * y
        BY <3>1, Divides
      <3> QED
        BY <3>2 DEF x, y
    <2>3. f \in Nat
      BY <2>2, FeesAreSats
    <2> DEFINE dust == Dust(m, a, f)
               left == Less(q + f + dust, f)
               r == (left * n + d \div 2) \div d
    <2>4. Executed(m, a, q + f + dust, f) = r * c
      BY <1>4 DEF Executed, SatsToPeggedBase
    <2>5. CASE t = 0
      <3>1. dust = 1
        BY <2>5 DEF Dust, RoundsPeg
      <3>2. left \in Nat
        BY <2>2, <2>3, <3>1 DEF Less
      <3> HIDE DEF left
      <3>3. r \in Nat
        BY <1>1, <3>2, PegRounds
      <3> HIDE DEF r
      <3>4. r * c \in Nat
        BY <1>1, <3>3
      <3> QED
        BY <1>3, <2>4, <2>5, <3>4 DEF QuoteKept
    <2>6. CASE t # 0
      <3>1. r \in Nat /\ (q + 1) * n <= r * d
        <4>1. CASE n = d
          <5>1. dust = 1
            BY <4>1 DEF Dust, RoundsPeg
          <5>2. left = q + 1
            BY <2>2, <2>3, <5>1 DEF Less
          <5> HIDE DEF q, left
          <5>3. ((q + 1) * d + d \div 2) \div d = q + 1
            <6> DEFINE k == q + 1
            <6>1. k \in Nat
              BY <2>2
            <6> HIDE DEF k
            <6>2. (k * d + d \div 2) \div d = k
              BY <1>1, <6>1, ParIsExact
            <6> QED
              BY <6>2 DEF k
          <5>4. r = q + 1
            BY <4>1, <5>2, <5>3
          <5> QED
            BY <1>1, <2>2, <4>1, <5>4
        <4>2. CASE n # d
          <5> DEFINE e == Ceiled(1, <<d, 2 * n>>)
          <5>1. dust = 1 + e
            BY <1>4, <2>6, <4>2 DEF Dust, RoundsPeg
          <5>2. e \in Nat /\ d <= e * (2 * n)
            <6> DEFINE k == 2 * n
            <6>1. k \in Nat \ {0}
              BY <1>1
            <6> HIDE DEF k
            <6>2. Ceiled(1, <<d, k>>) \in Nat /\ 1 * d <= Ceiled(1, <<d, k>>) * k
              BY <1>1, <6>1, CeilingCovers
            <6> QED
              BY <1>1, <6>2 DEF k
          <5> HIDE DEF e
          <5>3. left = q + 1 + e
            BY <2>2, <2>3, <5>1, <5>2 DEF Less
          <5> HIDE DEF q, left
          <5>a. left \in Nat
            BY <2>2, <5>2, <5>3
          <5>4. r \in Nat /\ 2 * left * n <= 2 * r * d + d
            BY <1>1, <5>a, PegRounds
          <5> HIDE DEF r
          <5> QED
            BY <1>1, <2>2, <5>2, <5>3, <5>4, PegCovers
        <4> QED
          BY <4>1, <4>2
      <3> HIDE DEF r
      <3>2. t <= r * c
        BY <1>1, <2>2, <3>1, PegSellsTokens
      <3> QED
        BY <1>3, <2>4, <3>2 DEF QuoteKept
    <2> QED
      BY <1>3, <2>5, <2>6
  <1>5. CASE ~IsPivotToken(m, a)
    <2> DEFINE sold == Ceiled(t + b, <<m.rate[2], m.rate[1]>>) \div c
    <2>1. q = sold
      BY <1>5 DEF BtcEvmPivot, DexTargetPinned, ExactOutOfToken, InverseRate
    <2>2. b \in Nat
      BY FeesAreSats
    <2>3. sold \in Nat
      BY <1>1, <2>2, DexSellsTokens
    <2>4. f \in Nat
      BY <2>1, <2>3, FeesAreSats
    <2>5. Dust(m, a, f) = 1
      BY <1>5 DEF Dust, RoundsPeg
    <2>6. Executed(m, a, sold + f + 1, f) = Less(Floored(Less(sold + f + 1, f) * c, <<m.rate[1], m.rate[2]>>), b)
      BY <1>5 DEF Executed, ExactInForToken, Floored
    <2> HIDE DEF f, b
    <2>7. t <= Less(Floored(Less(sold + f + 1, f) * c, <<m.rate[1], m.rate[2]>>), b)
      BY <1>1, <2>2, <2>4, DexSellsTokens
    <2>8. t <= Executed(m, a, q + f + 1, f)
      BY <2>1, <2>6, <2>7
    <2> QED
      BY <1>3, <2>5, <2>8 DEF QuoteKept
  <1> QED
    BY <1>4, <1>5

\* Tokens are pinned, sats bought.
LEMMA TokensPinnedForSats ==
  ASSUME NEW m \in Markets, NEW a, a.amount \in Nat, NEW fee \in Percentages, ~ToEvm(a), "source" \in a.pinned
  PROVE  QuoteKept(m, a, ComposeQuote(m, a, fee)) /\ ComposeQuote(m, a, fee).netSource = a.amount
  <1> DEFINE quoted == ComposeQuote(m, a, fee)
             p == EvmBtcPivot(m, a)
             f == TotalFeeSats(m, a, fee, p.btcSats)
             t == a.amount
             c == m.scale
             n == m.peg[1]
             d == m.peg[2]
             b == BridgeFee(m, a)
  <1>1. n \in Nat \ {0} /\ d \in Nat \ {0} /\ c \in Nat \ {0} /\ m.rate[1] \in Nat \ {0} /\ m.rate[2] \in Nat \ {0} /\ t \in Nat
    BY MarketPrices
  <1>2. p.evmSmallest = t
    BY DEF EvmBtcPivot, DirectPeggedToBtcPivot, DexEvmToBtcSourcePinned
  <1>3. quoted.netSource = t /\ quoted.fees = f /\ quoted.netTarget = Less(p.btcSats, f)
    BY <1>2 DEF ComposeQuote, ComposeEvmToBtc, QuoteOf
  <1>4. CASE IsPivotToken(m, a)
    <2> DEFINE x == t * d
               y == c * n
    <2>1. p.btcSats = x \div y
      BY <1>4 DEF EvmBtcPivot, DirectPeggedToBtcPivot, PeggedBaseToSats
    <2>2. x \in Nat /\ y \in Nat \ {0}
      BY <1>1
    <2>3. x \div y \in Nat
      <3> HIDE DEF x, y
      <3> QED
        BY <2>2, Divides
    <2>4. f \in Nat
      BY <2>1, <2>3, FeesAreSats
    <2> DEFINE dust == Dust(m, a, f)
    <2>5. dust \in Nat
      <3>1. CASE ~RoundsPeg(m, a)
        BY <3>1 DEF Dust
      <3>2. CASE RoundsPeg(m, a)
        <4>1. dust = Ceiled(1, <<d, n>>)
          BY <3>2 DEF Dust, InverseRate
        <4> QED
          BY <1>1, <4>1, CeilingCovers
      <3> QED
        BY <3>1, <3>2
    <2> HIDE DEF dust
    <2>6. Executed(m, a, t + dust, f) = Less(((t + dust) * d) \div y, f)
      BY <1>4 DEF Executed, PeggedBaseToSats
    <2> DEFINE z == (t + dust) * d
    <2>7. z \in Nat /\ x <= z
      BY <1>1, <2>5, ProductGrows
    <2> HIDE DEF x, y, z, f
    <2>8. x \div y \in Nat /\ z \div y \in Nat /\ x \div y <= z \div y
      BY <2>2, <2>7, Divides, DividesGrows
    <2>9. Less(x \div y, f) <= Less(z \div y, f)
      BY <2>4, <2>8, LessGrows
    <2> QED
      BY <1>3, <2>1, <2>6, <2>9 DEF QuoteKept, dust, z
  <1>5. CASE ~IsPivotToken(m, a)
    <2> DEFINE bought == Floored(Less(t, b), <<m.rate[2], m.rate[1]>>) \div c
    <2>1. p.btcSats = bought
      BY <1>5 DEF EvmBtcPivot, DexEvmToBtcSourcePinned, ExactInForPivot, InverseRate
    <2>2. b \in Nat
      BY FeesAreSats
    <2>3. bought \in Nat
      <3>1. Less(t, b) \in Nat
        BY <1>1, <2>2 DEF Less
      <3> DEFINE x == Floored(Less(t, b), <<m.rate[2], m.rate[1]>>)
      <3>2. x \in Nat
        BY <1>1, <3>1, FloorFits
      <3> HIDE DEF x
      <3>3. x \div c \in Nat
        BY <1>1, <3>2, Divides
      <3> QED
        BY <3>3 DEF x
    <2>4. f \in Nat
      BY <2>1, <2>3, FeesAreSats
    <2>5. Dust(m, a, f) = 1
      BY <1>5 DEF Dust, RoundsPeg
    <2>6. Executed(m, a, t + 1, f) = Less(Floored(Less(t + 1, b), <<m.rate[2], m.rate[1]>>) \div c, f)
      BY <1>5 DEF Executed, ExactInForPivot, InverseRate
    <2> HIDE DEF f, b
    <2>7. Less(bought, f) <= Less(Floored(Less(t + 1, b), <<m.rate[2], m.rate[1]>>) \div c, f)
      BY <1>1, <2>2, <2>4, DexPaysSats
    <2> QED
      BY <1>3, <2>1, <2>5, <2>6, <2>7 DEF QuoteKept
  <1> QED
    BY <1>3, <1>4, <1>5

\* The sats bought are pinned: paid for with the fees, at what was asked per sat.
LEMMA SatsPinnedForSats ==
  ASSUME NEW m \in Markets, NEW a, a.amount \in Nat, NEW fee \in Percentages, ~ToEvm(a), "source" \notin a.pinned
  PROVE  QuoteKept(m, a, ComposeQuote(m, a, fee)) /\ ComposeQuote(m, a, fee).netTarget = a.amount
  <1> DEFINE quoted == ComposeQuote(m, a, fee)
             p == EvmBtcPivot(m, a)
             t == a.amount
             f == TotalFeeSats(m, a, fee, t)
             asked == p.evmSmallest
             src == ((t + f) * asked) \div t
             c == m.scale
             n == m.peg[1]
             d == m.peg[2]
             b == BridgeFee(m, a)
  <1>1. n \in Nat \ {0} /\ d \in Nat \ {0} /\ c \in Nat \ {0} /\ m.rate[1] \in Nat \ {0} /\ m.rate[2] \in Nat \ {0}
        /\ t \in Nat /\ f \in Nat /\ b \in Nat
    BY MarketPrices, FeesAreSats
  <1>2. p.btcSats = t
    BY DEF EvmBtcPivot, DirectPeggedToBtcPivot, DexEvmToBtcTargetPinned
  <1>3. quoted.netSource = (IF t = 0 THEN 0 ELSE src) /\ quoted.fees = f /\ quoted.netTarget = t
    BY <1>2 DEF ComposeQuote, ComposeEvmToBtc, QuoteOf
  <1>4. CASE t = 0
    <2>1. quoted.netSource = 0 /\ Dust(m, a, f) = 1
      BY <1>3, <1>4 DEF Dust, RoundsPeg
    <2> DEFINE gross == IF IsPivotToken(m, a) THEN PeggedBaseToSats(m, 1) ELSE ExactInForPivot(m, a, 1) \div c
    <2>2. gross \in Nat
      <3>1. CASE IsPivotToken(m, a)
        <4> DEFINE y == c * n
        <4>1. y \in Nat \ {0} /\ 1 * d \in Nat
          BY <1>1
        <4> HIDE DEF y
        <4>2. (1 * d) \div y \in Nat
          BY <4>1, Divides
        <4> QED
          BY <3>1, <4>2 DEF PeggedBaseToSats, y
      <3>2. CASE ~IsPivotToken(m, a)
        <4> DEFINE x == Floored(Less(1, b), <<m.rate[2], m.rate[1]>>)
        <4>1. Less(1, b) \in Nat
          BY <1>1 DEF Less
        <4>2. x \in Nat
          BY <1>1, <4>1, FloorFits
        <4> HIDE DEF x
        <4>3. x \div c \in Nat
          BY <1>1, <4>2, Divides
        <4> QED
          BY <3>2, <4>3 DEF ExactInForPivot, InverseRate, x
      <3> QED
        BY <3>1, <3>2
    <2>3. Executed(m, a, 0 + 1, f) = Less(gross, f)
      BY DEF Executed
    <2> HIDE DEF gross
    <2>4. Less(gross, f) \in Nat
      BY <1>1, <2>2 DEF Less
    <2> QED
      BY <1>3, <1>4, <2>1, <2>3, <2>4 DEF QuoteKept
  <1>5. CASE t # 0 /\ IsPivotToken(m, a)
    <2> DEFINE r == (t * n + d \div 2) \div d
               dust == Dust(m, a, f)
               g == t + f
    <2>1. asked = r * c
      BY <1>5 DEF EvmBtcPivot, DirectPeggedToBtcPivot, SatsToPeggedBase
    <2>2. r \in Nat /\ 2 * t * n <= 2 * r * d + d
      BY <1>1, PegRounds
    <2>3. asked \in Nat /\ g \in Nat /\ g * asked \in Nat /\ t \in Nat \ {0}
      <3> HIDE DEF r
      <3>1. r * c \in Nat
        BY <1>1, <2>2
      <3> HIDE DEF p
      <3> QED
        BY <1>1, <1>5, <2>1, <3>1
    <2> HIDE DEF p, g
    <2>4. src \in Nat /\ g * asked < (src + 1) * t
      <3> DEFINE x == g * asked
      <3>1. x \in Nat
        BY <2>3
      <3> HIDE DEF x
      <3>2. x \div t \in Nat /\ x < (x \div t + 1) * t
        BY <2>3, <3>1, Divides
      <3> QED
        BY <3>2 DEF x, g
    <2> HIDE DEF src
    <2>5. PICK e \in Nat : dust = 1 + e /\ (g * (c * n)) * (2 * t) <= 2 * ((g * asked) * d) + (e * d) * (2 * t)
      <3>1. CASE n = d
        <4>1. dust = 1 + 0
          BY <3>1 DEF Dust, RoundsPeg
        <4>2. r = t
          <5>1. (t * d + d \div 2) \div d = t
            BY <1>1, ParIsExact
          <5> QED
            BY <3>1, <5>1
        <4>3. (g * (c * d)) * (2 * t) = 2 * ((g * (t * c)) * d) /\ (0 * d) * (2 * t) = 0
          BY <1>1, <2>3
        <4>4. 2 * ((g * (t * c)) * d) \in Nat
          BY <1>1, <2>3
        <4> HIDE DEF r, dust
        <4> QED
          BY <2>1, <3>1, <4>1, <4>2, <4>3, <4>4
      <3>2. CASE n # d
        <4> DEFINE e == Ceiled(c * g, <<1, 2 * t>>)
        <4>1. dust = 1 + e
          BY <1>5, <3>2 DEF Dust, RoundsPeg, g
        <4>2. e \in Nat /\ c * g <= e * (2 * t)
          <5> DEFINE k == 2 * t
                     x == c * g
          <5>1. k \in Nat \ {0} /\ x \in Nat
            BY <1>1, <2>3
          <5> HIDE DEF k, x
          <5>2. Ceiled(x, <<1, k>>) \in Nat /\ x * 1 <= Ceiled(x, <<1, k>>) * k
            BY <5>1, CeilingCovers
          <5> QED
            BY <5>1, <5>2 DEF k, x
        <4> HIDE DEF e, r, dust
        <4>3. (g * (c * n)) * (2 * t) <= 2 * ((g * (r * c)) * d) + (e * d) * (2 * t)
          BY <1>1, <2>2, <2>3, <4>2, PegSellsSatsOff
        <4> QED
          BY <2>1, <4>1, <4>2, <4>3
      <3> QED
        BY <3>1, <3>2
    <2>6. g * (c * n) <= (src + 1 + e) * d
      BY <1>1, <2>3, <2>4, <2>5, PegSellsSats
    <2> HIDE DEF dust
    <2> DEFINE sats == PeggedBaseToSats(m, src + dust)
    <2>7. g <= sats /\ sats \in Nat
      <3> DEFINE y == c * n
                 x == (src + dust) * d
      <3>a. src + dust = src + 1 + e /\ src + dust \in Nat
        BY <2>4, <2>5
      <3>1. y \in Nat \ {0} /\ x \in Nat /\ g * y <= x
        BY <1>1, <2>6, <3>a
      <3>2. sats = x \div y
        BY DEF PeggedBaseToSats
      <3> HIDE DEF x, y, sats
      <3> QED
        BY <2>3, <3>1, <3>2, Divides, DividesMost
    <2>8. Executed(m, a, src + dust, f) = Less(sats, f)
      BY <1>5 DEF Executed
    <2> HIDE DEF sats
    <2>9. t <= Less(sats, f)
      BY <1>1, <2>7 DEF Less, g
    <2> QED
      BY <1>3, <1>5, <2>8, <2>9 DEF QuoteKept, dust
  <1>6. CASE t # 0 /\ ~IsPivotToken(m, a)
    <2> DEFINE ceiled == Ceiled(t * c, <<m.rate[1], m.rate[2]>>) + b
    <2>1. asked = ceiled
      BY <1>6 DEF EvmBtcPivot, DexEvmToBtcTargetPinned, ExactOutOfPivot, Ceiled
    <2>2. Dust(m, a, f) = 1
      BY <1>6 DEF Dust, RoundsPeg
    <2>3. Executed(m, a, src + 1, f) = Less(Floored(Less(src + 1, b), <<m.rate[2], m.rate[1]>>) \div c, f)
      BY <1>6 DEF Executed, ExactInForPivot, InverseRate
    <2>4. t \in Nat \ {0}
      BY <1>1, <1>6
    <2> HIDE DEF f, b
    <2>5. t <= Less(Floored(Less(((t + f) * ceiled) \div t + 1, b), <<m.rate[2], m.rate[1]>>) \div c, f)
      BY <1>1, <2>4, DexSellsSats
    <2>6. t <= Executed(m, a, src + 1, f)
      BY <2>1, <2>3, <2>5
    <2> QED
      BY <1>3, <1>6, <2>2, <2>6 DEF QuoteKept
  <1> QED
    BY <1>3, <1>4, <1>5, <1>6

-----------------------------------------------------------------------------
(* Quotes.  The memo of the requests, and the calls that wait for them.      *)

\* Nothing is asked yet, and nobody asks.
LEMMA QuoteStarts == QuoteInit => QuoteTypeOK
  <1> DEFINE Request == [state : {"unsent", "flying", "ok", "failed"}, sent : 0..MaxClock, fee : Percentages]
             Asker == [at : {"idle", "waiting", "server"}, fetch : {0} \cup Fetches, began : 0..MaxClock]
  <1> SUFFICES ASSUME QuoteInit PROVE QuoteTypeOK
    OBVIOUS
  <1>1. 0 \in 0..MaxClock /\ 0 \in Percentages
    BY QuoteAssumption DEF Percentages
  <1>2. IdleQuoter \in Asker /\ [state |-> "unsent", sent |-> 0, fee |-> 0] \in Request
    BY <1>1 DEF IdleQuoter
  <1> QED
    BY <1>1, <1>2 DEF QuoteInit, QuoteTypeOK, NoQuote

\* No step of a call, of its requests or of the clock leaves their types.
LEMMA QuoteGoesOn == QuoteTypeOK /\ [QuoteNext]_quoteVars => QuoteTypeOK'
  <1> DEFINE Request == [state : {"unsent", "flying", "ok", "failed"}, sent : 0..MaxClock, fee : Percentages]
             Asker == [at : {"idle", "waiting", "server"}, fetch : {0} \cup Fetches, began : 0..MaxClock]
  <1> SUFFICES ASSUME QuoteTypeOK, [QuoteNext]_quoteVars PROVE QuoteTypeOK'
    OBVIOUS
  <1>1. /\ clock \in 0..MaxClock /\ MaxClock \in Nat /\ feePercentage \in Percentages
        /\ fetch \in [Fetches -> Request] /\ memo \in {0} \cup Fetches /\ quoter \in [Quoters -> Asker]
        /\ quote.of \in {"none", "client", "server"} /\ NoQuote.of = "none"
    BY QuoteAssumption DEF QuoteTypeOK, NoQuote
  <1>2. IdleQuoter \in Asker
    BY <1>1 DEF IdleQuoter
  <1>a. \A q \in Quoters : [quoter[q] EXCEPT !.at = "server"] \in Asker
    BY <1>1
  <1>3. clock' \in 0..MaxClock /\ feePercentage' \in Percentages
    <2>1. clock' = clock \/ (clock < MaxClock /\ clock' = clock + 1)
      BY DEF QuoteNext, QuoteTicks, ServerReprices, StaticAnswers, StaticFails, ComposeStatic, ComposesQuote,
             PrimitiveFails, GetQuoteFromServer, quoteVars
    <2>2. feePercentage' \in Percentages
      BY <1>1 DEF QuoteNext, QuoteTicks, ServerReprices, StaticAnswers, StaticFails, ComposeStatic, ComposesQuote,
             PrimitiveFails, GetQuoteFromServer, quoteVars
    <2> QED
      BY <1>1, <2>1, <2>2
  <1>4. ASSUME NEW q \in Quoters, ComposeStatic(q) PROVE QuoteTypeOK'
    <2>1. ASSUME NEW f \in Fetches, quoter' = [quoter EXCEPT ![q] = [at |-> "waiting", fetch |-> f, began |-> clock]]
          PROVE  quoter' \in [Quoters -> Asker]
      BY <1>1, <2>1
    <2>2. CASE MemoHit /\ quoter' = [quoter EXCEPT ![q] = [at |-> "waiting", fetch |-> memo, began |-> clock]]
               /\ UNCHANGED <<fetch, memo>>
      <3>1. memo \in Fetches
        BY <1>1, <2>2 DEF MemoHit
      <3> QED
        BY <1>1, <1>3, <1>4, <2>1, <2>2, <3>1 DEF ComposeStatic, QuoteTypeOK
    <2>3. ASSUME NEW f \in Fetches, memo' = f,
                 fetch' = [fetch EXCEPT ![f] = [@ EXCEPT !.state = "flying", !.sent = clock]],
                 quoter' = [quoter EXCEPT ![q] = [at |-> "waiting", fetch |-> f, began |-> clock]]
          PROVE  QuoteTypeOK'
      <3>1. fetch' \in [Fetches -> Request]
        <4>1. [fetch[f] EXCEPT !.state = "flying", !.sent = clock] \in Request
          BY <1>1
        <4> QED
          BY <1>1, <2>3, <4>1
      <3> QED
        BY <1>1, <1>3, <1>4, <2>1, <2>3, <3>1 DEF ComposeStatic, QuoteTypeOK
    <2> QED
      BY <1>4, <2>2, <2>3 DEF ComposeStatic
  <1>5. ASSUME NEW f \in Fetches, StaticAnswers(f) PROVE QuoteTypeOK'
    <2>1. [fetch[f] EXCEPT !.state = "ok", !.fee = feePercentage] \in Request
      BY <1>1
    <2>2. fetch' \in [Fetches -> Request]
      BY <1>1, <1>5, <2>1 DEF StaticAnswers
    <2> QED
      BY <1>1, <1>3, <1>5, <2>2 DEF StaticAnswers, QuoteTypeOK
  <1>6. ASSUME NEW f \in Fetches, StaticFails(f) PROVE QuoteTypeOK'
    <2>1. fetch' \in [Fetches -> Request]
      BY <1>1, <1>6 DEF StaticFails
    <2>2. quoter' \in [Quoters -> Asker]
      BY <1>1, <1>6, <1>a DEF StaticFails
    <2>3. memo' \in {0} \cup Fetches
      BY <1>1, <1>6 DEF StaticFails, MemoAfterFailure
    <2> QED
      BY <1>1, <1>3, <1>6, <2>1, <2>2, <2>3 DEF StaticFails, QuoteTypeOK
  <1>7. ASSUME NEW q \in Quoters, ComposesQuote(q) PROVE QuoteTypeOK'
    <2>1. \A m, a, fee : ComposeQuote(m, a, fee).of = "client"
      BY DEF ComposeQuote, ComposeBtcToEvm, ComposeEvmToBtc, QuoteOf
    <2>2. quote'.of \in {"none", "client", "server"}
      BY <1>1, <1>7, <2>1 DEF ComposesQuote
    <2>3. quoter' = [quoter EXCEPT ![q] = IdleQuoter] \/ quoter' = [quoter EXCEPT ![q] = [quoter[q] EXCEPT !.at = "server"]]
      BY <1>1, <1>7 DEF ComposesQuote
    <2>4. quoter' \in [Quoters -> Asker]
      BY <1>1, <1>2, <1>a, <2>3
    <2> QED
      BY <1>1, <1>3, <1>7, <2>2, <2>4 DEF ComposesQuote, QuoteTypeOK
  <1>8. ASSUME NEW q \in Quoters, PrimitiveFails(q) \/ GetQuoteFromServer(q) PROVE QuoteTypeOK'
    <2>1. quoter' = [quoter EXCEPT ![q] = IdleQuoter] \/ quoter' = [quoter EXCEPT ![q] = [quoter[q] EXCEPT !.at = "server"]]
      BY <1>1, <1>8 DEF PrimitiveFails, GetQuoteFromServer
    <2>2. quoter' \in [Quoters -> Asker]
      BY <1>1, <1>2, <1>a, <2>1
    <2> QED
      BY <1>1, <1>3, <1>8, <2>2 DEF PrimitiveFails, GetQuoteFromServer, QuoteTypeOK
  <1>9. CASE QuoteTicks \/ ServerReprices \/ UNCHANGED quoteVars
    BY <1>1, <1>3, <1>9 DEF QuoteTicks, ServerReprices, quoteVars, QuoteTypeOK
  <1> QED
    BY <1>4, <1>5, <1>6, <1>7, <1>8, <1>9 DEF QuoteNext

\* The calls that overlap, their requests and the memo keep their types and bounds, whatever
\* is answered, fails or is repriced meanwhile (client.ts #composeStatic).
THEOREM QuoteTypes == QuoteSpec => []QuoteTypeOK
  BY QuoteStarts, QuoteGoesOn, PTL DEF QuoteSpec

\* Whatever is asked, in either direction: the quote pays out what it promises, and echoes what
\* was pinned.
LEMMA QuoteKeeps ==
  ASSUME NEW m \in Markets, NEW a \in Composable, NEW fee \in Percentages, Supported(m, a)
  PROVE  LET q == ComposeQuote(m, a, fee) IN
         /\ QuoteKept(m, a, q) /\ q.market = m /\ q.ask = a
         /\ a.amount = IF "source" \in a.pinned THEN q.netSource ELSE q.netTarget
  <1> DEFINE q == ComposeQuote(m, a, fee)
  <1>1. q.market = m /\ q.ask = a
    BY DEF ComposeQuote, ComposeBtcToEvm, ComposeEvmToBtc, QuoteOf
  <1>2. a.amount \in Nat
    BY QuoteAssumption DEF Composable, QuoteAsks
  <1>3. /\ QuoteKept(m, a, q)
        /\ "source" \in a.pinned => q.netSource = a.amount
        /\ "source" \notin a.pinned => q.netTarget = a.amount
    BY <1>2, SatsPinnedForTokens, TokensPinnedForTokens, TokensPinnedForSats, SatsPinnedForSats
  <1> QED
    BY <1>1, <1>3

\* What the last step quoted is honoured; all who wait, and the memo, have a request that was
\* sent and did not fail.
QuoteInv ==
    /\ QuoteTypeOK
    /\ quote.of = "client" =>
          /\ QuoteKept(quote.market, quote.ask, quote)
          /\ quote.ask.amount =
                IF "source" \in quote.ask.pinned THEN quote.netSource ELSE quote.netTarget
    /\ MemoIsSound
    /\ \A q \in Quoters : quoter[q].at = "waiting" => quoter[q].fetch \in Fetches

\* The quotes' invariant is inductive: a request is waited for only once it is sent, and those
\* who wait for one that fails stop waiting with it.
LEMMA QuoteStep == QuoteInv /\ [QuoteNext]_quoteVars => QuoteInv'
  <1> SUFFICES ASSUME QuoteInv, [QuoteNext]_quoteVars PROVE QuoteInv'
    OBVIOUS
  <1> DEFINE Request == [state : {"unsent", "flying", "ok", "failed"}, sent : 0..MaxClock, fee : Percentages]
             Asker == [at : {"idle", "waiting", "server"}, fetch : {0} \cup Fetches, began : 0..MaxClock]
             Waits(q, f) == quoter[q].at = "waiting" /\ quoter[q].fetch = f
             Sound(q) == quoter[q].at = "waiting" =>
                            /\ quoter[q].fetch \in Fetches
                            /\ fetch[quoter[q].fetch].state \in {"flying", "ok"}
                            /\ quoter[q].began < fetch[quoter[q].fetch].sent + StaticTtl
             Kept == quote.of = "client" =>
                        /\ QuoteKept(quote.market, quote.ask, quote)
                        /\ quote.ask.amount =
                              IF "source" \in quote.ask.pinned THEN quote.netSource ELSE quote.netTarget
             MemoSound == memo # 0 => fetch[memo].state \in {"flying", "ok"}
  <1>1. QuoteTypeOK'
    BY QuoteGoesOn DEF QuoteInv
  <1>2. /\ clock \in Nat /\ StaticTtl \in Nat \ {0} /\ 0 \notin Fetches
        /\ fetch \in [Fetches -> Request] /\ memo \in {0} \cup Fetches /\ quoter \in [Quoters -> Asker]
        /\ Kept /\ MemoSound /\ (\A q \in Quoters : Sound(q)) /\ NoQuote.of # "client"
    BY QuoteAssumption DEF QuoteInv, QuoteTypeOK, MemoIsSound, NoQuote, Fetches
  <1>3. SUFFICES Kept' /\ MemoSound' /\ (\A q \in Quoters : Sound(q))'
    BY <1>1 DEF QuoteInv, MemoIsSound
  <1>4. Kept'
    <2>1. CASE quote' = NoQuote \/ quote' = [of |-> "server"] \/ quote' = quote
      BY <1>2, <2>1
    <2>2. ASSUME NEW m \in Markets, NEW a \in Composable, NEW f \in Fetches, Supported(m, a),
                 quote' = ComposeQuote(m, a, fetch[f].fee)
          PROVE  Kept'
      <3> DEFINE fee == fetch[f].fee
      <3>1. fee \in Percentages
        BY <1>2
      <3> HIDE DEF fee
      <3>2. LET q == ComposeQuote(m, a, fee) IN
            /\ QuoteKept(m, a, q) /\ q.market = m /\ q.ask = a
            /\ a.amount = IF "source" \in a.pinned THEN q.netSource ELSE q.netTarget
        BY <2>2, <3>1, QuoteKeeps
      <3>3. quote' = ComposeQuote(m, a, fee)
        BY <2>2 DEF fee
      <3> QED
        BY <3>2, <3>3
    <2>3. ASSUME NEW q \in Quoters, ComposesQuote(q) PROVE Kept'
      <3>1. quoter[q].fetch \in Fetches
        BY <1>2, <2>3 DEF ComposesQuote
      <3> QED
        BY <2>1, <2>2, <2>3, <3>1 DEF ComposesQuote
    <2> QED
      BY <2>1, <2>3 DEF QuoteNext, QuoteTicks, ServerReprices, StaticAnswers, StaticFails, ComposeStatic,
                        PrimitiveFails, GetQuoteFromServer, quoteVars
  <1>5. MemoSound' /\ (\A q \in Quoters : Sound(q))'
    <2>1. ASSUME NEW q \in Quoters, ComposeStatic(q) PROVE MemoSound' /\ (\A p \in Quoters : Sound(p))'
      <3>1. CASE MemoHit /\ quoter' = [quoter EXCEPT ![q] = [at |-> "waiting", fetch |-> memo, began |-> clock]]
                 /\ UNCHANGED <<fetch, memo>>
        BY <1>2, <3>1 DEF MemoHit
      <3>2. ASSUME NEW f \in Fetches, Freed(f), memo' = f,
                   fetch' = [fetch EXCEPT ![f] = [fetch[f] EXCEPT !.state = "flying", !.sent = clock]],
                   quoter' = [quoter EXCEPT ![q] = [at |-> "waiting", fetch |-> f, began |-> clock]]
            PROVE  MemoSound' /\ (\A p \in Quoters : Sound(p))'
        <4>1. fetch'[f].state = "flying" /\ fetch'[f].sent = clock /\ (\A g \in Fetches \ {f} : fetch'[g] = fetch[g])
          BY <1>2, <3>2
        <4>2. \A p \in Quoters : ~Waits(p, f)
          BY <1>2, <3>2 DEF Freed
        <4> QED
          BY <1>2, <3>2, <4>1, <4>2
      <3> QED
        BY <2>1, <3>1, <3>2 DEF ComposeStatic
    <2>2. ASSUME NEW f \in Fetches, StaticAnswers(f) PROVE MemoSound' /\ (\A p \in Quoters : Sound(p))'
      <3>1. fetch'[f].state = "ok" /\ fetch'[f].sent = fetch[f].sent /\ (\A g \in Fetches \ {f} : fetch'[g] = fetch[g])
        BY <1>2, <2>2 DEF StaticAnswers
      <3> QED
        BY <1>2, <2>2, <3>1 DEF StaticAnswers
    <2>3. ASSUME NEW f \in Fetches, StaticFails(f) PROVE MemoSound' /\ (\A p \in Quoters : Sound(p))'
      <3>1. \A g \in Fetches \ {f} : fetch'[g] = fetch[g]
        BY <1>2, <2>3 DEF StaticFails
      <3>2. memo' # 0 => memo' # f /\ memo' = memo
        BY <2>3 DEF StaticFails, MemoAfterFailure
      <3>3. ASSUME NEW p \in Quoters
            PROVE  (quoter'[p] = quoter[p] /\ ~Waits(p, f)) \/ quoter'[p].at = "server"
        BY <1>2, <2>3 DEF StaticFails
      <3> QED
        BY <1>2, <3>1, <3>2, <3>3
    <2>4. ASSUME UNCHANGED <<fetch, memo>>, NEW q \in Quoters,
                 quoter' = [quoter EXCEPT ![q] = IdleQuoter] \/ quoter' = [quoter EXCEPT ![q] = [quoter[q] EXCEPT !.at = "server"]]
          PROVE  MemoSound' /\ (\A p \in Quoters : Sound(p))'
      BY <1>2, <2>4 DEF IdleQuoter
    <2>5. ASSUME NEW q \in Quoters, ComposesQuote(q) \/ PrimitiveFails(q) \/ GetQuoteFromServer(q)
          PROVE  MemoSound' /\ (\A p \in Quoters : Sound(p))'
      <3>1. UNCHANGED <<fetch, memo>>
        BY <2>5 DEF ComposesQuote, PrimitiveFails, GetQuoteFromServer
      <3>2. quoter' = [quoter EXCEPT ![q] = IdleQuoter] \/ quoter' = [quoter EXCEPT ![q] = [quoter[q] EXCEPT !.at = "server"]]
        BY <1>2, <2>5 DEF ComposesQuote, PrimitiveFails, GetQuoteFromServer
      <3> QED
        BY <2>4, <3>1, <3>2
    <2>6. CASE QuoteTicks \/ ServerReprices \/ UNCHANGED quoteVars
      BY <1>2, <2>6 DEF QuoteTicks, ServerReprices, quoteVars
    <2> QED
      BY <2>1, <2>2, <2>3, <2>5, <2>6 DEF QuoteNext
  <1> QED
    BY <1>4, <1>5

\* A composed quote promises what the swap pays out but for its dust, in either direction and by
\* every route, and echoes the pinned amount; whoever waits for the memo's request has one that
\* was young enough and has not failed: whatever the market asks, and however the calls and
\* their requests overlap (compose-quote.ts; client.ts composeQuote, #composeStatic).
THEOREM QuotesHonoured == QuoteSpec => []QuoteIsHonoured
  <1>1. QuoteInit => QuoteInv
    <2> SUFFICES ASSUME QuoteInit PROVE QuoteInv
      OBVIOUS
    <2>1. QuoteTypeOK
      BY QuoteStarts
    <2>2. quote.of # "client" /\ memo = 0 /\ \A q \in Quoters : quoter[q].at = "idle"
      BY DEF QuoteInit, NoQuote, IdleQuoter
    <2> QED
      BY <2>1, <2>2 DEF QuoteInv, MemoIsSound
  <1>2. QuoteInv => QuoteIsHonoured
    BY DEF QuoteInv, QuoteIsHonoured, QuotePaysOut, QuoteEchoesPin, QuoteKept
  <1> QED
    BY <1>1, <1>2, QuoteStep, PTL DEF QuoteSpec

-----------------------------------------------------------------------------
(* The machines of the wallet share no variable: a behaviour of the wallet  *)
(* is a behaviour of each of them.                                          *)

\* The wallet runs the EVM funding as it runs alone.
LEMMA WalletRunsFunding == WalletSpec => FundingSpec
  <1>1. WalletInit => FundingInit
    BY DEF WalletInit
  <1>2. [WalletNext]_walletVars => [FundingNext]_fundingVars
    <2>1. WalletNext => FundingNext \/ UNCHANGED fundingVars
      BY Zenon DEF WalletNext
    <2>2. UNCHANGED walletVars => UNCHANGED fundingVars
      BY DEF walletVars
    <2> QED
      BY <2>1, <2>2
  <1> QED
    BY <1>1, <1>2, PTL DEF WalletSpec, FundingSpec

\* The wallet runs the CCTP inbound transfer as it runs alone.
LEMMA WalletRunsCctp == WalletSpec => CctpSpec
  <1>1. WalletInit => CctpInit
    BY DEF WalletInit
  <1>2. [WalletNext]_walletVars => [CctpNext]_cctpVars
    <2>1. WalletNext => CctpNext \/ UNCHANGED cctpVars
      BY Zenon DEF WalletNext
    <2>2. UNCHANGED walletVars => UNCHANGED cctpVars
      BY DEF walletVars
    <2> QED
      BY <2>1, <2>2
  <1> QED
    BY <1>1, <1>2, PTL DEF WalletSpec, CctpSpec

\* The wallet runs the EVM claim as it runs alone.
LEMMA WalletRunsClaim == WalletSpec => ClaimSpec
  <1>1. WalletInit => ClaimInit
    BY DEF WalletInit
  <1>2. [WalletNext]_walletVars => [ClaimNext]_claimVars
    <2>1. WalletNext => ClaimNext \/ UNCHANGED claimVars
      BY Zenon DEF WalletNext
    <2>2. UNCHANGED walletVars => UNCHANGED claimVars
      BY DEF walletVars
    <2> QED
      BY <2>1, <2>2
  <1> QED
    BY <1>1, <1>2, PTL DEF WalletSpec, ClaimSpec

\* The wallet runs the Arkade spend as it runs alone.
LEMMA WalletRunsArkade == WalletSpec => ArkadeSpec
  <1>1. WalletInit => ArkadeInit
    BY DEF WalletInit
  <1>2. [WalletNext]_walletVars => [ArkadeNext]_arkadeVars
    <2>1. WalletNext => ArkadeNext \/ UNCHANGED arkadeVars
      BY Zenon DEF WalletNext
    <2>2. UNCHANGED walletVars => UNCHANGED arkadeVars
      BY DEF walletVars
    <2> QED
      BY <2>1, <2>2
  <1> QED
    BY <1>1, <1>2, PTL DEF WalletSpec, ArkadeSpec

\* The wallet runs the Bitcoin spend as it runs alone.
LEMMA WalletRunsBtc == WalletSpec => BtcSpec
  <1>1. WalletInit => BtcInit
    BY DEF WalletInit
  <1>2. [WalletNext]_walletVars => [BtcNext]_btcVars
    <2>1. WalletNext => BtcNext \/ UNCHANGED btcVars
      BY Zenon DEF WalletNext
    <2>2. UNCHANGED walletVars => UNCHANGED btcVars
      BY DEF walletVars
    <2> QED
      BY <2>1, <2>2
  <1> QED
    BY <1>1, <1>2, PTL DEF WalletSpec, BtcSpec

\* The wallet runs the readers as it runs alone.
LEMMA WalletRunsReader == WalletSpec => ReaderSpec
  <1>1. WalletInit => ReaderInit
    BY DEF WalletInit
  <1>2. [WalletNext]_walletVars => [ReaderNext]_readerVars
    <2>1. WalletNext => ReaderNext \/ UNCHANGED readerVars
      BY Zenon DEF WalletNext
    <2>2. UNCHANGED walletVars => UNCHANGED readerVars
      BY DEF walletVars
    <2> QED
      BY <2>1, <2>2
  <1> QED
    BY <1>1, <1>2, PTL DEF WalletSpec, ReaderSpec

\* The wallet runs the status watcher as it runs alone.
LEMMA WalletRunsWatcher == WalletSpec => WatcherSpec
  <1>1. WalletInit => WatcherInit
    BY DEF WalletInit
  <1>2. [WalletNext]_walletVars => [WatcherNext]_watcherVars
    <2>1. WalletNext => WatcherNext \/ UNCHANGED watcherVars
      BY Zenon DEF WalletNext
    <2>2. UNCHANGED walletVars => UNCHANGED watcherVars
      BY DEF walletVars
    <2> QED
      BY <2>1, <2>2
  <1> QED
    BY <1>1, <1>2, PTL DEF WalletSpec, WatcherSpec

\* The wallet runs the Electrum client as it runs alone.
LEMMA WalletRunsElectrum == WalletSpec => ElectrumSpec
  <1>1. WalletInit => ElectrumInit
    BY DEF WalletInit
  <1>2. [WalletNext]_walletVars => [ElectrumNext]_electrumVars
    <2>1. WalletNext => ElectrumNext \/ UNCHANGED electrumVars
      BY Zenon DEF WalletNext
    <2>2. UNCHANGED walletVars => UNCHANGED electrumVars
      BY DEF walletVars
    <2> QED
      BY <2>1, <2>2
  <1> QED
    BY <1>1, <1>2, PTL DEF WalletSpec, ElectrumSpec

\* The wallet runs the storage as it runs alone.
LEMMA WalletRunsStore == WalletSpec => StoreSpec
  <1>1. WalletInit => StoreInit
    BY DEF WalletInit
  <1>2. [WalletNext]_walletVars => [StoreNext]_storeVars
    <2>1. WalletNext => StoreNext \/ UNCHANGED storeVars
      BY Zenon DEF WalletNext
    <2>2. UNCHANGED walletVars => UNCHANGED storeVars
      BY DEF walletVars
    <2> QED
      BY <2>1, <2>2
  <1> QED
    BY <1>1, <1>2, PTL DEF WalletSpec, StoreSpec

\* The wallet runs the signing of a funding batch as it runs alone.
LEMMA WalletRunsPins == WalletSpec => PinsSpec
  <1>1. WalletInit => PinsInit
    BY DEF WalletInit
  <1>2. [WalletNext]_walletVars => [PinsNext]_pinVars
    <2>1. WalletNext => PinsNext \/ UNCHANGED pinVars
      BY Zenon DEF WalletNext
    <2>2. UNCHANGED walletVars => UNCHANGED pinVars
      BY DEF walletVars
    <2> QED
      BY <2>1, <2>2
  <1> QED
    BY <1>1, <1>2, PTL DEF WalletSpec, PinsSpec

\* The wallet follows a swap as the client does alone.
LEMMA WalletRunsFollow == WalletSpec => FollowSpec
  <1>1. WalletInit => FollowInit
    BY DEF WalletInit
  <1>2. [WalletNext]_walletVars => [FollowNext]_followVars
    <2>1. WalletNext => FollowNext \/ UNCHANGED followVars
      BY Zenon DEF WalletNext
    <2>2. UNCHANGED walletVars => UNCHANGED followVars
      BY DEF walletVars
    <2> QED
      BY <2>1, <2>2
  <1> QED
    BY <1>1, <1>2, PTL DEF WalletSpec, FollowSpec

\* The wallet signs and refunds an EVM lock as the client does alone.
LEMMA WalletRunsAuthority == WalletSpec => AuthoritySpec
  <1>1. WalletInit => AuthorityInit
    BY DEF WalletInit
  <1>2. [WalletNext]_walletVars => [AuthorityNext]_authorityVars
    <2>1. WalletNext => AuthorityNext \/ UNCHANGED authorityVars
      BY Zenon DEF WalletNext
    <2>2. UNCHANGED walletVars => UNCHANGED authorityVars
      BY DEF walletVars
    <2> QED
      BY <2>1, <2>2
  <1> QED
    BY <1>1, <1>2, PTL DEF WalletSpec, AuthoritySpec

\* The wallet runs the hint feed as it runs alone.
LEMMA WalletRunsFeed == WalletSpec => FeedSpec
  <1>1. WalletInit => FeedInit
    BY DEF WalletInit
  <1>2. [WalletNext]_walletVars => [FeedNext]_feedVars
    <2>1. WalletNext => FeedNext \/ UNCHANGED feedVars
      BY Zenon DEF WalletNext
    <2>2. UNCHANGED walletVars => UNCHANGED feedVars
      BY DEF walletVars
    <2> QED
      BY <2>1, <2>2
  <1> QED
    BY <1>1, <1>2, PTL DEF WalletSpec, FeedSpec

\* The wallet runs its quotes as they run alone.
LEMMA WalletRunsQuote == WalletSpec => QuoteSpec
  <1>1. WalletInit => QuoteInit
    BY DEF WalletInit
  <1>2. [WalletNext]_walletVars => [QuoteNext]_quoteVars
    <2>1. WalletNext => QuoteNext \/ UNCHANGED quoteVars
      BY Zenon DEF WalletNext
    <2>2. UNCHANGED walletVars => UNCHANGED quoteVars
      BY DEF walletVars
    <2> QED
      BY <2>1, <2>2
  <1> QED
    BY <1>1, <1>2, PTL DEF WalletSpec, QuoteSpec

\* Whatever close, error, idle or reconnect event comes late, on whichever of the three
\* sockets, no subscription is left without the means to be heard again (status-watcher.ts,
\* electrum-ws.ts, hint-feed.ts).
THEOREM WalletSocketsHeal == WalletSpec => []SocketsHeal
  <1>1. NobodyGoesUnheard /\ PushHeals /\ HintsReachActive => SocketsHeal
    BY DEF SocketsHeal
  <1> QED
    BY <1>1, WalletRunsWatcher, WalletRunsElectrum, WalletRunsFeed, WatcherHeals, ElectrumHeals, FeedReaches, PTL

\* No deposit of the wallet is made twice, by an EVM funding or by a CCTP burn, unless the
\* first left no record of itself, whatever crashed, failed or was replaced in between.
THEOREM WalletPaysOnce == WalletSpec => []PaidTwiceOnlyUnrecorded
  <1>1. FundedTwiceOnlyUnrecorded /\ BurnedTwiceOnlyUnrecorded => PaidTwiceOnlyUnrecorded
    BY DEF PaidTwiceOnlyUnrecorded
  <1> QED
    BY <1>1, WalletRunsFunding, WalletRunsCctp, FundingRecords, CctpRecords, PTL

\* What the wallet paid can be reached again: a deposit on record is refunded from the lock it
\* is in now, however many rehashes moved it, every rehash that may land is remembered, every
\* lock has a wallet of the client's that refunds it, and a burn leaves what settles it.
THEOREM WalletPaidIsReachable == WalletSpec => []PaidIsReachable
  <1>1. RefundFindsLock /\ RefundIsOpen /\ RehashRemembered /\ BurnedIsRecoverable => PaidIsReachable
    BY DEF PaidIsReachable
  <1> QED
    BY <1>1, WalletRunsFunding, WalletRunsAuthority, WalletRunsCctp, RehashesFound, AuthorityAgrees,
       CctpRecords, PTL

\* The wallet never gives up a refund as settled while its lock is open.
THEOREM WalletSettledIsFinal == WalletSpec => []SettledIsFinal
  BY WalletRunsFunding, FundingRecords, PTL

\* What a claim of the EVM leg returned to the caller of the wallet is true of the chain.
THEOREM WalletOutcomeIsTrue == WalletSpec => []OutcomeIsTrue
  BY WalletRunsClaim, ClaimOutcomeIsTrue, PTL

\* What the wallet reports spent of an Arkade HTLC is gone for good.
THEOREM WalletSpentIsFinal == WalletSpec => []SpentIsFinal
  BY WalletRunsArkade, ArkadeSpentIsFinal, PTL

\* The wallet calls a Bitcoin HTLC dust, or empty, only if no output it was shown was worth
\* spending.
THEOREM WalletDustShadowsNothing == WalletSpec => []DustShadowsNothing
  BY WalletRunsBtc, BtcDustShadowsNothing, PTL

\* A leg that the wallet reads as funded, by any of its readers, is payable.
THEOREM WalletFundedIsPayable == WalletSpec => []FundedIsPayable
  BY WalletRunsReader, ReaderFundedIsPayable, PTL

\* The contracts accept what the wallet built from its own reading of an EVM lock, and the
\* refund of one pays an address of the client's, whichever of its keys asked for it.
THEOREM WalletBuiltIsAccepted == WalletSpec => []BuiltIsAccepted
  BY WalletRunsAuthority, AuthorityAgrees, PTL

\* The wallet gives up a swap as completed or refunded only when the chain says so.
THEOREM WalletNoneMeansSettled == WalletSpec => []NoneMeansSettled
  BY WalletRunsFollow, FollowEndsTruly, PTL

\* The wallet's worker starts a claim only while the server cannot refund, but for the two
\* cases of ClaimsOnlyInWindow.
THEOREM WalletClaimsOnlyInWindow == WalletSpec => ClaimsOnlyInWindow
  BY WalletRunsFollow, FollowClaimsInWindow, PTL

\* No swap of the wallet is stored under keys that cannot open it, and unless two calls
\* overlap in the key index no two are created under the same keys.
THEOREM WalletKeysFitSwaps == WalletSpec => []KeysFitSwaps
  BY WalletRunsStore, StoreKeeps, PTL

\* What a creation or a funding of the wallet recorded outlives every recovery and every
\* other write but one that overlapped it.
THEOREM WalletWrittenOutlives == WalletSpec => []WrittenOutlives
  BY WalletRunsStore, StoreKeeps, PTL

\* A recovery of the wallet that the server called complete has stored every swap it was
\* asked for.
THEOREM WalletRecoveredAll == WalletSpec => []RecoveredAll
  BY WalletRunsStore, StoreKeeps, PTL

\* Whatever calls the server put in the batch, what the wallet signs takes of the depositor
\* no more than was accepted, and all of it for the lock, the capped relay fee or a
\* contract that may have it.
THEOREM WalletFundingIsBound == WalletSpec => []FundingIsBound
  BY WalletRunsPins, PinsBound, PTL
\* A wallet runs one of its machines, always the same.
LEMMA WalletStays == WalletSpec => [](rail \in Rails)
  <1> DEFINE OnRails == rail \in Rails
  <1>1. WalletInit => OnRails
    BY DEF WalletInit
  <1>2. OnRails /\ [WalletNext]_walletVars => OnRails'
    <2>1. WalletNext => rail' = rail
      BY Zenon DEF WalletNext
    <2>2. UNCHANGED walletVars => rail' = rail
      BY DEF walletVars
    <2> QED
      BY <2>1, <2>2
  <1> HIDE DEF OnRails
  <1>3. WalletSpec => []OnRails
    BY <1>1, <1>2, PTL DEF WalletSpec
  <1> QED
    BY <1>3 DEF OnRails

\* Whichever machine the wallet runs keeps its types and its bounds.
THEOREM WalletTypes == WalletSpec => []WalletTypeOK
  <1>1. ASSUME rail \in Rails, FundingTypeOK, CctpTypeOK, ClaimTypeOK, ArkadeTypeOK, BtcTypeOK, StoreTypeOK,
               FollowTypeOK, ReaderTypeOK, WatcherTypeOK, ElectrumTypeOK, FeedTypeOK, PinsTypeOK,
               AuthorityTypeOK, QuoteTypeOK
        PROVE  WalletTypeOK
    BY <1>1 DEF Rails, Takes, WalletTypeOK
  <1> QED
    BY <1>1, WalletStays, WalletRunsFunding, WalletRunsCctp, WalletRunsClaim, WalletRunsArkade, WalletRunsBtc,
       WalletRunsStore, WalletRunsFollow, WalletRunsReader, WalletRunsWatcher, WalletRunsElectrum,
       WalletRunsFeed, WalletRunsPins, WalletRunsAuthority, WalletRunsQuote, FundingTypes, CctpTypes,
       ClaimTypes, ArkadeTypes, BtcTypes, StoreKeeps, FollowTypes, ReaderFundedIsPayable, WatcherHeals,
       ElectrumHeals, FeedReaches, PinsBound, AuthorityAgrees, QuoteTypes, PTL

\* Every quote the wallet composes is honoured.
THEOREM WalletQuoteIsHonoured == WalletSpec => []QuoteIsHonoured
  BY WalletRunsQuote, QuotesHonoured, PTL

=================================================================================
