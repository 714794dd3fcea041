--------------------------- MODULE FollowSwapProofs ---------------------------
(***************************************************************************)
(* How a swap is followed, proved for every pair of ledgers and any number  *)
(* of reads, retries and pushed statuses: the worker starts a claim only in *)
(* its window, and a swap is given up as ended only when the chain says so.  *)
(***************************************************************************)
EXTENDS FollowSwap, SequenceTheorems, FiniteSetTheorems, TLAPS


FollowObserved == HtlcObservation \cup {"unseen", "noleg"}
FollowAnswers == {"fund", "wait", "claim", "refund_unilateral", "none", "nothing"}
FollowClients ==
    [refs : SUBSET Legs, seen : [Legs -> FollowObserved], clocks : SUBSET Legs,
     listening : BOOLEAN, tracked : BOOLEAN, unregistered : BOOLEAN,
     last : [offer : Offers, seen : [Legs -> FollowObserved \cup {"never"}]],
     hint : SwapStatus, working : BOOLEAN, subscribed : BOOLEAN, executing : BOOLEAN,
     attempts : 0..MaxAttempts, timer : BOOLEAN, needsUser : BOOLEAN,
     surfaced : FollowAnswers, settled : BOOLEAN, loaded : BOOLEAN]

\* What was seen of a leg, once it is a spend, is what the chain has.
FollowSeenOK(seen, legs, ch) ==
    /\ seen["server"] # "invalid"
    /\ \A l \in Legs : /\ l \notin legs <=> seen[l] = "noleg"
                       /\ seen[l] \in Spent => ch[l] = seen[l]

\* A claim the server reports is on the chain.
FollowTruth(status, ch) ==
    status \in {"clientredeemed", "serverredeemed"} =>
        ch["server"] = "spent_claim" \/ ch["client"] = "spent_claim"

\* A swap's end has its reason on the chain.
FollowNoneOK(offer, legs, ch) ==
    offer.recommended = "none" =>
        /\ offer.as = "completed" => ch["server"] = "spent_claim" \/ ch["client"] = "spent_claim"
        /\ offer.as = "refunded" => "client" \notin legs \/ ch["client"] = "spent_refund"

FollowBaseOK(c, legs, ch, md) ==
    /\ c \in FollowClients
    /\ c.refs \subseteq legs /\ c.clocks \subseteq legs
    /\ FollowSeenOK(c.seen, legs, ch)
    /\ md = "chain" => FollowNoneOK(c.last.offer, legs, ch) /\ FollowTruth(c.hint, ch)

FollowBlank(legs) == [l \in Legs |-> IF l \in legs THEN "unseen" ELSE "noleg"]

\* Before the worker starts: a tracked swap with an action is known, an untracked one has
\* ended or waits for its registration.
FollowRestOK(c, legs, md) ==
    md = "chain" /\ ~c.working =>
        /\ c.tracked /\ c.last # NoOffer => \A l \in legs : c.seen[l] # "unseen" /\ l \in c.clocks
        /\ ~c.tracked /\ c.last # NoOffer => c.unregistered \/ c.last.offer.recommended = "none"
        /\ ~c.tracked /\ ~c.unregistered => c.refs = {} /\ c.seen = FollowBlank(legs)

FollowChainOK(ch, legs, sent) ==
    /\ ch \in [Legs -> HtlcObservation \cup {"noleg"}]
    /\ \A l \in Legs : l \notin legs <=> ch[l] = "noleg"
    /\ ch["server"] # "invalid"
    /\ ch["server"] = "spent_claim" => sent
    /\ ch["client"] = "spent_claim" => ch["server"] \in {"noleg", "spent_claim"}

FollowEnvOK ==
    /\ direction \in Directions /\ mode \in Modes /\ relayed \in BOOLEAN /\ time \in 0..3
    /\ FollowChainOK(chain, LegsOf, relayed)

-----------------------------------------------------------------------------
\* A swap has a leg, and at most two.
LEMMA FollowLegs ==
  ASSUME direction \in Directions
  PROVE  /\ LegsOf \subseteq Legs /\ LegsOf # {} /\ Unseen = FollowBlank(LegsOf)
         /\ IsFiniteSet(LegsOf) /\ Cardinality(LegsOf) \in {1, 2}
  <1>1. LegsOf \subseteq Legs /\ Unseen = FollowBlank(LegsOf)
    BY DEF LegsOf, Unseen, FollowBlank
  <1>2. LegsOf # {}
    BY FollowAssumption DEF LegsOf, Ledger, Ledgers, Legs
  <1>3. LegsOf = {"client"} \/ LegsOf = {"server"} \/ LegsOf = {"client", "server"}
    BY <1>1, <1>2 DEF Legs
  <1>4. IsFiniteSet(LegsOf) /\ Cardinality(LegsOf) \in {1, 2}
    <2>1. CASE LegsOf = {"client"} \/ LegsOf = {"server"}
      BY <2>1, FS_Singleton
    <2>2. CASE LegsOf = {"client", "server"}
      <3>1. LegsOf = {"client"} \cup {"server"} /\ "server" \notin {"client"}
        BY <2>2
      <3>2. IsFiniteSet({"client"}) /\ Cardinality({"client"}) = 1
        BY FS_Singleton
      <3> QED
        BY <3>1, <3>2, FS_AddElement
    <2> QED
      BY <1>3, <2>1, <2>2
  <1> QED
    BY <1>1, <1>2, <1>4

\* The offers that are derived of a status, its claim window closed or not.
FollowWaits == {"client_payment", "client_funding_confirmation", "server_funding",
                "refund_timelock", "claim_confirmation"}
FollowOffered(offer, s, closed, cf) ==
    \/ \E w \in FollowWaits, f \in {"no", "blocked"} : offer = Offer("wait", w, f)
    \/ \E id \in {"refund_unilateral", "fund", "nothing"}, f \in {"no", "open"} :
            offer = Offer(id, "", f)
    \/ offer = Offer("none", "expired", "no")
    \/ offer = Offer("none", "refunded", "no") /\ (s \in RefundedStatus \/ ~cf)
    \/ /\ offer = Offer("none", "completed", "no")
       /\ s \in {"clientredeemed", "serverredeemed", "clientredeemedandclientrefunded"}
    \/ offer = Offer("claim", "", "no") /\ ~closed

\* Each is an offer; a claim is offered in its window.
LEMMA FollowOffers ==
  ASSUME NEW s, NEW closed, NEW cf, NEW offer, FollowOffered(offer, s, closed, cf)
  PROVE  /\ offer \in Offers
         /\ offer.recommended = "claim" => ~closed
         /\ offer.recommended = "none" /\ offer.as = "completed" =>
                s \in {"clientredeemed", "serverredeemed", "clientredeemedandclientrefunded"}
         /\ offer.recommended = "none" /\ offer.as = "refunded" => s \in RefundedStatus \/ ~cf
  <1>1. CASE \E w \in FollowWaits, f \in {"no", "blocked"} : offer = Offer("wait", w, f)
    <2>1. PICK w \in FollowWaits, f \in {"no", "blocked"} : offer = Offer("wait", w, f)
      BY <1>1
    <2>2. offer \in Offers
      BY <2>1 DEF Offer, Offers, FollowWaits
    <2>3. offer.recommended = "wait"
      BY <2>1 DEF Offer
    <2> QED
      BY <2>2, <2>3
  <1>2. CASE \E id \in {"refund_unilateral", "fund", "nothing"}, f \in {"no", "open"} :
                offer = Offer(id, "", f)
    <2>1. PICK id \in {"refund_unilateral", "fund", "nothing"}, f \in {"no", "open"} :
                offer = Offer(id, "", f)
      BY <1>2
    <2>2. offer \in Offers
      BY <2>1 DEF Offer, Offers
    <2>3. offer.recommended = id
      BY <2>1 DEF Offer
    <2> QED
      BY <2>2, <2>3
  <1>3. CASE offer = Offer("none", "expired", "no")
    BY <1>3 DEF Offer, Offers
  <1>4. CASE offer = Offer("none", "refunded", "no") /\ (s \in RefundedStatus \/ ~cf)
    BY <1>4 DEF Offer, Offers
  <1>5. CASE /\ offer = Offer("none", "completed", "no")
             /\ s \in {"clientredeemed", "serverredeemed", "clientredeemedandclientrefunded"}
    BY <1>5 DEF Offer, Offers
  <1>6. CASE offer = Offer("claim", "", "no") /\ ~closed
    <2>1. offer \in Offers
      BY <1>6 DEF Offer, Offers
    <2>2. offer.recommended = "claim"
      BY <1>6 DEF Offer
    <2> QED
      BY <2>1, <2>2, <1>6
  <1> QED
    BY <1>1, <1>2, <1>3, <1>4, <1>5, <1>6 DEF FollowOffered

\* What is derived is one of them.
LEMMA FollowDerives ==
  ASSUME NEW s \in SwapStatus, s # "none", NEW moment \in Moment, NEW cf \in BOOLEAN, NEW sf \in BOOLEAN
  PROVE  FollowOffered(DeriveSwapActions(s, moment, cf, sf), s, moment.claimClosed, cf)
  <1> USE DEF WaitFor, Done, NothingOffered, RefundOr, FollowWaits, FailedStatus, RefundedStatus,
              FollowOffered
  <1>1. CASE s = "pending"
    BY <1>1 DEF DeriveSwapActions, PendingActions
  <1>2. CASE s = "clientfunded"
    BY <1>2 DEF DeriveSwapActions, ClientFundedActions
  <1>3. CASE s = "serverfunded"
    BY <1>3 DEF DeriveSwapActions, ServerFundedActions
  <1>4. CASE s \in FailedStatus
    BY <1>4 DEF DeriveSwapActions, FailedActions
  <1>5. CASE s \in RefundedStatus
    BY <1>5 DEF DeriveSwapActions
  <1>6. CASE s \in {"clientredeemed", "serverredeemed", "clientredeemedandclientrefunded"}
    BY <1>6 DEF DeriveSwapActions
  <1>7. CASE s \in {"clientfundingseen", "clientredeeming", "expired"}
    BY <1>7 DEF DeriveSwapActions
  <1> QED
    BY <1>1, <1>2, <1>3, <1>4, <1>5, <1>6, <1>7 DEF SwapStatus, ClientOnly

\* What the worker does on an action leaves the managers and the tracker alone; it starts
\* a run only for a claim.
FollowHeard(c, offer, r) ==
    /\ r \in FollowClients
    /\ r.refs = c.refs /\ r.seen = c.seen /\ r.clocks = c.clocks /\ r.tracked = c.tracked
    /\ r.unregistered = c.unregistered /\ r.last = c.last /\ r.hint = c.hint
    /\ r.working = c.working /\ r.listening = c.listening
    /\ r.executing => c.executing \/ offer.recommended = "claim"

\* Whatever the action.
LEMMA FollowHears ==
  ASSUME NEW c \in FollowClients, NEW offer \in Offers
  PROVE  FollowHeard(c, offer, OnActions(c, offer))
  <1> DEFINE r == OnActions(c, offer)
  <1> SUFFICES FollowHeard(c, offer, r)
    OBVIOUS
  <1> DEFINE s0 == [c EXCEPT !.subscribed = FALSE]
             s1 == [c EXCEPT !.subscribed = TRUE]
             s2 == [c EXCEPT !.subscribed = TRUE, !.needsUser = FALSE]
             Same(d) == /\ d \in FollowClients
                        /\ d.refs = c.refs /\ d.seen = c.seen /\ d.clocks = c.clocks /\ d.tracked = c.tracked
                        /\ d.unregistered = c.unregistered /\ d.last = c.last /\ d.hint = c.hint
                        /\ d.working = c.working /\ d.listening = c.listening
  <1>1. Same(s0) /\ Same(s1) /\ Same(s2)
        /\ s0.executing = c.executing /\ s1.executing = c.executing /\ s2.executing = c.executing
    BY DEF FollowClients
  <1> HIDE DEF s0, s1, s2
  <1>0. c \in FollowClients /\ offer.recommended \in FollowAnswers /\ Same(c)
    BY DEF FollowAnswers, Offers
  <1>2. ASSUME NEW d, Same(d)
        PROVE Same(CancelRetry(d)) /\ CancelRetry(d).executing = d.executing
    <2>1. 0 \in 0..MaxAttempts
      BY FollowAssumption
    <2>2. CancelRetry(d) = [d EXCEPT !.attempts = 0, !.timer = FALSE]
      BY DEF CancelRetry
    <2> QED
      BY <1>2, <2>1, <2>2 DEF FollowClients
  <1>3. ASSUME NEW d, Same(d)
        PROVE Same([d EXCEPT !.surfaced = offer.recommended])
              /\ [d EXCEPT !.surfaced = offer.recommended].executing = d.executing
    BY <1>3 DEF FollowClients, FollowAnswers, Offers
  <1>4. ASSUME NEW d, Same(d) PROVE Same([d EXCEPT !.executing = TRUE])
    BY <1>4 DEF FollowClients
  <1>5. CASE ~c.working
    <2>1. r = c
      BY <1>5 DEF OnActions
    <2> HIDE DEF r
    <2> QED
      BY <2>1, <1>0 DEF FollowHeard
  <1>6. CASE c.working /\ offer.recommended = "none"
    <2>1. r = CancelRetry(s0)
      BY <1>6 DEF OnActions, s0
    <2>2. Same(r) /\ r.executing = c.executing
      BY <2>1, <1>1, <1>2
    <2> HIDE DEF r
    <2> QED
      BY <2>2, <1>6 DEF FollowHeard
  <1>7. CASE c.working /\ offer.recommended = "claim"
    <2>1. r = IF c.needsUser THEN s1 ELSE AutoExecute(s1)
      BY <1>7 DEF OnActions, s1
    <2>2. r = s1 \/ r = [s1 EXCEPT !.executing = TRUE]
      BY <2>1 DEF AutoExecute
    <2> HIDE DEF r
    <2> QED
      BY <2>2, <1>1, <1>4, <1>7 DEF FollowHeard
  <1>8. CASE c.working /\ offer.recommended \notin {"none", "claim"}
    <2>1. r = IF Automation(offer) \in {"manual", "confirm"} THEN SurfaceTo(CancelRetry(s2), offer.recommended)
              ELSE CancelRetry(s2)
      BY <1>8 DEF OnActions, s2
    <2>2. r = CancelRetry(s2) \/ r = [CancelRetry(s2) EXCEPT !.surfaced = offer.recommended]
      BY <2>1 DEF SurfaceTo
    <2>3. Same(CancelRetry(s2)) /\ CancelRetry(s2).executing = c.executing
      BY <1>1, <1>2
    <2>4. Same(r) /\ r.executing = c.executing
      BY <2>2, <2>3, <1>3
    <2> HIDE DEF r
    <2> QED
      BY <2>4, <1>8 DEF FollowHeard
  <1> QED
    BY <1>5, <1>6, <1>7, <1>8, <1>0

-----------------------------------------------------------------------------
(* The tracker. *)

FollowNew(status, seen) ==
    [offer |-> DeriveSwapActions(status, Moments(time), "client" \in LegsOf, "server" \in LegsOf),
     seen |-> seen]

\* Deriving touches the last action and what the worker holds; the end of a swap drops it.
FollowTold(c, new, r, legs, t) ==
    /\ r \in FollowClients
    /\ r.working = c.working /\ r.unregistered = c.unregistered /\ r.hint = c.hint
    /\ r.listening = c.listening /\ r.last = new
    /\ r.executing => c.executing \/ t = 0
    /\ \/ r.tracked = c.tracked /\ r.refs = c.refs /\ r.seen = c.seen /\ r.clocks = c.clocks
       \/ /\ ~r.tracked /\ new.offer.recommended = "none"
          /\ r.refs = {} /\ r.seen = FollowBlank(legs) /\ r.clocks \subseteq c.clocks

FollowShapeOK(c, legs) ==
    /\ c \in FollowClients /\ c.refs \subseteq legs /\ c.clocks \subseteq legs
    /\ \A l \in Legs : l \notin legs <=> c.seen[l] = "noleg"

\* Releasing legs forgets what was seen of them.
LEMMA FollowReleases ==
  ASSUME direction \in Directions, NEW c, FollowShapeOK(c, LegsOf), NEW ls, ls \subseteq Legs
  PROVE  /\ FollowShapeOK(Release(c, ls), LegsOf)
         /\ Release(c, ls).refs = c.refs \ ls /\ Release(c, ls).clocks \subseteq c.clocks
         /\ Release(c, ls).seen = [l \in Legs |-> IF l \in ls THEN Unseen[l] ELSE c.seen[l]]
         /\ Release(c, ls).tracked = c.tracked /\ Release(c, ls).last = c.last
         /\ Release(c, ls).working = c.working /\ Release(c, ls).hint = c.hint
         /\ Release(c, ls).unregistered = c.unregistered /\ Release(c, ls).executing = c.executing
         /\ Release(c, ls).listening = c.listening
  <1> DEFINE seen == [l \in Legs |-> IF l \in ls THEN Unseen[l] ELSE c.seen[l]]
             refs == c.refs \ ls
             clocks == {l \in c.clocks : l \notin ls \/ Ledger(l) # "evm"}
  <1>1. c \in FollowClients /\ c.refs \subseteq LegsOf /\ c.clocks \subseteq LegsOf
        /\ c.seen \in [Legs -> FollowObserved] /\ c.refs \subseteq Legs /\ c.clocks \subseteq Legs
    BY DEF FollowShapeOK, FollowClients
  <1>2. \A l \in Legs : Unseen[l] \in FollowObserved /\ (l \notin LegsOf <=> Unseen[l] = "noleg")
    BY FollowLegs DEF FollowBlank, FollowObserved
  <1>3. seen \in [Legs -> FollowObserved] /\ refs \subseteq LegsOf /\ clocks \subseteq LegsOf
        /\ refs \in SUBSET Legs /\ clocks \in SUBSET Legs /\ clocks \subseteq c.clocks
        /\ \A l \in Legs : l \notin LegsOf <=> seen[l] = "noleg"
    BY <1>1, <1>2 DEF FollowShapeOK
  <1>4. Release(c, ls) = [c EXCEPT !.refs = refs, !.seen = seen, !.clocks = clocks]
    <2>1. [l \in Legs |-> IF l \in ls THEN Unseen[l] ELSE c.seen[l]] = seen
      OBVIOUS
    <2> QED
      BY DEF Release
  <1> HIDE DEF seen, refs, clocks
  <1>5. Release(c, ls) \in FollowClients
    BY <1>1, <1>3, <1>4 DEF FollowClients
  <1>6. /\ Release(c, ls).refs = refs /\ Release(c, ls).seen = seen /\ Release(c, ls).clocks = clocks
        /\ Release(c, ls).tracked = c.tracked /\ Release(c, ls).last = c.last
        /\ Release(c, ls).working = c.working /\ Release(c, ls).hint = c.hint
        /\ Release(c, ls).unregistered = c.unregistered /\ Release(c, ls).executing = c.executing
        /\ Release(c, ls).listening = c.listening
    BY <1>1, <1>4 DEF FollowClients
  <1> QED
    BY <1>3, <1>5, <1>6 DEF FollowShapeOK, refs, seen

\* What is derived now is an offer, and a claim only in its window.
LEMMA FollowFresh ==
  ASSUME time \in 0..3, NEW status \in SwapStatus, status # "none", NEW seen
  PROVE  FollowNew(status, seen).offer \in Offers
         /\ (FollowNew(status, seen).offer.recommended = "claim" => time = 0)
  <1> DEFINE offer == DeriveSwapActions(status, Moments(time), "client" \in LegsOf, "server" \in LegsOf)
  <1>1. Moments(time) \in Moment /\ (~Moments(time).claimClosed => time = 0)
    <2>1. Moments(time) \in Moment
      BY DEF Moments, Moment
    <2>2. time >= 1 => Moments(time).claimClosed
      BY DEF Moments
    <2> QED
      BY <2>1, <2>2
  <1>2. FollowOffered(offer, status, Moments(time).claimClosed, "client" \in LegsOf)
    <2>1. ("client" \in LegsOf) \in BOOLEAN /\ ("server" \in LegsOf) \in BOOLEAN
      OBVIOUS
    <2> QED
      BY <1>1, <2>1, FollowDerives
  <1>3. FollowNew(status, seen).offer = offer
    BY DEF FollowNew
  <1> HIDE DEF offer
  <1>4. offer \in Offers /\ (offer.recommended = "claim" => ~Moments(time).claimClosed)
    BY <1>2, FollowOffers
  <1> QED
    BY <1>1, <1>3, <1>4

\* A status is reported, or known already.
LEMMA FollowEmits ==
  ASSUME direction \in Directions, time \in 0..3, NEW c, FollowShapeOK(c, LegsOf),
         NEW status \in SwapStatus, status # "none", NEW seen \in [Legs -> FollowObserved],
         NEW force \in BOOLEAN
  PROVE  FollowTold(c, FollowNew(status, seen), Emit(c, status, seen, force), LegsOf, time)
  <1> DEFINE new == FollowNew(status, seen)
             offer == DeriveSwapActions(status, Moments(time), "client" \in LegsOf, "server" \in LegsOf)
             d == [c EXCEPT !.last = new, !.loaded = FALSE]
             told == OnActions(d, offer)
  <1>1. new.offer = offer
    BY DEF FollowNew
  <1>2. offer \in Offers /\ (offer.recommended = "claim" => time = 0)
    <2>1. new.offer \in Offers /\ (new.offer.recommended = "claim" => time = 0)
      BY FollowFresh
    <2> HIDE DEF new, offer
    <2> QED
      BY <1>1, <2>1
  <1>3. new = [offer |-> offer, seen |-> seen]
    BY DEF FollowNew
  <1>4. Emit(c, status, seen, force) =
            IF ~force /\ c.last = new THEN c ELSE IF offer.recommended = "none" THEN Untrack(told) ELSE told
    BY <1>3 DEF Emit
  <1> HIDE DEF new, offer
  <1>5. new \in [offer : Offers, seen : [Legs -> FollowObserved \cup {"never"}]] /\ new.offer = offer
    BY <1>2, <1>3
  <1>6. c \in FollowClients
    BY DEF FollowShapeOK
  <1>7. d \in FollowClients /\ d.refs = c.refs /\ d.seen = c.seen /\ d.clocks = c.clocks
        /\ d.tracked = c.tracked /\ d.unregistered = c.unregistered /\ d.last = new
        /\ d.hint = c.hint /\ d.working = c.working /\ d.listening = c.listening
        /\ d.executing = c.executing
    BY <1>5, <1>6 DEF FollowClients
  <1> HIDE DEF d
  <1>8. /\ told \in FollowClients
        /\ told.refs = c.refs /\ told.seen = c.seen /\ told.clocks = c.clocks
        /\ told.tracked = c.tracked /\ told.unregistered = c.unregistered /\ told.last = new
        /\ told.hint = c.hint /\ told.working = c.working /\ told.listening = c.listening
        /\ told.executing => c.executing \/ time = 0
    BY <1>2, <1>7, FollowHears DEF FollowHeard
  <1> HIDE DEF told
  <1>9. FollowTold(c, new, told, LegsOf, time)
    BY <1>8 DEF FollowTold
  <1>10. CASE ~force /\ c.last = new
    BY <1>4, <1>6, <1>10 DEF FollowTold, new
  <1>11. CASE ~(~force /\ c.last = new) /\ offer.recommended # "none"
    BY <1>4, <1>9, <1>11 DEF new
  <1>12. CASE ~(~force /\ c.last = new) /\ offer.recommended = "none"
    <2> DEFINE u == [told EXCEPT !.tracked = FALSE]
    <2>1. u \in FollowClients /\ u.refs = c.refs /\ u.seen = c.seen /\ u.clocks = c.clocks
          /\ u.tracked = FALSE /\ u.unregistered = c.unregistered /\ u.last = new
          /\ u.hint = c.hint /\ u.working = c.working /\ u.listening = c.listening
          /\ u.executing = told.executing
      BY <1>8 DEF FollowClients
    <2>2. Emit(c, status, seen, force) = Release(u, LegsOf)
      BY <1>4, <1>12 DEF Untrack
    <2> HIDE DEF u
    <2>3. FollowShapeOK(u, LegsOf)
      BY <2>1 DEF FollowShapeOK
    <2> DEFINE r == Release(u, LegsOf)
    <2>4. LegsOf \subseteq Legs
      BY FollowLegs
    <2>5. /\ FollowShapeOK(r, LegsOf)
          /\ r.refs = u.refs \ LegsOf /\ r.clocks \subseteq u.clocks
          /\ r.seen = [l \in Legs |-> IF l \in LegsOf THEN Unseen[l] ELSE u.seen[l]]
          /\ r.tracked = u.tracked /\ r.last = u.last /\ r.working = u.working /\ r.hint = u.hint
          /\ r.unregistered = u.unregistered /\ r.executing = u.executing
          /\ r.listening = u.listening
      BY <2>3, <2>4, FollowReleases
    <2> HIDE DEF r
    <2>6. r.seen = FollowBlank(LegsOf)
      <3>1. \A l \in Legs : l \notin LegsOf => u.seen[l] = "noleg"
        BY <2>3 DEF FollowShapeOK
      <3> QED
        BY <2>5, <3>1, FollowLegs DEF FollowBlank
    <2>7. r.refs = {}
      BY <2>5, <2>3 DEF FollowShapeOK
    <2>8. r \in FollowClients
      BY <2>5 DEF FollowShapeOK
    <2>9. FollowTold(c, new, r, LegsOf, time)
      BY <2>1, <2>5, <2>6, <2>7, <2>8, <1>5, <1>8, <1>12 DEF FollowTold
    <2> QED
      BY <2>2, <2>9 DEF new, r
  <1> QED
    BY <1>10, <1>11, <1>12

\* What a status derived of the legs says of them.
LEMMA FollowStatusOf ==
  ASSUME NEW a \in HtlcObservation \cup {"noleg"}, NEW b \in HtlcObservation \cup {"noleg"},
         a # "noleg" \/ b # "noleg", b # "invalid"
  PROVE  /\ DeriveSwapStatus(a, b) \in SwapStatus
         /\ DeriveSwapStatus(a, b) \in {"clientredeemed", "serverredeemed", "clientredeemedandclientrefunded"} =>
                a = "spent_claim" \/ b = "spent_claim"
         /\ DeriveSwapStatus(a, b) \in RefundedStatus => a \in {"spent_refund", "noleg"}
         /\ DeriveSwapStatus(a, b) = "none" => a = "spent_claim" /\ b \notin {"noleg", "spent_claim"}
  <1> USE DEF HtlcObservation, RefundedStatus, SwapStatus, ClientOnly
  <1>1. CASE b = "noleg"
    BY <1>1 DEF DeriveSwapStatus, ReceiveOnLightningStatus
  <1>2. CASE a = "noleg"
    BY <1>2 DEF DeriveSwapStatus, PayOnLightningStatus
  <1>3. CASE a # "noleg" /\ b # "noleg"
    BY <1>3 DEF DeriveSwapStatus
  <1> QED
    BY <1>1, <1>2, <1>3

FollowDerived(c) == DeriveSwapStatus(c.seen["client"], c.seen["server"])

\* A status derived of the chain, a claim's hint in it, gives no end without a reason.
LEMMA FollowReasons ==
  ASSUME FollowEnvOK, mode = "chain", NEW c, FollowBaseOK(c, LegsOf, chain, mode), Known(c)
  PROVE  /\ FollowDerived(c) = "none" => relayed
         /\ FollowDerived(c) # "none" =>
                LET w == WithClaimHint(c, FollowDerived(c))
                IN  w \in SwapStatus /\ w # "none" /\ FollowNoneOK(FollowNew(w, c.seen).offer, LegsOf, chain)
  <1> DEFINE a == c.seen["client"]
             b == c.seen["server"]
             s == FollowDerived(c)
             w == WithClaimHint(c, s)
             offer == DeriveSwapActions(w, Moments(time), "client" \in LegsOf, "server" \in LegsOf)
  <1>1. /\ direction \in Directions /\ time \in 0..3 /\ FollowSeenOK(c.seen, LegsOf, chain)
        /\ c.seen \in [Legs -> FollowObserved] /\ c.hint \in SwapStatus
        /\ FollowTruth(c.hint, chain) /\ FollowChainOK(chain, LegsOf, relayed)
    BY DEF FollowEnvOK, FollowBaseOK, FollowClients
  <1>2. /\ a \in HtlcObservation \cup {"noleg"} /\ b \in HtlcObservation \cup {"noleg"} /\ b # "invalid"
        /\ "client" \notin LegsOf <=> a = "noleg"
        /\ "server" \notin LegsOf <=> b = "noleg"
        /\ a \in Spent => chain["client"] = a
        /\ b \in Spent => chain["server"] = b
    BY <1>1 DEF FollowSeenOK, Known, FollowObserved, Legs
  <1>3. a # "noleg" \/ b # "noleg"
    BY <1>1, <1>2, FollowLegs DEF Legs
  <1>4. s = DeriveSwapStatus(a, b) /\ w = WithClaimHint(c, s)
    BY DEF FollowDerived
  <1> HIDE DEF a, b, s, w
  <1>5. /\ s \in SwapStatus
        /\ s \in {"clientredeemed", "serverredeemed", "clientredeemedandclientrefunded"} =>
                a = "spent_claim" \/ b = "spent_claim"
        /\ s \in RefundedStatus => a \in {"spent_refund", "noleg"}
        /\ s = "none" => a = "spent_claim" /\ b \notin {"noleg", "spent_claim"}
    BY <1>2, <1>3, <1>4, FollowStatusOf
  <1>6. s = "none" => relayed
    BY <1>1, <1>2, <1>5 DEF FollowChainOK, Legs, Spent
  <1> HIDE DEF offer
  <1>7. ASSUME s # "none" PROVE w \in SwapStatus /\ w # "none" /\ (w = s \/ (w = c.hint /\ w \in ClaimSubmitted))
    <2>1. CASE s = "serverfunded" /\ c.hint \in ClaimSubmitted /\ ~Moments(time).claimClosed
      <3>1. w = c.hint
        BY <2>1, <1>4 DEF WithClaimHint
      <3> QED
        BY <3>1, <2>1, <1>1 DEF ClaimSubmitted
    <2>2. CASE ~(s = "serverfunded" /\ c.hint \in ClaimSubmitted /\ ~Moments(time).claimClosed)
      <3>1. w = s
        BY <2>2, <1>4 DEF WithClaimHint
      <3>2. w \in SwapStatus
        BY <3>1, <1>5
      <3>3. w # "none"
        BY <3>1, <1>7
      <3> QED
        BY <3>1, <3>2, <3>3
    <2> QED
      BY <2>1, <2>2
  <1> USE DEF offer
  <1>8. ASSUME s # "none" PROVE FollowOffered(offer, w, Moments(time).claimClosed, "client" \in LegsOf)
    <2>1. ("client" \in LegsOf) \in BOOLEAN /\ ("server" \in LegsOf) \in BOOLEAN
      OBVIOUS
    <2>2. Moments(time) \in Moment
      BY DEF Moments, Moment
    <2> QED
      BY <1>7, <1>8, <2>1, <2>2, FollowDerives
  <1>9. FollowNew(w, c.seen).offer = offer
    BY DEF FollowNew
  <1> HIDE DEF offer
  <1>10. ASSUME s # "none" PROVE FollowNoneOK(offer, LegsOf, chain)
    <2>1. /\ offer.recommended = "none" /\ offer.as = "completed" =>
                w \in {"clientredeemed", "serverredeemed", "clientredeemedandclientrefunded"}
          /\ offer.recommended = "none" /\ offer.as = "refunded" => w \in RefundedStatus \/ ~("client" \in LegsOf)
      BY <1>8, <1>10, FollowOffers
    <2>2. w \in {"clientredeemed", "serverredeemed", "clientredeemedandclientrefunded"} =>
                chain["server"] = "spent_claim" \/ chain["client"] = "spent_claim"
      <3>1. CASE w = s
        BY <3>1, <1>2, <1>5 DEF Spent
      <3>2. CASE w = c.hint /\ w \in ClaimSubmitted
        BY <3>2, <1>1 DEF FollowTruth, ClaimSubmitted
      <3> QED
        BY <3>1, <3>2, <1>7, <1>10
    <2>3. w \in RefundedStatus => "client" \notin LegsOf \/ chain["client"] = "spent_refund"
      <3>1. CASE w = s
        BY <3>1, <1>2, <1>5 DEF Spent
      <3>2. CASE w = c.hint /\ w \in ClaimSubmitted
        BY <3>2 DEF ClaimSubmitted, RefundedStatus
      <3> QED
        BY <3>1, <3>2, <1>7, <1>10
    <2> QED
      BY <2>1, <2>2, <2>3 DEF FollowNoneOK
  <1> QED
    BY <1>6, <1>7, <1>9, <1>10 DEF w, s

\* Deriving keeps what the client knows true, and starts a run only in the claim's window.
FollowMoved(c, r, legs, ch, md, t) ==
    /\ FollowBaseOK(r, legs, ch, md) /\ (FollowRestOK(c, legs, md) => FollowRestOK(r, legs, md))
    /\ r.working = c.working /\ r.unregistered = c.unregistered /\ r.listening = c.listening
    /\ r.executing => c.executing \/ t = 0
    /\ r.tracked => c.tracked

\* Nothing told, nothing moved.
LEMMA FollowKeeps ==
  ASSUME FollowEnvOK, NEW c, FollowBaseOK(c, LegsOf, chain, mode)
  PROVE  FollowMoved(c, c, LegsOf, chain, mode, time)
  BY DEF FollowMoved

\* A report of the chain, or of the server's status.
LEMMA FollowTells ==
  ASSUME FollowEnvOK, NEW c, FollowBaseOK(c, LegsOf, chain, mode), NEW new, NEW r,
         FollowTold(c, new, r, LegsOf, time),
         mode = "chain" => Known(c) /\ FollowNoneOK(new.offer, LegsOf, chain)
  PROVE  FollowMoved(c, r, LegsOf, chain, mode, time)
  <1>1. FollowSeenOK(c.seen, LegsOf, chain) /\ c \in FollowClients /\ c.refs \subseteq LegsOf
        /\ c.clocks \subseteq LegsOf /\ direction \in Directions /\ (mode = "chain" => FollowTruth(c.hint, chain))
    BY DEF FollowBaseOK, FollowEnvOK
  <1>2. /\ r \in FollowClients
        /\ r.working = c.working /\ r.unregistered = c.unregistered /\ r.hint = c.hint
        /\ r.listening = c.listening /\ r.last = new
        /\ r.executing => c.executing \/ time = 0
    BY DEF FollowTold
  <1>3. \/ r.tracked = c.tracked /\ r.refs = c.refs /\ r.seen = c.seen /\ r.clocks = c.clocks
        \/ /\ ~r.tracked /\ new.offer.recommended = "none"
           /\ r.refs = {} /\ r.seen = FollowBlank(LegsOf) /\ r.clocks \subseteq c.clocks
    BY DEF FollowTold
  <1>4. FollowSeenOK(FollowBlank(LegsOf), LegsOf, chain)
    BY DEF FollowSeenOK, FollowBlank, Legs, Spent
  <1>5. FollowBaseOK(r, LegsOf, chain, mode)
    BY <1>1, <1>2, <1>3, <1>4 DEF FollowBaseOK
  <1>6. ASSUME FollowRestOK(c, LegsOf, mode), mode = "chain", ~r.working
        PROVE  /\ r.tracked /\ r.last # NoOffer => \A l \in LegsOf : r.seen[l] # "unseen" /\ l \in r.clocks
               /\ ~r.tracked /\ r.last # NoOffer => r.unregistered \/ r.last.offer.recommended = "none"
               /\ ~r.tracked /\ ~r.unregistered => r.refs = {} /\ r.seen = FollowBlank(LegsOf)
    <2>1. \A l \in LegsOf : c.seen[l] # "unseen" /\ l \in c.clocks
      BY <1>6 DEF Known
    <2>2. CASE r.tracked = c.tracked /\ r.refs = c.refs /\ r.seen = c.seen /\ r.clocks = c.clocks
      <3>1. ~c.tracked /\ ~c.unregistered => c.refs = {} /\ c.seen = FollowBlank(LegsOf)
        BY <1>2, <1>6 DEF FollowRestOK
      <3>2. ~c.tracked => c.unregistered
        BY <3>1, <2>1, <1>1, FollowLegs DEF FollowBlank
      <3> QED
        BY <2>1, <2>2, <3>2, <1>2
    <2>3. CASE /\ ~r.tracked /\ new.offer.recommended = "none"
               /\ r.refs = {} /\ r.seen = FollowBlank(LegsOf) /\ r.clocks \subseteq c.clocks
      BY <2>3, <1>2
    <2> QED
      BY <1>3, <2>2, <2>3
  <1>7. r.tracked => c.tracked
    BY <1>3
  <1> QED
    BY <1>2, <1>5, <1>6, <1>7 DEF FollowMoved, FollowRestOK

\* The tracker derives the action anew, of the chain or of the hint.
LEMMA FollowRecomputes ==
  ASSUME FollowEnvOK, NEW c, FollowBaseOK(c, LegsOf, chain, mode), NEW force \in BOOLEAN
  PROVE  FollowMoved(c, Recompute(c, force), LegsOf, chain, mode, time)
  <1>1. /\ direction \in Directions /\ time \in 0..3 /\ mode \in {"chain", "hints"}
        /\ c \in FollowClients /\ FollowShapeOK(c, LegsOf)
        /\ c.seen \in [Legs -> FollowObserved] /\ c.hint \in SwapStatus
    BY FollowAssumption DEF FollowEnvOK, FollowBaseOK, FollowClients, FollowShapeOK, FollowSeenOK
  <1>2. CASE mode = "chain"
    <2> DEFINE s == FollowDerived(c)
               w == WithClaimHint(c, s)
    <2>1. Recompute(c, force) = IF ~Known(c) \/ s = "none" THEN c ELSE Emit(c, w, c.seen, force)
      BY <1>2 DEF Recompute, RecomputeFromChain, FollowDerived
    <2>2. CASE ~Known(c) \/ s = "none"
      BY <2>1, <2>2, FollowKeeps
    <2>3. CASE Known(c) /\ s # "none"
      <3>1. w \in SwapStatus /\ w # "none" /\ FollowNoneOK(FollowNew(w, c.seen).offer, LegsOf, chain)
        BY <1>2, <2>3, FollowReasons
      <3> HIDE DEF w
      <3>2. FollowTold(c, FollowNew(w, c.seen), Emit(c, w, c.seen, force), LegsOf, time)
        BY <1>1, <3>1, FollowEmits
      <3>3. FollowMoved(c, Emit(c, w, c.seen, force), LegsOf, chain, mode, time)
        BY <2>3, <3>1, <3>2, FollowTells
      <3> QED
        BY <2>1, <2>3, <3>3
    <2> QED
      BY <2>2, <2>3
  <1>3. CASE mode = "hints"
    <2>1. Recompute(c, force) = IF c.hint = "none" THEN c ELSE Emit(c, c.hint, Unseen, force)
      BY <1>3 DEF Recompute, RecomputeFromHint
    <2>2. CASE c.hint = "none"
      BY <2>1, <2>2, FollowKeeps
    <2>3. CASE c.hint # "none"
      <3>1. Unseen \in [Legs -> FollowObserved]
        BY <1>1, FollowLegs DEF FollowBlank, FollowObserved
      <3>2. FollowTold(c, FollowNew(c.hint, Unseen), Emit(c, c.hint, Unseen, force), LegsOf, time)
        BY <1>1, <2>3, <3>1, FollowEmits
      <3>3. FollowMoved(c, Emit(c, c.hint, Unseen, force), LegsOf, chain, mode, time)
        BY <1>3, <3>2, FollowTells
      <3> QED
        BY <2>1, <2>3, <3>3
    <2> QED
      BY <2>2, <2>3
  <1> QED
    BY <1>1, <1>2, <1>3

\* So it does for a swap it tracks, and leaves another alone.
LEMMA FollowRecomputesAll ==
  ASSUME FollowEnvOK, NEW c, FollowBaseOK(c, LegsOf, chain, mode)
  PROVE  FollowMoved(c, RecomputeAll(c), LegsOf, chain, mode, time)
  BY FollowRecomputes, FollowKeeps DEF RecomputeAll

\* The worker's start.
LEMMA FollowWorkerStarts ==
  ASSUME FollowEnvOK, NEW c, FollowBaseOK(c, LegsOf, chain, mode)
  PROVE  /\ FollowBaseOK(WorkerStarts(c), LegsOf, chain, mode) /\ WorkerStarts(c).working
         /\ WorkerStarts(c).executing =>
                c.executing \/ (c.last # NoOffer /\ c.last.offer.recommended = "claim")
  <1> DEFINE on == [c EXCEPT !.working = TRUE, !.subscribed = c.tracked]
  <1>1. c \in FollowClients /\ c.last.offer \in Offers /\ c.tracked \in BOOLEAN
    BY DEF FollowBaseOK, FollowClients
  <1>2. /\ on \in FollowClients /\ on.refs = c.refs /\ on.seen = c.seen /\ on.clocks = c.clocks
        /\ on.last = c.last /\ on.hint = c.hint /\ on.executing = c.executing /\ on.working
    BY <1>1 DEF FollowClients
  <1>3. WorkerStarts(c) = IF c.last = NoOffer THEN on ELSE OnActions(on, c.last.offer)
    BY DEF WorkerStarts
  <1> HIDE DEF on
  <1>4. CASE c.last = NoOffer
    BY <1>2, <1>3, <1>4 DEF FollowBaseOK
  <1>5. CASE c.last # NoOffer
    <2> DEFINE offer == c.last.offer
               r == OnActions(on, offer)
    <2>0. offer \in Offers /\ offer = c.last.offer
      BY <1>1
    <2> HIDE DEF offer
    <2>2. /\ r \in FollowClients
          /\ r.refs = on.refs /\ r.seen = on.seen /\ r.clocks = on.clocks /\ r.last = on.last
          /\ r.hint = on.hint /\ r.working = on.working
          /\ r.executing => on.executing \/ offer.recommended = "claim"
      BY <2>0, <1>2, FollowHears DEF FollowHeard
    <2>1. r = OnActions(on, offer)
      OBVIOUS
    <2> HIDE DEF r
    <2>3. FollowBaseOK(r, LegsOf, chain, mode)
      BY <2>2, <1>2 DEF FollowBaseOK
    <2> QED
      BY <1>3, <1>5, <1>2, <2>0, <2>1, <2>2, <2>3
  <1> QED
    BY <1>4, <1>5


FollowCalls ==
    [why : {"start", "track", "again", "hint", "tick", "push"},
     phase : {"register", "refresh", "fetch", "pushed"},
     got : [Legs -> HtlcObservation \cup {"ask", "done", "failed"}],
     force : BOOLEAN, status : (SwapStatus \ {"none"}) \cup {"ask"}]

FollowPhaseOK(why, phase) ==
    /\ phase = "register" => why \in {"start", "track", "again"}
    /\ phase = "refresh" => why \in {"start", "track", "again", "hint", "tick"}
    /\ phase = "fetch" => why = "hint"
    /\ phase = "pushed" => why = "push"

\* What a call has read of a spend is on the chain; before the worker starts only the
\* start, a funding and a push read.
FollowCallOK(call, ch, md, w) ==
    /\ call \in FollowCalls
    /\ call.got["server"] # "invalid"
    /\ \A l \in Legs : call.got[l] \in Spent => ch[l] = call.got[l]
    /\ FollowPhaseOK(call.why, call.phase)
    /\ call.phase = "fetch" <=> md = "hints"
    /\ ~w => call.why \in {"start", "hint", "push"}
    /\ w => call.why # "start"

FollowCallsOK(cs, ch, md, w) ==
    /\ cs \in Seq(FollowCalls) /\ Len(cs) <= MaxReads
    /\ \A k \in DOMAIN cs : FollowCallOK(cs[k], ch, md, w)
    /\ \A j, k \in DOMAIN cs : cs[j].why = "start" /\ cs[k].why = "start" => j = k

\* The worker is at work, or is being started, or nothing runs.
FollowPhase(c, cs, off) ==
    c.working \/ (\E k \in DOMAIN cs : cs[k].why = "start") \/ (c = off /\ cs = <<>>)

\* The start goes on.
FollowStartKept(cs, ds) ==
    \A k \in DOMAIN cs : cs[k].why = "start" => \E j \in DOMAIN ds : ds[j].why = "start"

FollowServerOK ==
    /\ served \in SwapStatus \ {"none"} /\ FollowTruth(served, chain)
    /\ inFlight \in Seq(SwapStatus \ {"none"}) /\ Len(inFlight) <= MaxWire
    /\ \A k \in DOMAIN inFlight : FollowTruth(inFlight[k], chain)
    /\ feed \in BOOLEAN

(***************************************************************************)
(* The inductive invariant.  NoneMeansSettled is not inductive: the action  *)
(* follows from what was seen, a read sampled earlier may land now, and a   *)
(* pushed claim stands in for one the chain does not show yet.  So a spend   *)
(* that was seen, that a call has sampled, or that the server reports and    *)
(* has pushed must be on the chain (FollowSeenOK, FollowCallOK, FollowTruth),*)
(* and spends stay.  For the worker's start it must also be known why an     *)
(* action derived before it stands (FollowRestOK), and that only the start's *)
(* own calls run until then (FollowPhase).                                   *)
(***************************************************************************)
FollowInv ==
    /\ FollowEnvOK /\ FollowServerOK /\ stored \in SwapStatus
    /\ FollowBaseOK(client, LegsOf, chain, mode) /\ FollowRestOK(client, LegsOf, mode)
    /\ FollowCallsOK(calls, chain, mode, client.working) /\ FollowPhase(client, calls, Stopped)

\* A run starts only where ClaimsOnlyInWindow lets it.
FollowRunOK(c, d) ==
    d.executing => c.executing \/ time = 0 \/ relayed \/ (c.unregistered /\ ~c.tracked)

-----------------------------------------------------------------------------
\* A call appended.
LEMMA FollowStarts ==
  ASSUME FollowInv, NEW call, FollowCallOK(call, chain, mode, client.working), Start(call),
         call.why = "start" => calls = <<>>
  PROVE  FollowCallsOK(calls', chain, mode, client.working)
         /\ calls' = Append(calls, call) /\ \A k \in DOMAIN calls : k \in DOMAIN calls' /\ calls'[k] = calls[k]
  <1>1. /\ calls \in Seq(FollowCalls) /\ call \in FollowCalls /\ MaxReads \in Nat
        /\ FollowCallsOK(calls, chain, mode, client.working) /\ direction \in Directions
    BY FollowAssumption DEF FollowInv, FollowCallsOK, FollowCallOK, FollowEnvOK
  <1>2. calls' = Append(calls, call) /\ (Len(calls) + 1) * Cardinality(LegsOf) <= MaxReads
    BY DEF Start
  <1>3. /\ calls' \in Seq(FollowCalls) /\ Len(calls') = Len(calls) + 1 /\ Len(calls) \in Nat
        /\ DOMAIN calls = 1..Len(calls) /\ DOMAIN calls' = 1..(Len(calls) + 1)
        /\ \A k \in 1..Len(calls) : calls'[k] = calls[k]
        /\ calls'[Len(calls) + 1] = call
    BY <1>1, <1>2, AppendProperties, LenProperties
  <1>4. Len(calls) + 1 <= MaxReads
    <2>1. Cardinality(LegsOf) \in {1, 2}
      BY <1>1, FollowLegs
    <2>2. CASE Cardinality(LegsOf) = 1
      BY <2>2, <1>1, <1>2, <1>3
    <2>3. CASE Cardinality(LegsOf) = 2
      BY <2>3, <1>1, <1>2, <1>3
    <2> QED
      BY <2>1, <2>2, <2>3
  <1>5. \A k \in DOMAIN calls' : FollowCallOK(calls'[k], chain, mode, client.working)
    BY <1>1, <1>3 DEF FollowCallsOK
  <1>6. \A j, k \in DOMAIN calls' : calls'[j].why = "start" /\ calls'[k].why = "start" => j = k
    <2>1. CASE call.why # "start"
      BY <2>1, <1>1, <1>3 DEF FollowCallsOK
    <2>2. CASE call.why = "start"
      <3>1. Len(calls) = 0
        BY <2>2, EmptySeq
      <3> QED
        BY <3>1, <1>3
    <2> QED
      BY <2>1, <2>2
  <1> QED
    BY <1>2, <1>3, <1>4, <1>5, <1>6 DEF FollowCallsOK

\* A call forgotten.
LEMMA FollowForgets ==
  ASSUME NEW cs \in Seq(FollowCalls), NEW i \in DOMAIN cs
  PROVE  /\ RemoveAt(cs, i) \in Seq(FollowCalls) /\ Len(RemoveAt(cs, i)) = Len(cs) - 1
         /\ DOMAIN RemoveAt(cs, i) = 1..(Len(cs) - 1) /\ Len(cs) \in Nat /\ DOMAIN cs = 1..Len(cs)
         /\ \A k \in 1..(Len(cs) - 1) : RemoveAt(cs, i)[k] = cs[IF k < i THEN k ELSE k + 1]
  <1> DEFINE a == SubSeq(cs, 1, i - 1)
             b == SubSeq(cs, i + 1, Len(cs))
             r == a \o b
  <1>1. Len(cs) \in Nat /\ DOMAIN cs = 1..Len(cs) /\ i \in 1..Len(cs) /\ \A k \in 1..Len(cs) : cs[k] \in FollowCalls
    BY LenProperties, ElementOfSeq
  <1>2. a \in Seq(FollowCalls) /\ Len(a) = i - 1 /\ \A k \in 1..(i - 1) : a[k] = cs[k]
    BY <1>1, SubSeqProperties
  <1>3. b \in Seq(FollowCalls) /\ Len(b) = Len(cs) - i /\ \A k \in 1..(Len(cs) - i) : b[k] = cs[i + k]
    <2>1. \A k \in (i + 1)..Len(cs) : cs[k] \in FollowCalls
      BY <1>1
    <2>2. /\ b \in Seq(FollowCalls) /\ Len(b) = IF i + 1 <= Len(cs) THEN Len(cs) - (i + 1) + 1 ELSE 0
          /\ \A k \in 1..(Len(cs) - (i + 1) + 1) : b[k] = cs[i + 1 + k - 1]
      BY <1>1, <2>1, SubSeqProperties
    <2> QED
      BY <2>2, <1>1
  <1>4. /\ r \in Seq(FollowCalls) /\ Len(r) = Len(a) + Len(b)
        /\ \A k \in 1..(Len(a) + Len(b)) : r[k] = IF k <= Len(a) THEN a[k] ELSE b[k - Len(a)]
    BY <1>2, <1>3, ConcatProperties
  <1>5. DOMAIN r = 1..(Len(cs) - 1) /\ Len(r) = Len(cs) - 1
    <2>1. Len(r) = Len(cs) - 1
      BY <1>1, <1>2, <1>3, <1>4
    <2> HIDE DEF r
    <2>2. DOMAIN r = 1..Len(r)
      BY <1>4, LenProperties
    <2> QED
      BY <2>1, <2>2
  <1> HIDE DEF a, b, r
  <1>6. ASSUME NEW k \in 1..(Len(cs) - 1) PROVE r[k] = cs[IF k < i THEN k ELSE k + 1]
    <2>1. CASE k < i
      BY <1>1, <1>2, <1>3, <1>4, <1>5, <2>1
    <2>2. CASE ~(k < i)
      <3>1. r[k] = b[k - (i - 1)] /\ k - (i - 1) \in 1..(Len(cs) - i)
        BY <1>1, <1>2, <1>3, <1>4, <1>5, <2>2
      <3>2. b[k - (i - 1)] = cs[i + (k - (i - 1))]
        BY <1>3, <3>1
      <3> QED
        BY <1>1, <1>5, <2>2, <3>1, <3>2
    <2> QED
      BY <2>1, <2>2
  <1> QED
    BY <1>1, <1>4, <1>5, <1>6 DEF r, a, b, RemoveAt

\* A call that ends leaves the others as they are.
LEMMA FollowEnds ==
  ASSUME FollowInv, NEW i \in DOMAIN calls, Forget(i), NEW w \in BOOLEAN,
         client.working => w, w => client.working \/ calls[i].why = "start"
  PROVE  /\ FollowCallsOK(calls', chain, mode, w)
         /\ calls[i].why # "start" => FollowStartKept(calls, calls')
  <1> DEFINE at(k) == IF k < i THEN k ELSE k + 1
  <1>1. calls \in Seq(FollowCalls) /\ FollowCallsOK(calls, chain, mode, client.working) /\ MaxReads \in Nat
    BY FollowAssumption DEF FollowInv, FollowCallsOK
  <1>2. /\ calls' \in Seq(FollowCalls) /\ Len(calls') = Len(calls) - 1 /\ Len(calls) \in Nat
        /\ DOMAIN calls' = 1..(Len(calls) - 1) /\ DOMAIN calls = 1..Len(calls)
        /\ \A k \in 1..(Len(calls) - 1) : calls'[k] = calls[at(k)]
    BY <1>1, FollowForgets DEF Forget
  <1>3. \A k \in 1..(Len(calls) - 1) : at(k) \in DOMAIN calls /\ at(k) # i
    BY <1>2
  <1>4. ASSUME NEW k \in DOMAIN calls' PROVE FollowCallOK(calls'[k], chain, mode, w)
    <2>1. calls'[k] = calls[at(k)] /\ at(k) \in DOMAIN calls /\ at(k) # i
      BY <1>2, <1>3
    <2> HIDE DEF at
    <2>2. FollowCallOK(calls[at(k)], chain, mode, client.working)
      BY <1>1, <2>1 DEF FollowCallsOK
    <2>3. CASE w <=> client.working
      BY <2>1, <2>2, <2>3 DEF FollowCallOK
    <2>4. CASE calls[i].why = "start" /\ w
      <3>1. calls[at(k)].why # "start"
        BY <1>1, <2>1, <2>4 DEF FollowCallsOK
      <3> QED
        BY <2>1, <2>2, <2>4, <3>1 DEF FollowCallOK
    <2> QED
      BY <2>3, <2>4
  <1>5. ASSUME NEW j \in DOMAIN calls', NEW k \in DOMAIN calls', calls'[j].why = "start", calls'[k].why = "start"
        PROVE  j = k
    <2>1. at(j) = at(k)
      BY <1>1, <1>2, <1>3, <1>5 DEF FollowCallsOK
    <2> QED
      BY <1>2, <2>1
  <1>6. ASSUME calls[i].why # "start", NEW k \in DOMAIN calls, calls[k].why = "start"
        PROVE  \E j \in DOMAIN calls' : calls'[j].why = "start"
    <2> DEFINE j == IF k < i THEN k ELSE k - 1
    <2>1. k # i
      BY <1>6
    <2>2. j \in 1..(Len(calls) - 1) /\ at(j) = k
      BY <1>2, <2>1
    <2>3. calls'[j] = calls[k]
      BY <1>2, <2>2
    <2> QED
      BY <1>2, <1>6, <2>2, <2>3
  <1>7. Len(calls') <= MaxReads
    BY <1>1, <1>2 DEF FollowCallsOK
  <1>8. FollowCallsOK(calls', chain, mode, w)
    BY <1>2, <1>4, <1>5, <1>7 DEF FollowCallsOK
  <1>9. calls[i].why # "start" => FollowStartKept(calls, calls')
    BY <1>6 DEF FollowStartKept
  <1> QED
    BY <1>8, <1>9

\* A call that goes on.
LEMMA FollowGoesOn ==
  ASSUME FollowInv, NEW i \in DOMAIN calls, NEW call, calls' = [calls EXCEPT ![i] = call],
         FollowCallOK(call, chain, mode, client.working), call.why = calls[i].why
  PROVE  /\ FollowCallsOK(calls', chain, mode, client.working)
         /\ \A k \in DOMAIN calls : k \in DOMAIN calls' /\ calls'[k].why = calls[k].why
  <1>1. calls \in Seq(FollowCalls) /\ call \in FollowCalls /\ FollowCallsOK(calls, chain, mode, client.working)
    BY DEF FollowInv, FollowCallsOK, FollowCallOK
  <1>2. calls' \in Seq(FollowCalls) /\ Len(calls') = Len(calls) /\ DOMAIN calls' = DOMAIN calls
        /\ calls'[i] = call /\ \A k \in DOMAIN calls : k # i => calls'[k] = calls[k]
    BY <1>1, ExceptSeq, LenProperties
  <1> QED
    BY <1>1, <1>2 DEF FollowCallsOK


\* What an action reads of the invariant.
LEMMA FollowHas ==
  ASSUME FollowInv
  PROVE  /\ FollowEnvOK /\ direction \in Directions /\ mode \in {"chain", "hints"} /\ time \in 0..3
         /\ client \in FollowClients /\ FollowBaseOK(client, LegsOf, chain, mode)
         /\ FollowRestOK(client, LegsOf, mode) /\ FollowCallsOK(calls, chain, mode, client.working)
         /\ FollowPhase(client, calls, Stopped) /\ LegsOf \subseteq Legs /\ LegsOf # {}
         /\ calls \in Seq(FollowCalls) /\ DOMAIN calls = 1..Len(calls) /\ Len(calls) \in Nat
         /\ chain \in [Legs -> HtlcObservation \cup {"noleg"}] /\ MaxAttempts \in Nat
         /\ FollowChainOK(chain, LegsOf, relayed) /\ client.working \in BOOLEAN
  <1>1. FollowEnvOK /\ FollowBaseOK(client, LegsOf, chain, mode) /\ calls \in Seq(FollowCalls)
        /\ FollowRestOK(client, LegsOf, mode) /\ FollowCallsOK(calls, chain, mode, client.working)
        /\ FollowPhase(client, calls, Stopped)
    BY DEF FollowInv, FollowCallsOK
  <1>2. direction \in Directions /\ mode \in {"chain", "hints"} /\ time \in 0..3 /\ MaxAttempts \in Nat
        /\ FollowChainOK(chain, LegsOf, relayed) /\ chain \in [Legs -> HtlcObservation \cup {"noleg"}]
    BY <1>1, FollowAssumption DEF FollowEnvOK, FollowChainOK
  <1>3. client \in FollowClients /\ client.working \in BOOLEAN
    BY <1>1 DEF FollowBaseOK, FollowClients
  <1>4. DOMAIN calls = 1..Len(calls) /\ Len(calls) \in Nat
    BY <1>1, LenProperties
  <1> QED
    BY <1>1, <1>2, <1>3, <1>4, FollowLegs

\* A step of the client.
LEMMA FollowClientStep ==
  ASSUME FollowInv, UNCHANGED <<Env, Server, stored>>,
         FollowBaseOK(client', LegsOf, chain, mode), FollowRestOK(client', LegsOf, mode),
         FollowCallsOK(calls', chain, mode, client'.working), FollowPhase(client', calls', Stopped)
  PROVE  FollowInv'
  <1>1. LegsOf' = LegsOf /\ Stopped' = Stopped
    BY DEF Env, LegsOf, Ledger, Stopped, Unseen
  <1>2. FollowEnvOK' /\ FollowServerOK' /\ stored' \in SwapStatus
    BY <1>1 DEF FollowInv, FollowEnvOK, FollowServerOK, Env, Server
  <1>3. mode' = mode /\ chain' = chain
    BY DEF Env
  <1> QED
    BY <1>1, <1>2, <1>3 DEF FollowInv

\* A step of the chains, the server or the time.
LEMMA FollowWorldStep ==
  ASSUME FollowInv, UNCHANGED <<direction, mode, stored, client>>, relayed' \in BOOLEAN, time' \in 0..3,
         relayed => relayed', FollowChainOK(chain', LegsOf, relayed'),
         \A l \in Legs : chain[l] \in Spent => chain'[l] = chain[l],
         FollowCallsOK(calls', chain, mode, client.working), FollowPhase(client, calls', Stopped),
         served' \in SwapStatus \ {"none"}, FollowTruth(served', chain) \/ FollowTruth(served', chain'),
         inFlight' \in Seq(SwapStatus \ {"none"}), Len(inFlight') <= MaxWire, feed' \in BOOLEAN,
         \A k \in DOMAIN inFlight' : FollowTruth(inFlight'[k], chain)
  PROVE  FollowInv' /\ FollowRunOK(client, client')
  <1>1. LegsOf' = LegsOf /\ Stopped' = Stopped /\ mode' = mode /\ client' = client
    BY DEF LegsOf, Ledger, Stopped, Unseen
  <1>2. \A l \in Legs : chain[l] \in Spent => chain'[l] = chain[l]
    OBVIOUS
  <1>3. \A s : FollowTruth(s, chain) => FollowTruth(s, chain')
    BY <1>2 DEF FollowTruth, Legs, Spent
  <1>4. FollowEnvOK'
    BY <1>1 DEF FollowInv, FollowEnvOK
  <1>5. FollowServerOK'
    BY <1>3 DEF FollowServerOK
  <1>6. FollowBaseOK(client, LegsOf, chain', mode)
    <2>1. FollowBaseOK(client, LegsOf, chain, mode)
      BY DEF FollowInv
    <2>2. FollowSeenOK(client.seen, LegsOf, chain')
      <3>1. FollowSeenOK(client.seen, LegsOf, chain)
        BY <2>1 DEF FollowBaseOK
      <3> QED
        BY <3>1, <1>2 DEF FollowSeenOK
    <2>3. FollowNoneOK(client.last.offer, LegsOf, chain) => FollowNoneOK(client.last.offer, LegsOf, chain')
      BY <1>2 DEF FollowNoneOK, Legs, Spent
    <2> QED
      BY <2>1, <2>2, <2>3, <1>3 DEF FollowBaseOK
  <1>7. FollowCallsOK(calls', chain', mode, client.working)
    <2>1. ASSUME NEW call, FollowCallOK(call, chain, mode, client.working)
          PROVE  FollowCallOK(call, chain', mode, client.working)
      <3>1. \A l \in Legs : call.got[l] \in Spent => chain'[l] = call.got[l]
        BY <2>1, <1>2 DEF FollowCallOK
      <3> QED
        BY <2>1, <3>1 DEF FollowCallOK
    <2> QED
      BY <2>1 DEF FollowCallsOK
  <1>8. FollowRestOK(client, LegsOf, mode) /\ stored \in SwapStatus
    BY DEF FollowInv
  <1> QED
    BY <1>1, <1>4, <1>5, <1>6, <1>7, <1>8 DEF FollowInv, FollowRunOK

\* What changes of the client beside what the invariant is about.
LEMMA FollowAside ==
  ASSUME FollowInv, NEW d \in FollowClients,
         d.refs = client.refs /\ d.seen = client.seen /\ d.clocks = client.clocks,
         d.tracked = client.tracked /\ d.last = client.last /\ d.hint = client.hint,
         d.working = client.working, d.unregistered = client.unregistered \/ client.working
  PROVE  FollowBaseOK(d, LegsOf, chain, mode) /\ FollowRestOK(d, LegsOf, mode)
  <1>1. FollowBaseOK(client, LegsOf, chain, mode) /\ FollowRestOK(client, LegsOf, mode)
    BY DEF FollowInv
  <1>2. FollowBaseOK(d, LegsOf, chain, mode)
    BY <1>1 DEF FollowBaseOK
  <1>3. FollowRestOK(d, LegsOf, mode)
    BY <1>1 DEF FollowRestOK
  <1> QED
    BY <1>2, <1>3

\* A stopped client.
LEMMA FollowStopped ==
  ASSUME direction \in Directions
  PROVE  /\ Stopped \in FollowClients
         /\ ~Stopped.working /\ ~Stopped.tracked /\ ~Stopped.unregistered /\ ~Stopped.timer
         /\ ~Stopped.executing /\ ~Stopped.listening
         /\ Stopped.refs = {} /\ Stopped.clocks = {} /\ Stopped.seen = FollowBlank(LegsOf)
         /\ Stopped.last = NoOffer /\ Stopped.hint = "none" /\ NoOffer.offer.recommended = "nothing"
  <1>1. NoOffer \in [offer : Offers, seen : [Legs -> FollowObserved \cup {"never"}]]
        /\ NoOffer.offer.recommended = "nothing"
    <2>1. NothingOffered \in Offers
      BY DEF NothingOffered, Offer, Offers
    <2>2. NothingOffered.recommended = "nothing"
      BY DEF NothingOffered, Offer
    <2>3. [l \in Legs |-> "never"] \in [Legs -> FollowObserved \cup {"never"}]
      OBVIOUS
    <2> QED
      BY <2>1, <2>2, <2>3 DEF NoOffer
  <1>2. Unseen = FollowBlank(LegsOf) /\ Unseen \in [Legs -> FollowObserved]
    BY FollowLegs DEF FollowBlank, FollowObserved
  <1>3. 0 \in 0..MaxAttempts /\ "none" \in SwapStatus /\ "nothing" \in FollowAnswers
    BY FollowAssumption DEF SwapStatus, FollowAnswers
  <1> QED
    BY <1>1, <1>2, <1>3 DEF Stopped, FollowClients

\* Stopped, it knows nothing.
LEMMA FollowStoppedOK ==
  ASSUME FollowEnvOK
  PROVE  FollowBaseOK(Stopped, LegsOf, chain, mode) /\ FollowRestOK(Stopped, LegsOf, mode)
  <1>1. direction \in Directions
    BY DEF FollowEnvOK
  <1>2. FollowSeenOK(FollowBlank(LegsOf), LegsOf, chain)
    BY DEF FollowSeenOK, FollowBlank, Legs, Spent
  <1>3. FollowNoneOK(NoOffer.offer, LegsOf, chain) /\ FollowTruth("none", chain)
    BY <1>1, FollowStopped DEF FollowNoneOK, FollowTruth
  <1> QED
    BY <1>1, <1>2, <1>3, FollowStopped DEF FollowBaseOK, FollowRestOK

\* A call begun.
LEMMA FollowCalls1 ==
  ASSUME FollowInv, NEW why \in {"start", "track", "again", "hint", "tick", "push"},
         NEW phase \in {"register", "refresh", "fetch", "pushed"}, NEW ls, NEW force \in BOOLEAN,
         FollowPhaseOK(why, phase), (phase = "fetch") <=> (mode = "hints"),
         ~client.working => why \in {"start", "hint", "push"}, client.working => why # "start"
  PROVE  FollowCallOK(Call(why, phase, ls, force), chain, mode, client.working)
         /\ Call(why, phase, ls, force).why = why
  <1>1. Ask(ls) \in [Legs -> {"ask", "done"}]
    BY DEF Ask
  <1>2. Call(why, phase, ls, force) = [why |-> why, phase |-> phase, got |-> Ask(ls), force |-> force, status |-> "ask"]
    BY DEF Call
  <1> DEFINE call == Call(why, phase, ls, force)
  <1>3. call.why = why /\ call.phase = phase /\ call.got = Ask(ls)
    BY <1>2
  <1>4. call \in FollowCalls
    BY <1>1, <1>2 DEF FollowCalls
  <1> HIDE DEF call
  <1>5. \A l \in Legs : call.got[l] \in {"ask", "done"}
    BY <1>1, <1>3
  <1>6. FollowCallOK(call, chain, mode, client.working)
    BY <1>3, <1>4, <1>5 DEF FollowCallOK, Legs, Spent
  <1> QED
    BY <1>3, <1>6 DEF call

\* The four kinds of call.
LEMMA FollowRegistering ==
  ASSUME FollowInv, mode = "chain", NEW why \in {"start", "track", "again"},
         ~client.working => why = "start", client.working => why # "start"
  PROVE  FollowCallOK(Registering(why), chain, mode, client.working) /\ Registering(why).why = why
  <1> DEFINE ls == {l \in LegsOf : Ledger(l) = "bitcoin"}
  <1>1. Registering(why) = Call(why, "register", ls, FALSE)
    BY DEF Registering
  <1> HIDE DEF ls
  <1>2. /\ why \in {"start", "track", "again", "hint", "tick", "push"} /\ FALSE \in BOOLEAN
        /\ "register" \in {"register", "refresh", "fetch", "pushed"}
        /\ FollowPhaseOK(why, "register")
        /\ (("register" = "fetch") <=> (mode = "hints"))
        /\ client.working => why # "start"
        /\ (~client.working => why \in {"start", "hint", "push"})
    BY DEF FollowPhaseOK
  <1>3. /\ FollowCallOK(Call(why, "register", ls, FALSE), chain, mode, client.working)
        /\ Call(why, "register", ls, FALSE).why = why
    BY <1>2, FollowCalls1
  <1> QED
    BY <1>1, <1>3

\* One that verifies a swap anew.
LEMMA FollowReading ==
  ASSUME FollowInv, NEW force \in BOOLEAN
  PROVE  FollowCallOK(Reading(force), chain, mode, client.working) /\ Reading(force).why = "hint"
  <1>1. mode \in {"chain", "hints"}
    BY FollowHas
  <1>2. CASE mode = "chain"
    <2>1. Reading(force) = Call("hint", "refresh", LegsOf, force)
      BY <1>2 DEF Reading
    <2>2. /\ "hint" \in {"start", "track", "again", "hint", "tick", "push"}
          /\ "refresh" \in {"register", "refresh", "fetch", "pushed"}
          /\ FollowPhaseOK("hint", "refresh") /\ (("refresh" = "fetch") <=> (mode = "hints"))
          /\ (~client.working => "hint" \in {"start", "hint", "push"}) /\ "hint" # "start"
      BY <1>2 DEF FollowPhaseOK
    <2> QED
      BY <2>1, <2>2, FollowCalls1
  <1>3. CASE mode = "hints"
    <2>1. Reading(force) = Call("hint", "fetch", {}, force)
      BY <1>3 DEF Reading
    <2>2. /\ "hint" \in {"start", "track", "again", "hint", "tick", "push"}
          /\ "fetch" \in {"register", "refresh", "fetch", "pushed"}
          /\ FollowPhaseOK("hint", "fetch") /\ (("fetch" = "fetch") <=> (mode = "hints"))
          /\ (~client.working => "hint" \in {"start", "hint", "push"}) /\ "hint" # "start"
      BY <1>3 DEF FollowPhaseOK
    <2> QED
      BY <2>1, <2>2, FollowCalls1
  <1> QED
    BY <1>1, <1>2, <1>3

\* The tick's.
LEMMA FollowTicking ==
  ASSUME FollowInv, mode = "chain", client.working
  PROVE  /\ FollowCallOK([Reading(FALSE) EXCEPT !.why = "tick"], chain, mode, client.working)
         /\ [Reading(FALSE) EXCEPT !.why = "tick"].why = "tick"
  <1> DEFINE rd == Reading(FALSE)
             call == [rd EXCEPT !.why = "tick"]
  <1>1. FollowCallOK(rd, chain, mode, client.working)
    BY FollowReading
  <1>2. rd.phase = "refresh"
    BY DEF Reading, Call
  <1> HIDE DEF rd
  <1>3. rd \in FollowCalls
    BY <1>1 DEF FollowCallOK
  <1>4. call \in FollowCalls /\ call.why = "tick" /\ call.phase = rd.phase /\ call.got = rd.got
    BY <1>3 DEF FollowCalls
  <1> HIDE DEF call
  <1>5. FollowCallOK(call, chain, mode, client.working)
    BY <1>1, <1>2, <1>4 DEF FollowCallOK, FollowPhaseOK
  <1> QED
    BY <1>4, <1>5 DEF call, rd

\* One that a pushed history starts.
LEMMA FollowPushing ==
  ASSUME FollowInv, mode = "chain", NEW ls
  PROVE  FollowCallOK(Call("push", "pushed", ls, FALSE), chain, mode, client.working)
         /\ Call("push", "pushed", ls, FALSE).why = "push"
  <1>1. /\ "push" \in {"start", "track", "again", "hint", "tick", "push"} /\ FALSE \in BOOLEAN
        /\ "pushed" \in {"register", "refresh", "fetch", "pushed"}
        /\ FollowPhaseOK("push", "pushed") /\ (("pushed" = "fetch") <=> (mode = "hints"))
        /\ (~client.working => "push" \in {"start", "hint", "push"}) /\ "push" # "start"
    BY DEF FollowPhaseOK
  <1> QED
    BY <1>1, FollowCalls1


\* The worker starts when every leg was read once.
LEMMA FollowDoesStart ==
  ASSUME FollowInv, StartTracking
  PROVE  FollowInv' /\ FollowRunOK(client, client')
  <1>1. /\ ~client.working /\ calls = <<>>
        /\ client = Stopped /\ FollowEnvOK /\ direction \in Directions /\ mode \in {"chain", "hints"}
        /\ time \in 0..3 /\ stored \in SwapStatus
    BY FollowHas, LenProperties DEF StartTracking, FollowPhase, FollowInv
  <1>2. client \in FollowClients /\ client.last = NoOffer /\ ~client.executing /\ ~client.tracked
        /\ client.refs = {} /\ client.clocks = {} /\ client.seen = FollowBlank(LegsOf)
        /\ client.hint = "none" /\ ~client.unregistered
        /\ FollowBaseOK(client, LegsOf, chain, mode)
    BY <1>1, FollowStopped, FollowStoppedOK
  <1>3. UNCHANGED <<Env, Server, stored>>
    BY DEF StartTracking
  <1>4. FollowCallsOK(<<>>, chain, mode, TRUE)
    <2>1. <<>> \in Seq(FollowCalls) /\ Len(<<>>) = 0 /\ DOMAIN <<>> = {} /\ MaxReads \in Nat
      BY FollowAssumption, EmptySeq
    <2> QED
      BY <2>1 DEF FollowCallsOK
  <1>5. CASE stored \in SettledStored \cup {"none"}
    <2> DEFINE c == [client EXCEPT !.listening = TRUE]
    <2>1. client' = WorkerStarts(c) /\ calls' = calls
      BY <1>5 DEF StartTracking
    <2>2. c \in FollowClients /\ c.refs = client.refs /\ c.seen = client.seen /\ c.clocks = client.clocks
          /\ c.tracked = client.tracked /\ c.last = client.last /\ c.hint = client.hint
          /\ c.working = client.working /\ c.unregistered = client.unregistered /\ ~c.executing
      BY <1>2 DEF FollowClients
    <2> HIDE DEF c
    <2>3. FollowBaseOK(c, LegsOf, chain, mode)
      BY <2>2, FollowAside
    <2>4. FollowBaseOK(client', LegsOf, chain, mode) /\ client'.working /\ ~client'.executing
      BY <1>1, <1>2, <2>1, <2>2, <2>3, FollowWorkerStarts
    <2>5. FollowRestOK(client', LegsOf, mode) /\ FollowPhase(client', calls', Stopped)
      BY <2>4 DEF FollowRestOK, FollowPhase
    <2>6. FollowCallsOK(calls', chain, mode, client'.working)
      <3>1. client'.working = TRUE
        BY <2>4 DEF FollowBaseOK, FollowClients
      <3> QED
        BY <3>1, <1>1, <1>4, <2>1
    <2> QED
      BY <1>3, <2>4, <2>5, <2>6, FollowClientStep DEF FollowRunOK
  <1>6. CASE stored \notin SettledStored \cup {"none"} /\ mode = "chain"
    <2> DEFINE c == [client EXCEPT !.loaded = TRUE]
               d == [c EXCEPT !.tracked = TRUE, !.refs = LegsOf, !.hint = c.hint]
    <2>1. client' = d /\ Start(Registering("start"))
      BY <1>6 DEF StartTracking, Admit
    <2>2. c \in FollowClients /\ c.refs = client.refs /\ c.seen = client.seen /\ c.clocks = client.clocks
          /\ c.tracked = client.tracked /\ c.last = client.last /\ c.hint = client.hint
          /\ c.working = client.working /\ c.unregistered = client.unregistered /\ ~c.executing
      BY <1>2 DEF FollowClients
    <2> HIDE DEF c
    <2>3. LegsOf \in SUBSET Legs /\ c.hint \in SwapStatus
      BY <1>1, <2>2, FollowLegs DEF FollowClients
    <2>4. d \in FollowClients /\ d.refs = LegsOf /\ d.seen = client.seen /\ d.clocks = client.clocks
          /\ d.tracked /\ d.last = client.last /\ d.hint = client.hint
          /\ d.working = client.working /\ ~d.executing
      BY <2>2, <2>3 DEF FollowClients
    <2> HIDE DEF d
    <2>5. FollowBaseOK(d, LegsOf, chain, mode) /\ FollowRestOK(d, LegsOf, mode)
      BY <1>2, <2>4 DEF FollowBaseOK, FollowRestOK
    <2>6. /\ FollowCallOK(Registering("start"), chain, mode, client.working)
          /\ Registering("start").why = "start"
      BY <1>1, <1>6, FollowRegistering
    <2>7. FollowCallsOK(calls', chain, mode, client.working) /\ calls' = Append(calls, Registering("start"))
      BY <1>1, <2>1, <2>6, FollowStarts
    <2>8. \E k \in DOMAIN calls' : calls'[k].why = "start"
      BY <1>1, <2>6, <2>7
    <2>9. FollowPhase(client', calls', Stopped)
      BY <2>8 DEF FollowPhase
    <2> QED
      BY <1>3, <2>1, <2>4, <2>5, <2>7, <2>9, FollowClientStep DEF FollowRunOK
  <1>7. CASE stored \notin SettledStored \cup {"none"} /\ mode # "chain"
    <2> DEFINE a == [client EXCEPT !.tracked = TRUE, !.refs = {}, !.hint = stored]
               c == [a EXCEPT !.listening = TRUE]
    <2>1. client' = WorkerStarts(Recompute(c, FALSE)) /\ calls' = calls
      BY <1>1, <1>2, <1>7 DEF StartTracking, Admit
    <2>2. c \in FollowClients /\ c.refs = {} /\ c.seen = client.seen /\ c.clocks = client.clocks
          /\ c.hint = stored /\ ~c.executing
      BY <1>1, <1>2 DEF FollowClients
    <2> HIDE DEF c
    <2>3. FollowBaseOK(c, LegsOf, chain, mode)
      BY <1>2, <1>7, <2>2 DEF FollowBaseOK
    <2> DEFINE r == Recompute(c, FALSE)
    <2>4. FollowMoved(c, r, LegsOf, chain, mode, time)
      BY <1>1, <2>3, FollowRecomputes
    <2>5. r.last = FollowNew(stored, Unseen)
      <3>1. r = Emit(c, stored, Unseen, FALSE)
        BY <1>7, <2>2 DEF Recompute, RecomputeFromHint
      <3>2. FollowShapeOK(c, LegsOf) /\ Unseen \in [Legs -> FollowObserved]
        BY <1>1, <2>2, <2>3, FollowLegs DEF FollowShapeOK, FollowBaseOK, FollowSeenOK, FollowBlank, FollowObserved
      <3>3. FollowTold(c, FollowNew(stored, Unseen), Emit(c, stored, Unseen, FALSE), LegsOf, time)
        BY <1>1, <1>7, <3>2, FollowEmits
      <3> QED
        BY <3>1, <3>3 DEF FollowTold
    <2> HIDE DEF r
    <2>6. FollowBaseOK(r, LegsOf, chain, mode) /\ (r.executing => time = 0)
      BY <2>2, <2>4 DEF FollowMoved
    <2>7. r.last.offer.recommended = "claim" => time = 0
      BY <1>1, <1>7, <2>5, FollowFresh
    <2>8. FollowBaseOK(client', LegsOf, chain, mode) /\ client'.working /\ (client'.executing => time = 0)
      BY <1>1, <2>1, <2>6, <2>7, FollowWorkerStarts DEF r
    <2>9. FollowRestOK(client', LegsOf, mode) /\ FollowPhase(client', calls', Stopped)
      BY <2>8 DEF FollowRestOK, FollowPhase
    <2>10. FollowCallsOK(calls', chain, mode, client'.working)
      <3>1. client'.working = TRUE
        BY <2>8 DEF FollowBaseOK, FollowClients
      <3> QED
        BY <3>1, <1>1, <1>4, <2>1
    <2> QED
      BY <1>3, <2>8, <2>9, <2>10, FollowClientStep DEF FollowRunOK
  <1> QED
    BY <1>5, <1>6, <1>7

\* A swap created is tracked.
LEMMA FollowDoesTrack ==
  ASSUME FollowInv, TrackAfterCreate
  PROVE  FollowInv' /\ FollowRunOK(client, client')
  <1>1. FollowEnvOK /\ mode \in {"chain", "hints"} /\ direction \in Directions /\ client \in FollowClients
        /\ FollowBaseOK(client, LegsOf, chain, mode) /\ FollowRestOK(client, LegsOf, mode)
        /\ FollowCallsOK(calls, chain, mode, client.working) /\ FollowPhase(client, calls, Stopped)
        /\ LegsOf \in SUBSET Legs /\ client.hint \in SwapStatus
    BY FollowHas DEF FollowClients
  <1>2. UNCHANGED <<Env, Server>> /\ stored' = "pending"
    BY DEF TrackAfterCreate
  <1>3. ASSUME FollowBaseOK(client', LegsOf, chain, mode), FollowRestOK(client', LegsOf, mode),
               FollowCallsOK(calls', chain, mode, client'.working), FollowPhase(client', calls', Stopped)
        PROVE  FollowInv'
    <2>1. LegsOf' = LegsOf /\ Stopped' = Stopped
      BY <1>2 DEF Env, LegsOf, Ledger, Stopped, Unseen
    <2>2. FollowEnvOK' /\ FollowServerOK' /\ stored' \in SwapStatus
      BY <1>2, <2>1 DEF FollowInv, FollowEnvOK, FollowServerOK, Env, Server, SwapStatus, ClientOnly
    <2>3. mode' = mode /\ chain' = chain
      BY <1>2 DEF Env
    <2> QED
      BY <1>3, <2>1, <2>2, <2>3 DEF FollowInv
  <1>4. CASE ~client.working
    BY <1>1, <1>3, <1>4 DEF TrackAfterCreate, FollowRunOK
  <1>5. CASE client.working /\ mode = "chain"
    <2> DEFINE d == [client EXCEPT !.tracked = TRUE, !.refs = LegsOf, !.hint = client.hint]
    <2>1. client' = d /\ Start(Registering("track"))
      BY <1>5 DEF TrackAfterCreate, Admit
    <2>2. d \in FollowClients /\ d.refs = LegsOf /\ d.seen = client.seen /\ d.clocks = client.clocks
          /\ d.last = client.last /\ d.hint = client.hint
          /\ d.working = client.working /\ d.executing = client.executing
      BY <1>1 DEF FollowClients
    <2> HIDE DEF d
    <2>3. FollowBaseOK(d, LegsOf, chain, mode) /\ FollowRestOK(d, LegsOf, mode)
      BY <1>1, <1>5, <2>2 DEF FollowBaseOK, FollowRestOK
    <2>4. /\ FollowCallOK(Registering("track"), chain, mode, client.working)
          /\ Registering("track").why = "track"
      BY <1>1, <1>5, FollowRegistering
    <2>5. FollowCallsOK(calls', chain, mode, client.working)
      BY <2>1, <2>4, FollowStarts
    <2> QED
      BY <1>3, <1>5, <2>1, <2>2, <2>3, <2>5 DEF FollowRunOK, FollowPhase
  <1>6. CASE client.working /\ mode # "chain"
    <2> DEFINE w == IF client.hint = "none" THEN stored ELSE client.hint
               a == [client EXCEPT !.tracked = TRUE, !.refs = {}, !.hint = w]
               b == [a EXCEPT !.hint = "pending"]
               c == Recompute(b, FALSE)
    <2>1. client' = [c EXCEPT !.subscribed = c.tracked] /\ calls' = calls
      BY <1>1, <1>6 DEF TrackAfterCreate, Admit
    <2>2. b \in FollowClients /\ b.refs = {} /\ b.seen = client.seen /\ b.clocks = client.clocks
          /\ b.working /\ b.executing = client.executing
      BY <1>1, <1>6 DEF FollowClients, SwapStatus, ClientOnly, FollowInv
    <2> HIDE DEF b
    <2>3. FollowBaseOK(b, LegsOf, chain, mode)
      BY <1>1, <1>6, <2>2 DEF FollowBaseOK
    <2>4. FollowMoved(b, c, LegsOf, chain, mode, time)
      BY <1>1, <2>3, FollowRecomputes
    <2> HIDE DEF c
    <2>5. FollowBaseOK(c, LegsOf, chain, mode) /\ c.working /\ (c.executing => client.executing \/ time = 0)
          /\ c \in FollowClients /\ c.tracked \in BOOLEAN
      BY <2>2, <2>4 DEF FollowMoved, FollowBaseOK, FollowClients
    <2>6. /\ client' \in FollowClients /\ client'.refs = c.refs /\ client'.seen = c.seen
          /\ client'.clocks = c.clocks /\ client'.last = c.last /\ client'.hint = c.hint
          /\ client'.working = c.working /\ client'.executing = c.executing
      BY <2>1, <2>5 DEF FollowClients
    <2>7. FollowBaseOK(client', LegsOf, chain, mode) /\ FollowRestOK(client', LegsOf, mode)
      BY <2>5, <2>6 DEF FollowBaseOK, FollowRestOK
    <2>8. client'.working = client.working
      BY <1>1, <1>6, <2>5, <2>6 DEF FollowClients
    <2> QED
      BY <1>1, <1>3, <1>6, <2>1, <2>5, <2>6, <2>7, <2>8 DEF FollowRunOK, FollowPhase
  <1> QED
    BY <1>1, <1>4, <1>5, <1>6



\* The server's side stays.
LEMMA FollowServerStays ==
  ASSUME FollowInv, UNCHANGED <<Env, Server>>
  PROVE  FollowServerOK'
  BY DEF FollowInv, FollowServerOK, Env, Server

\* A step of the client that neither starts nor stops the worker.
LEMMA FollowSteps ==
  ASSUME FollowInv, UNCHANGED Env, FollowServerOK', stored' \in SwapStatus,
         client # Stopped \/ calls # <<>>,
         FollowBaseOK(client', LegsOf, chain, mode), FollowRestOK(client', LegsOf, mode),
         client'.working = client.working, client'.executing => client.executing \/ time = 0,
         FollowCallsOK(calls', chain, mode, client.working), FollowStartKept(calls, calls')
  PROVE  FollowInv' /\ FollowRunOK(client, client')
  <1>1. LegsOf' = LegsOf /\ Stopped' = Stopped
    BY DEF Env, LegsOf, Ledger, Stopped, Unseen
  <1>2. FollowEnvOK'
    BY <1>1 DEF FollowInv, FollowEnvOK, Env
  <1>3. mode' = mode /\ chain' = chain
    BY DEF Env
  <1>4. FollowPhase(client', calls', Stopped)
    BY DEF FollowInv, FollowPhase, FollowStartKept
  <1> QED
    BY <1>1, <1>2, <1>3, <1>4 DEF FollowInv, FollowRunOK

\* What is the same after as before.
LEMMA FollowSame ==
  ASSUME FollowInv
  PROVE  /\ FollowCallsOK(calls, chain, mode, client.working) /\ FollowStartKept(calls, calls)
         /\ FollowBaseOK(client, LegsOf, chain, mode) /\ FollowRestOK(client, LegsOf, mode)
         /\ stored \in SwapStatus /\ (client.working => client # Stopped) /\ (client.tracked => client # Stopped)
         /\ FollowStartKept(calls, calls)
  <1>1. ~Stopped.working /\ ~Stopped.tracked
    BY FollowHas, FollowStopped
  <1> QED
    BY <1>1 DEF FollowInv, FollowStartKept

\* A call begun, the others as they were.
LEMMA FollowBegins ==
  ASSUME FollowInv, NEW call, FollowCallOK(call, chain, mode, client.working), Start(call),
         call.why # "start"
  PROVE  FollowCallsOK(calls', chain, mode, client.working) /\ FollowStartKept(calls, calls')
  BY FollowStarts DEF FollowStartKept

\* A swap not registered is registered again, or needs it no more.
LEMMA FollowDoesRetryUnregistered ==
  ASSUME FollowInv, RetryUnregistered
  PROVE  FollowInv' /\ FollowRunOK(client, client')
  <1>1. /\ client.working /\ mode = "chain" /\ FollowServerOK' /\ stored' = stored
        /\ stored \in SwapStatus /\ UNCHANGED Env /\ client # Stopped
    BY FollowServerStays, FollowSame DEF RetryUnregistered
  <1>2. /\ client \in FollowClients /\ FollowBaseOK(client, LegsOf, chain, mode)
        /\ LegsOf \in SUBSET Legs /\ client.hint \in SwapStatus
    BY FollowHas DEF FollowClients
  <1>3. CASE client.tracked \/ client.last # NoOffer
    <2> DEFINE d == [client EXCEPT !.unregistered = FALSE]
    <2>1. client' = d /\ calls' = calls
      BY <1>3 DEF RetryUnregistered
    <2>2. d \in FollowClients /\ d.refs = client.refs /\ d.seen = client.seen /\ d.clocks = client.clocks
          /\ d.tracked = client.tracked /\ d.last = client.last /\ d.hint = client.hint
          /\ d.working = client.working /\ d.executing = client.executing
      BY <1>2 DEF FollowClients
    <2> HIDE DEF d
    <2>3. FollowBaseOK(d, LegsOf, chain, mode) /\ FollowRestOK(d, LegsOf, mode)
      BY <1>1, <2>2, FollowAside
    <2> QED
      BY <1>1, <2>1, <2>2, <2>3, FollowSame, FollowSteps
  <1>4. CASE ~(client.tracked \/ client.last # NoOffer)
    <2> DEFINE d == [client EXCEPT !.tracked = TRUE, !.refs = LegsOf, !.hint = client.hint]
    <2>1. client' = d /\ Start(Registering("again"))
      BY <1>1, <1>4 DEF RetryUnregistered, Admit
    <2>2. d \in FollowClients /\ d.refs = LegsOf /\ d.seen = client.seen /\ d.clocks = client.clocks
          /\ d.last = client.last /\ d.hint = client.hint
          /\ d.working = client.working /\ d.executing = client.executing
      BY <1>2 DEF FollowClients
    <2> HIDE DEF d
    <2>3. FollowBaseOK(d, LegsOf, chain, mode) /\ FollowRestOK(d, LegsOf, mode)
      BY <1>1, <1>2, <2>2 DEF FollowBaseOK, FollowRestOK
    <2>4. /\ FollowCallOK(Registering("again"), chain, mode, client.working)
          /\ Registering("again").why = "again"
      BY <1>1, FollowRegistering
    <2>5. FollowCallsOK(calls', chain, mode, client.working) /\ FollowStartKept(calls, calls')
      BY <2>1, <2>4, FollowBegins
    <2> QED
      BY <1>1, <2>1, <2>2, <2>3, <2>5, FollowSteps
  <1> QED
    BY <1>3, <1>4

\* A tick of the client's own clock.
LEMMA FollowDoesTick ==
  ASSUME FollowInv, LocalTick
  PROVE  FollowInv' /\ FollowRunOK(client, client')
  <1>1. client' = RecomputeAll(client) /\ calls' = calls /\ stored' = stored /\ UNCHANGED Env
        /\ FollowServerOK' /\ client # Stopped
    BY FollowServerStays, FollowSame DEF LocalTick
  <1> DEFINE d == RecomputeAll(client)
  <1>2. FollowMoved(client, d, LegsOf, chain, mode, time)
    BY FollowHas, FollowRecomputesAll
  <1>3. client' = d
    BY <1>1
  <1> HIDE DEF d
  <1>4. FollowBaseOK(d, LegsOf, chain, mode) /\ FollowRestOK(d, LegsOf, mode)
        /\ d.working = client.working /\ (d.executing => client.executing \/ time = 0)
    BY <1>2, FollowSame DEF FollowMoved
  <1> QED
    BY <1>1, <1>3, <1>4, FollowSame, FollowSteps

\* The calls begun by a tick or a push.
LEMMA FollowDoesRead ==
  ASSUME FollowInv, RiskTick \/ PushReconcile
  PROVE  FollowInv' /\ FollowRunOK(client, client')
  <1>1. client' = client /\ stored' = stored /\ UNCHANGED Env /\ FollowServerOK' /\ client # Stopped /\ mode = "chain"
    <2>1. CASE RiskTick
      BY <2>1, FollowServerStays, FollowSame DEF RiskTick
    <2>2. CASE PushReconcile
      <3>1. client.refs # {}
        BY <2>2 DEF PushReconcile
      <3>2. client # Stopped
        BY <3>1, FollowHas, FollowStopped
      <3> QED
        BY <2>2, <3>2, FollowServerStays, FollowSame DEF PushReconcile
    <2> QED
      BY <2>1, <2>2
  <1>2. FollowCallsOK(calls', chain, mode, client.working) /\ FollowStartKept(calls, calls')
    <2>1. CASE RiskTick
      <3> DEFINE call == [Reading(FALSE) EXCEPT !.why = "tick"]
      <3>1. FollowCallOK(call, chain, mode, client.working) /\ call.why = "tick" /\ Start(call)
        BY <2>1, FollowTicking DEF RiskTick
      <3> HIDE DEF call
      <3> QED
        BY <3>1, FollowBegins
    <2>2. CASE PushReconcile
      <3> DEFINE ls == {l \in LegsOf : Ledger(l) = "bitcoin"}
      <3>1. Start(Call("push", "pushed", ls, FALSE))
        BY <2>2 DEF PushReconcile
      <3> HIDE DEF ls
      <3>2. FollowCallOK(Call("push", "pushed", ls, FALSE), chain, mode, client.working)
            /\ Call("push", "pushed", ls, FALSE).why = "push"
        BY <1>1, FollowPushing
      <3> QED
        BY <3>1, <3>2, FollowBegins
    <2> QED
      BY <2>1, <2>2
  <1> QED
    BY <1>1, <1>2, FollowSame, FollowSteps

\* A status told to the client.
LEMMA FollowHints ==
  ASSUME FollowInv, NEW s \in SwapStatus, mode = "chain" => FollowTruth(s, chain), NEW d,
         d = [client EXCEPT !.hint = s]
  PROVE  /\ FollowBaseOK(d, LegsOf, chain, mode) /\ FollowRestOK(d, LegsOf, mode)
         /\ d.working = client.working /\ d.executing = client.executing
  <1>1. client \in FollowClients /\ FollowBaseOK(client, LegsOf, chain, mode) /\ FollowRestOK(client, LegsOf, mode)
    BY FollowHas
  <1>2. d \in FollowClients /\ d.refs = client.refs /\ d.seen = client.seen /\ d.clocks = client.clocks
        /\ d.tracked = client.tracked /\ d.last = client.last /\ d.hint = s
        /\ d.working = client.working /\ d.executing = client.executing /\ d.unregistered = client.unregistered
    BY <1>1 DEF FollowClients
  <1> QED
    BY <1>1, <1>2 DEF FollowBaseOK, FollowRestOK

\* A pushed status is heard.
LEMMA FollowDoesHear ==
  ASSUME FollowInv, HearStatus
  PROVE  FollowInv' /\ FollowRunOK(client, client')
  <1> DEFINE s == Head(inFlight)
  <1>1. stored' = stored /\ UNCHANGED <<Env, served, feed>> /\ inFlight # <<>> /\ inFlight' = Tail(inFlight)
        /\ client # Stopped /\ client.working
    BY FollowSame DEF HearStatus
  <1>2. /\ inFlight \in Seq(SwapStatus \ {"none"}) /\ Len(inFlight) <= MaxWire
        /\ \A k \in DOMAIN inFlight : FollowTruth(inFlight[k], chain)
        /\ FollowServerOK /\ MaxWire \in Nat
    BY FollowAssumption DEF FollowInv, FollowServerOK
  <1>3. /\ s \in SwapStatus \ {"none"} /\ s = inFlight[1] /\ 1 \in DOMAIN inFlight
        /\ Tail(inFlight) \in Seq(SwapStatus \ {"none"}) /\ Len(Tail(inFlight)) = Len(inFlight) - 1
        /\ Len(inFlight) \in Nat /\ DOMAIN inFlight = 1..Len(inFlight)
        /\ DOMAIN Tail(inFlight) = 1..Len(Tail(inFlight))
        /\ \A k \in 1..Len(Tail(inFlight)) : Tail(inFlight)[k] = inFlight[k + 1]
    BY <1>1, <1>2, HeadTailProperties, LenProperties, EmptySeq
  <1>4. FollowServerOK'
    <2>1. \A k \in DOMAIN inFlight' : FollowTruth(inFlight'[k], chain)
      BY <1>1, <1>2, <1>3
    <2>2. chain' = chain /\ served' = served /\ feed' = feed
      BY <1>1 DEF Env
    <2> QED
      BY <1>1, <1>2, <1>3, <2>1, <2>2 DEF FollowServerOK
  <1>5. s \in SwapStatus /\ FollowTruth(s, chain)
    BY <1>2, <1>3
  <1> HIDE DEF s
  <1> DEFINE c == [client EXCEPT !.hint = s]
             d == Recompute(c, FALSE)
  <1>6. /\ FollowBaseOK(c, LegsOf, chain, mode) /\ FollowRestOK(c, LegsOf, mode)
        /\ c.working = client.working /\ c.executing = client.executing
    BY <1>5, FollowHints
  <1>7. CASE ~client.tracked
    BY <1>1, <1>4, <1>7, FollowSame, FollowSteps DEF HearStatus
  <1>8. CASE client.tracked /\ mode = "chain"
    <2>1. client' = c /\ Start(Reading(FALSE))
      BY <1>8 DEF HearStatus, s
    <2>2. FollowCallsOK(calls', chain, mode, client.working) /\ FollowStartKept(calls, calls')
      <3>1. FollowCallOK(Reading(FALSE), chain, mode, client.working) /\ Reading(FALSE).why = "hint"
        BY FollowReading
      <3> QED
        BY <2>1, <3>1, FollowBegins
    <2> HIDE DEF c
    <2> QED
      BY <1>1, <1>4, <1>6, <2>1, <2>2, FollowSame, FollowSteps
  <1>9. CASE client.tracked /\ mode # "chain"
    <2>1. client' = d /\ calls' = calls
      BY <1>9 DEF HearStatus, s
    <2> HIDE DEF c
    <2>2. FollowMoved(c, d, LegsOf, chain, mode, time)
      BY <1>6, FollowHas, FollowRecomputes
    <2> HIDE DEF d
    <2>3. FollowBaseOK(d, LegsOf, chain, mode) /\ FollowRestOK(d, LegsOf, mode)
          /\ d.working = client.working /\ (d.executing => client.executing \/ time = 0)
      BY <1>6, <2>2 DEF FollowMoved
    <2> QED
      BY <1>1, <1>4, <2>1, <2>3, FollowSame, FollowSteps
  <1> QED
    BY <1>7, <1>8, <1>9

\* A retry derives the action anew.
LEMMA FollowDoesRetry ==
  ASSUME FollowInv, RetryFires
  PROVE  FollowInv' /\ FollowRunOK(client, client')
  <1> DEFINE d == [client EXCEPT !.timer = FALSE]
  <1>1. client.timer /\ client' = d /\ stored' = stored /\ UNCHANGED Env /\ FollowServerOK'
    BY FollowServerStays DEF RetryFires
  <1>2. client # Stopped
    BY <1>1, FollowHas, FollowStopped
  <1>3. client \in FollowClients
    BY FollowHas
  <1>4. d \in FollowClients /\ d.refs = client.refs /\ d.seen = client.seen /\ d.clocks = client.clocks
        /\ d.tracked = client.tracked /\ d.last = client.last /\ d.hint = client.hint
        /\ d.working = client.working /\ d.executing = client.executing /\ d.unregistered = client.unregistered
    BY <1>3 DEF FollowClients
  <1> HIDE DEF d
  <1>5. FollowBaseOK(d, LegsOf, chain, mode) /\ FollowRestOK(d, LegsOf, mode)
    BY <1>4, FollowAside
  <1>6. FollowCallsOK(calls', chain, mode, client.working) /\ FollowStartKept(calls, calls')
    <2>1. CASE client.tracked
      <3>1. FollowCallOK(Reading(TRUE), chain, mode, client.working) /\ Reading(TRUE).why = "hint"
        BY FollowReading
      <3>2. Start(Reading(TRUE))
        BY <2>1 DEF RetryFires
      <3> QED
        BY <3>1, <3>2, FollowBegins
    <2>2. CASE ~client.tracked
      BY <2>2, FollowSame DEF RetryFires
    <2> QED
      BY <2>1, <2>2
  <1> QED
    BY <1>1, <1>2, <1>4, <1>5, <1>6, FollowSame, FollowSteps

\* The status is synchronised at the end of a swap.
LEMMA FollowDoesSync ==
  ASSUME FollowInv, SyncSettledStatus
  PROVE  FollowInv' /\ FollowRunOK(client, client')
  <1> DEFINE d == [client EXCEPT !.settled = TRUE]
  <1>1. client' = d /\ calls' = calls /\ UNCHANGED Env /\ FollowServerOK' /\ client # Stopped
        /\ (stored' = stored \/ stored' = served)
    BY FollowServerStays, FollowSame DEF SyncSettledStatus
  <1>2. stored' \in SwapStatus
    BY <1>1, FollowSame DEF FollowInv, FollowServerOK
  <1>3. client \in FollowClients
    BY FollowHas
  <1>4. d \in FollowClients /\ d.refs = client.refs /\ d.seen = client.seen /\ d.clocks = client.clocks
        /\ d.tracked = client.tracked /\ d.last = client.last /\ d.hint = client.hint
        /\ d.working = client.working /\ d.executing = client.executing /\ d.unregistered = client.unregistered
    BY <1>3 DEF FollowClients
  <1> HIDE DEF d
  <1>5. FollowBaseOK(d, LegsOf, chain, mode) /\ FollowRestOK(d, LegsOf, mode)
    BY <1>4, FollowAside
  <1> QED
    BY <1>1, <1>2, <1>4, <1>5, FollowSame, FollowSteps


\* What is known of a call in flight.
LEMMA FollowOf ==
  ASSUME FollowInv, NEW i \in DOMAIN calls
  PROVE  /\ calls # <<>> /\ calls[i] \in FollowCalls /\ FollowCallOK(calls[i], chain, mode, client.working)
         /\ calls[i].why \in {"start", "track", "again", "hint", "tick", "push"}
         /\ calls[i].got \in [Legs -> HtlcObservation \cup {"ask", "done", "failed"}]
         /\ calls[i].force \in BOOLEAN /\ calls[i].phase \in {"register", "refresh", "fetch", "pushed"}
         /\ FollowPhaseOK(calls[i].why, calls[i].phase)
         /\ calls[i].phase # "fetch" => mode = "chain"
         /\ calls[i].phase = "fetch" => mode = "hints"
         /\ ~client.working => calls[i].why \in {"start", "hint", "push"}
         /\ calls[i].why = "start" => ~client.working
  <1>1. FollowCallsOK(calls, chain, mode, client.working) /\ mode \in {"chain", "hints"}
        /\ DOMAIN calls = 1..Len(calls)
    BY FollowHas
  <1>2. FollowCallOK(calls[i], chain, mode, client.working)
    BY <1>1 DEF FollowCallsOK
  <1>3. calls[i] \in FollowCalls
    BY <1>2 DEF FollowCallOK
  <1>4. calls # <<>>
    BY <1>1, EmptySeq
  <1>5. calls[i].why \in {"start", "track", "again", "hint", "tick", "push"}
        /\ calls[i].got \in [Legs -> HtlcObservation \cup {"ask", "done", "failed"}]
        /\ calls[i].force \in BOOLEAN /\ calls[i].phase \in {"register", "refresh", "fetch", "pushed"}
    BY <1>3 DEF FollowCalls
  <1>6. /\ FollowPhaseOK(calls[i].why, calls[i].phase)
        /\ (calls[i].phase = "fetch") <=> (mode = "hints")
        /\ ~client.working => calls[i].why \in {"start", "hint", "push"}
        /\ client.working => calls[i].why # "start"
    BY <1>2 DEF FollowCallOK
  <1> QED
    BY <1>1, <1>2, <1>3, <1>4, <1>5, <1>6

\* One leg of a call answered.
LEMMA FollowAnswers1 ==
  ASSUME FollowInv, NEW i \in DOMAIN calls, NEW leg \in Legs,
         NEW what \in HtlcObservation \cup {"done", "failed"}, Done1(i, leg, what),
         what \in Spent => chain[leg] = what, leg = "server" => what # "invalid"
  PROVE  FollowCallsOK(calls', chain, mode, client.working) /\ FollowStartKept(calls, calls')
  <1> DEFINE call == calls[i]
             got == [call.got EXCEPT ![leg] = what]
             new == [call EXCEPT !.got = got]
  <1>1. calls' = [calls EXCEPT ![i] = new]
    BY DEF Done1
  <1>2. call \in FollowCalls /\ FollowCallOK(call, chain, mode, client.working)
        /\ call.got \in [Legs -> HtlcObservation \cup {"ask", "done", "failed"}]
        /\ call.why = calls[i].why
    BY FollowOf
  <1> HIDE DEF call
  <1>3. got \in [Legs -> HtlcObservation \cup {"ask", "done", "failed"}]
        /\ \A l \in Legs : got[l] = IF l = leg THEN what ELSE call.got[l]
    BY <1>2
  <1> HIDE DEF got
  <1>4. new \in FollowCalls /\ new.got = got /\ new.why = call.why /\ new.phase = call.phase
    BY <1>2, <1>3 DEF FollowCalls
  <1> HIDE DEF new
  <1>5. FollowCallOK(new, chain, mode, client.working)
    BY <1>2, <1>3, <1>4 DEF FollowCallOK, Legs
  <1>6. new.why = calls[i].why
    BY <1>2, <1>4
  <1>7. FollowCallsOK(calls', chain, mode, client.working)
        /\ \A k \in DOMAIN calls : k \in DOMAIN calls' /\ calls'[k].why = calls[k].why
    BY <1>1, <1>5, <1>6, FollowGoesOn
  <1> QED
    BY <1>7 DEF FollowStartKept

\* A leg is read.
LEMMA FollowDoesSample ==
  ASSUME FollowInv, NEW i \in DOMAIN calls, NEW leg \in Legs, Sample(i, leg) \/ SampleFails(i, leg)
  PROVE  FollowInv' /\ FollowRunOK(client, client')
  <1>1. stored' = stored /\ UNCHANGED Env /\ FollowServerOK' /\ calls # <<>>
    BY FollowServerStays, FollowOf DEF Sample, SampleFails
  <1>2. /\ client \in FollowClients /\ FollowBaseOK(client, LegsOf, chain, mode)
        /\ FollowRestOK(client, LegsOf, mode) /\ FollowChainOK(chain, LegsOf, relayed)
        /\ LegsOf \subseteq Legs /\ client.refs \subseteq LegsOf /\ client.clocks \in SUBSET Legs
        /\ client.clocks \subseteq LegsOf
        /\ chain \in [Legs -> HtlcObservation \cup {"noleg"}]
    BY FollowHas DEF FollowBaseOK, FollowClients
  <1>3. CASE SampleFails(i, leg) \/ leg \notin client.refs
    <2>1. client' = client /\ (Done1(i, leg, "failed") \/ Done1(i, leg, "done"))
      BY <1>3 DEF Sample, SampleFails
    <2>2. "failed" \notin Spent /\ "done" \notin Spent
      BY DEF Spent
    <2>3. FollowCallsOK(calls', chain, mode, client.working) /\ FollowStartKept(calls, calls')
      BY <2>1, <2>2, FollowAnswers1
    <2> QED
      BY <1>1, <2>1, <2>3, FollowSame, FollowSteps
  <1>4. CASE Sample(i, leg) /\ leg \in client.refs
    <2> DEFINE d == [client EXCEPT !.clocks = client.clocks \cup {leg}]
    <2>1. Done1(i, leg, chain[leg]) /\ (client' = d \/ client' = client)
      BY <1>4 DEF Sample
    <2>2. leg \in LegsOf /\ chain[leg] \in HtlcObservation /\ (leg = "server" => chain[leg] # "invalid")
      BY <1>2, <1>4 DEF FollowChainOK
    <2>3. FollowCallsOK(calls', chain, mode, client.working) /\ FollowStartKept(calls, calls')
      <3> DEFINE what == chain[leg]
      <3>1. what \in HtlcObservation /\ (leg = "server" => what # "invalid") /\ what = chain[leg] /\ Done1(i, leg, what)
        BY <2>1, <2>2
      <3> HIDE DEF what
      <3> QED
        BY <3>1, FollowAnswers1
    <2>4. /\ d \in FollowClients /\ d.refs = client.refs /\ d.seen = client.seen
          /\ d.clocks = client.clocks \cup {leg} /\ d.tracked = client.tracked /\ d.last = client.last
          /\ d.hint = client.hint /\ d.working = client.working /\ d.unregistered = client.unregistered
          /\ d.executing = client.executing
      <3> DEFINE clocks == client.clocks \cup {leg}
      <3>1. clocks \in SUBSET Legs
        BY <1>2
      <3> HIDE DEF clocks
      <3>2. d = [client EXCEPT !.clocks = clocks]
        BY DEF clocks
      <3> HIDE DEF d
      <3> QED
        BY <1>2, <3>1, <3>2 DEF FollowClients, clocks
    <2> HIDE DEF d
    <2>5. FollowBaseOK(d, LegsOf, chain, mode)
      BY <1>2, <2>2, <2>4 DEF FollowBaseOK
    <2>6. FollowRestOK(d, LegsOf, mode)
      BY <1>2, <2>4 DEF FollowRestOK
    <2>7. FollowBaseOK(client', LegsOf, chain, mode) /\ FollowRestOK(client', LegsOf, mode)
          /\ client'.working = client.working /\ client'.executing = client.executing
      BY <1>2, <2>1, <2>4, <2>5, <2>6
    <2> QED
      BY <1>1, <2>3, <2>7, FollowSame, FollowSteps
  <1> QED
    BY <1>3, <1>4

\* A read is stored.
LEMMA FollowStores ==
  ASSUME FollowInv, NEW leg \in Legs, NEW what \in HtlcObservation, what \in Spent => chain[leg] = what,
         leg = "server" => what # "invalid", NEW s, s = [client EXCEPT !.seen[leg] = what], leg \in client.refs
  PROVE  /\ FollowBaseOK(s, LegsOf, chain, mode) /\ FollowRestOK(s, LegsOf, mode)
         /\ s.working = client.working /\ s.executing = client.executing
  <1>1. /\ client \in FollowClients /\ FollowBaseOK(client, LegsOf, chain, mode)
        /\ FollowRestOK(client, LegsOf, mode) /\ LegsOf \subseteq Legs /\ leg \in LegsOf
        /\ client.seen \in [Legs -> FollowObserved] /\ FollowSeenOK(client.seen, LegsOf, chain)
    BY FollowHas DEF FollowBaseOK, FollowClients
  <1> DEFINE seen == [client.seen EXCEPT ![leg] = what]
  <1>2. seen \in [Legs -> FollowObserved] /\ \A l \in Legs : seen[l] = IF l = leg THEN what ELSE client.seen[l]
    BY <1>1 DEF FollowObserved
  <1>3. s = [client EXCEPT !.seen = seen]
    OBVIOUS
  <1> HIDE DEF seen
  <1>4. /\ s \in FollowClients /\ s.refs = client.refs /\ s.seen = seen
        /\ s.clocks = client.clocks /\ s.tracked = client.tracked /\ s.last = client.last
        /\ s.hint = client.hint /\ s.working = client.working /\ s.unregistered = client.unregistered
        /\ s.executing = client.executing
    BY <1>1, <1>2, <1>3 DEF FollowClients
  <1>5. FollowSeenOK(seen, LegsOf, chain)
    BY <1>1, <1>2 DEF FollowSeenOK, HtlcObservation, Legs
  <1>6. FollowBaseOK(s, LegsOf, chain, mode)
    BY <1>1, <1>4, <1>5 DEF FollowBaseOK
  <1>7. FollowRestOK(s, LegsOf, mode)
    <2>1. \A l \in LegsOf : client.seen[l] # "unseen" => seen[l] # "unseen"
      BY <1>1, <1>2 DEF HtlcObservation
    <2> QED
      BY <1>1, <1>4, <2>1 DEF FollowRestOK
  <1> QED
    BY <1>4, <1>6, <1>7

\* A read arrives.
LEMMA FollowDoesLand ==
  ASSUME FollowInv, NEW i \in DOMAIN calls, NEW leg \in Legs, Land(i, leg)
  PROVE  FollowInv' /\ FollowRunOK(client, client')
  <1> DEFINE what == calls[i].got[leg]
  <1>1. /\ stored' = stored /\ UNCHANGED Env /\ FollowServerOK' /\ calls # <<>>
        /\ what \in HtlcObservation /\ client' = Store(client, leg, what) /\ Done1(i, leg, "done")
    BY FollowServerStays, FollowOf DEF Land
  <1>2. FollowCallsOK(calls', chain, mode, client.working) /\ FollowStartKept(calls, calls')
    <2>1. "done" \notin Spent
      BY DEF Spent
    <2> QED
      BY <1>1, <2>1, FollowAnswers1
  <1>3. (what \in Spent => chain[leg] = what) /\ (leg = "server" => what # "invalid")
    BY FollowOf DEF FollowCallOK
  <1> HIDE DEF what
  <1> DEFINE s == [client EXCEPT !.seen[leg] = what]
             d == RecomputeAll(s)
  <1>4. \/ client' = client
        \/ leg \in client.refs /\ client' = IF s.listening THEN d ELSE s
    BY <1>1 DEF Store
  <1>5. CASE client' = client
    BY <1>1, <1>2, <1>5, FollowSame, FollowSteps
  <1>6. CASE leg \in client.refs /\ client' = IF s.listening THEN d ELSE s
    <2>1. /\ FollowBaseOK(s, LegsOf, chain, mode) /\ FollowRestOK(s, LegsOf, mode)
          /\ s.working = client.working /\ s.executing = client.executing
      BY <1>1, <1>3, <1>6, FollowStores
    <2> HIDE DEF s
    <2>2. FollowMoved(s, d, LegsOf, chain, mode, time)
      BY <2>1, FollowHas, FollowRecomputesAll
    <2>3. client' = d \/ client' = s
      BY <1>6
    <2> HIDE DEF d
    <2>4. FollowBaseOK(d, LegsOf, chain, mode) /\ FollowRestOK(d, LegsOf, mode)
          /\ d.working = client.working /\ (d.executing => client.executing \/ time = 0)
      BY <2>1, <2>2 DEF FollowMoved
    <2>5. FollowBaseOK(client', LegsOf, chain, mode) /\ FollowRestOK(client', LegsOf, mode)
          /\ client'.working = client.working /\ (client'.executing => client.executing \/ time = 0)
      BY <2>1, <2>3, <2>4
    <2> QED
      BY <1>1, <1>2, <2>5, FollowSame, FollowSteps
  <1> QED
    BY <1>4, <1>5, <1>6


\* A call goes on to its next phase.
LEMMA FollowGoes ==
  ASSUME FollowInv, NEW i \in DOMAIN calls, NEW ls, mode = "chain",
         calls' = [calls EXCEPT ![i] = Call(calls[i].why, "refresh", ls, FALSE)],
         calls[i].why \in {"start", "track", "again"}
  PROVE  FollowCallsOK(calls', chain, mode, client.working) /\ FollowStartKept(calls, calls')
  <1> DEFINE why == calls[i].why
             call == Call(why, "refresh", ls, FALSE)
  <1>1. calls' = [calls EXCEPT ![i] = call] /\ why = calls[i].why
    OBVIOUS
  <1>2. /\ why \in {"start", "track", "again", "hint", "tick", "push"}
        /\ ~client.working => why \in {"start", "hint", "push"}
        /\ client.working => why # "start"
        /\ why \in {"start", "track", "again"}
    BY FollowOf
  <1> HIDE DEF why
  <1>3. /\ "refresh" \in {"register", "refresh", "fetch", "pushed"} /\ FALSE \in BOOLEAN
        /\ FollowPhaseOK(why, "refresh") /\ (("refresh" = "fetch") <=> (mode = "hints"))
    BY <1>2 DEF FollowPhaseOK
  <1>4. FollowCallOK(call, chain, mode, client.working) /\ call.why = why
    BY <1>2, <1>3, FollowCalls1
  <1> HIDE DEF call
  <1>5. FollowCallsOK(calls', chain, mode, client.working)
        /\ \A k \in DOMAIN calls : k \in DOMAIN calls' /\ calls'[k].why = calls[k].why
    BY <1>1, <1>4, FollowGoesOn
  <1> QED
    BY <1>5 DEF FollowStartKept

\* A call ended, while the worker goes on as it was.
LEMMA FollowStops ==
  ASSUME FollowInv, NEW i \in DOMAIN calls, Forget(i), calls[i].why # "start"
  PROVE  FollowCallsOK(calls', chain, mode, client.working) /\ FollowStartKept(calls, calls')
  <1> DEFINE w == client.working
  <1>1. w \in BOOLEAN /\ w = client.working
    BY FollowHas
  <1> HIDE DEF w
  <1>2. (client.working => w) /\ (w => client.working \/ calls[i].why = "start")
    BY <1>1
  <1>3. /\ FollowCallsOK(calls', chain, mode, w)
        /\ calls[i].why # "start" => FollowStartKept(calls, calls')
    BY <1>1, <1>2, FollowEnds
  <1> QED
    BY <1>1, <1>3

\* A registration fails.
LEMMA FollowDoesRegisterFail ==
  ASSUME FollowInv, NEW i \in DOMAIN calls, RegisterFails(i)
  PROVE  FollowInv' /\ FollowRunOK(client, client')
  <1> DEFINE ls == LegsOf \ Failed(i)
             u == [client EXCEPT !.tracked = FALSE]
             c == Release(u, ls)
  <1>1. /\ stored' = stored /\ UNCHANGED Env /\ FollowServerOK' /\ calls # <<>> /\ mode = "chain"
        /\ calls[i].why \in {"start", "track", "again"}
    BY FollowServerStays, FollowOf DEF RegisterFails, FollowPhaseOK
  <1>2. /\ client \in FollowClients /\ FollowBaseOK(client, LegsOf, chain, mode) /\ LegsOf \subseteq Legs
        /\ direction \in Directions /\ FollowSeenOK(client.seen, LegsOf, chain)
        /\ client.refs \subseteq LegsOf /\ client.clocks \subseteq LegsOf
    BY FollowHas DEF FollowBaseOK
  <1>3. /\ u \in FollowClients /\ u.refs = client.refs /\ u.seen = client.seen
        /\ u.clocks = client.clocks /\ u.tracked = FALSE /\ u.last = client.last
        /\ u.hint = client.hint /\ u.working = client.working /\ u.unregistered = client.unregistered
        /\ u.executing = client.executing
    BY <1>2 DEF FollowClients
  <1>4. client' = IF calls[i].why = "start" THEN [c EXCEPT !.unregistered = TRUE, !.listening = TRUE] ELSE c
    BY DEF RegisterFails
  <1> HIDE DEF u
  <1>5. FollowShapeOK(u, LegsOf) /\ ls \subseteq Legs
    BY <1>2, <1>3 DEF FollowShapeOK, FollowSeenOK
  <1> HIDE DEF ls
  <1>6. /\ c \in FollowClients /\ c.refs \subseteq LegsOf /\ c.clocks \subseteq LegsOf
        /\ c.seen = [l \in Legs |-> IF l \in ls THEN Unseen[l] ELSE u.seen[l]]
        /\ c.tracked = FALSE /\ c.last = client.last /\ c.working = client.working
        /\ c.hint = client.hint /\ c.executing = client.executing
    BY <1>2, <1>3, <1>5, FollowReleases DEF FollowShapeOK
  <1> HIDE DEF c
  <1>7. FollowSeenOK(c.seen, LegsOf, chain)
    <2>1. \A l \in Legs : Unseen[l] \notin Spent /\ Unseen[l] # "invalid" /\ (l \notin LegsOf <=> Unseen[l] = "noleg")
      BY <1>2, FollowLegs DEF FollowBlank, Spent
    <2> QED
      BY <1>2, <1>3, <1>6, <2>1 DEF FollowSeenOK, Legs
  <1>8. FollowBaseOK(c, LegsOf, chain, mode)
    BY <1>2, <1>6, <1>7 DEF FollowBaseOK
  <1>9. CASE calls[i].why = "start"
    <2> DEFINE d == [c EXCEPT !.unregistered = TRUE, !.listening = TRUE]
    <2>1. client' = d /\ calls' = [calls EXCEPT ![i] = Call("start", "refresh", {}, FALSE)]
      BY <1>4, <1>9 DEF RegisterFails
    <2>2. /\ d \in FollowClients /\ d.refs = c.refs /\ d.seen = c.seen /\ d.clocks = c.clocks
          /\ d.tracked = FALSE /\ d.last = c.last /\ d.hint = c.hint /\ d.working = c.working
          /\ d.unregistered /\ d.executing = c.executing
      BY <1>6 DEF FollowClients
    <2> HIDE DEF d
    <2>3. FollowBaseOK(d, LegsOf, chain, mode) /\ FollowRestOK(d, LegsOf, mode)
      BY <1>8, <2>2 DEF FollowBaseOK, FollowRestOK
    <2>4. FollowCallsOK(calls', chain, mode, client.working) /\ FollowStartKept(calls, calls')
      BY <1>1, <1>9, <2>1, FollowGoes
    <2> QED
      BY <1>1, <1>6, <2>1, <2>2, <2>3, <2>4, FollowSame, FollowSteps
  <1>10. CASE calls[i].why # "start"
    <2>1. client' = c /\ Forget(i) /\ client.working
      BY <1>1, <1>4, <1>10, FollowOf DEF RegisterFails
    <2>2. FollowCallsOK(calls', chain, mode, client.working) /\ FollowStartKept(calls, calls')
      BY <1>10, <2>1, FollowStops
    <2>3. FollowRestOK(c, LegsOf, mode)
      BY <1>6, <2>1 DEF FollowRestOK
    <2> QED
      BY <1>1, <1>6, <1>8, <2>1, <2>2, <2>3, FollowSame, FollowSteps
  <1> QED
    BY <1>9, <1>10

\* A registration succeeds.
LEMMA FollowDoesRegister ==
  ASSUME FollowInv, NEW i \in DOMAIN calls, Registered(i)
  PROVE  FollowInv' /\ FollowRunOK(client, client')
  <1> DEFINE d == [client EXCEPT !.listening = TRUE]
  <1>1. /\ stored' = stored /\ UNCHANGED Env /\ FollowServerOK' /\ calls # <<>> /\ mode = "chain"
        /\ calls[i].why \in {"start", "track", "again"} /\ client' = d
        /\ calls' = [calls EXCEPT ![i] = Call(calls[i].why, "refresh", LegsOf, FALSE)]
    BY FollowServerStays, FollowOf DEF Registered, FollowPhaseOK
  <1>2. client \in FollowClients
    BY FollowHas
  <1>3. d \in FollowClients /\ d.refs = client.refs /\ d.seen = client.seen /\ d.clocks = client.clocks
        /\ d.tracked = client.tracked /\ d.last = client.last /\ d.hint = client.hint
        /\ d.working = client.working /\ d.executing = client.executing /\ d.unregistered = client.unregistered
    BY <1>2 DEF FollowClients
  <1> HIDE DEF d
  <1>4. FollowBaseOK(d, LegsOf, chain, mode) /\ FollowRestOK(d, LegsOf, mode)
    BY <1>3, FollowAside
  <1>5. FollowCallsOK(calls', chain, mode, client.working) /\ FollowStartKept(calls, calls')
    BY <1>1, FollowGoes
  <1> QED
    BY <1>1, <1>3, <1>4, <1>5, FollowSame, FollowSteps

\* What the worker hears at its start.
LEMMA FollowStartHears ==
  ASSUME FollowInv, mode = "chain", ~client.working, NEW c, c = RecomputeAll(client),
         c.last # NoOffer, c.last.offer.recommended = "claim"
  PROVE  time = 0 \/ relayed \/ (client.unregistered /\ ~client.tracked)
  <1>1. /\ FollowEnvOK /\ direction \in Directions /\ time \in 0..3 /\ client \in FollowClients
        /\ FollowBaseOK(client, LegsOf, chain, mode) /\ FollowRestOK(client, LegsOf, mode)
    BY FollowHas
  <1>2. FollowShapeOK(client, LegsOf) /\ client.seen \in [Legs -> FollowObserved]
    BY <1>1 DEF FollowShapeOK, FollowBaseOK, FollowSeenOK, FollowClients
  <1>3. CASE ~client.tracked
    <2>1. c = client
      BY <1>3 DEF RecomputeAll
    <2>2. client.last # NoOffer /\ client.last.offer.recommended = "claim"
      BY <2>1
    <2> QED
      BY <1>1, <1>3, <2>2 DEF FollowRestOK
  <1>4. CASE client.tracked
    <2> DEFINE s == FollowDerived(client)
               w == WithClaimHint(client, s)
    <2>1. c = IF ~Known(client) \/ s = "none" THEN client ELSE Emit(client, w, client.seen, FALSE)
      BY <1>4 DEF RecomputeAll, Recompute, RecomputeFromChain, FollowDerived
    <2>2. CASE ~Known(client)
      <3>1. client.last # NoOffer
        BY <2>1, <2>2
      <3> QED
        BY <1>1, <1>4, <2>2, <3>1 DEF FollowRestOK, Known
    <2>3. CASE Known(client) /\ s = "none"
      BY <1>1, <2>3, FollowReasons
    <2>4. CASE Known(client) /\ s # "none"
      <3>1. w \in SwapStatus /\ w # "none"
        BY <1>1, <2>4, FollowReasons
      <3>2. c = Emit(client, w, client.seen, FALSE)
        BY <2>1, <2>4
      <3> HIDE DEF w
      <3>3. FollowTold(client, FollowNew(w, client.seen), Emit(client, w, client.seen, FALSE), LegsOf, time)
        BY <1>1, <1>2, <3>1, FollowEmits
      <3>4. c.last = FollowNew(w, client.seen)
        BY <3>2, <3>3 DEF FollowTold
      <3>5. FollowNew(w, client.seen).offer.recommended = "claim" => time = 0
        BY <1>1, <3>1, FollowFresh
      <3> QED
        BY <3>4, <3>5
    <2> QED
      BY <2>2, <2>3, <2>4
  <1> QED
    BY <1>3, <1>4

\* A refresh ends.
LEMMA FollowDoesRefresh ==
  ASSUME FollowInv, NEW i \in DOMAIN calls, Refreshed(i)
  PROVE  FollowInv' /\ FollowRunOK(client, client')
  <1>1. /\ stored' = stored /\ UNCHANGED Env /\ FollowServerOK' /\ calls # <<>> /\ mode = "chain"
        /\ calls[i].why \in {"start", "track", "again", "hint", "tick"} /\ Forget(i) /\ UNCHANGED Server
        /\ calls[i].force \in BOOLEAN
    BY FollowServerStays, FollowOf DEF Refreshed, FollowPhaseOK
  <1>2. /\ FollowEnvOK /\ client \in FollowClients /\ FollowBaseOK(client, LegsOf, chain, mode)
        /\ FollowRestOK(client, LegsOf, mode)
    BY FollowHas
  <1> DEFINE a == RecomputeAll(client)
  <1>3. FollowMoved(client, a, LegsOf, chain, mode, time)
    BY <1>2, FollowRecomputesAll
  <1>4. CASE calls[i].why = "start"
    <2>1. client' = WorkerStarts(a) /\ ~client.working
      BY <1>4, FollowOf DEF Refreshed
    <2>2. a.last # NoOffer /\ a.last.offer.recommended = "claim" =>
              time = 0 \/ relayed \/ (client.unregistered /\ ~client.tracked)
      BY <1>1, <2>1, FollowStartHears
    <2> HIDE DEF a
    <2>3. FollowBaseOK(a, LegsOf, chain, mode) /\ (a.executing => client.executing \/ time = 0)
      BY <1>3 DEF FollowMoved
    <2>4. /\ FollowBaseOK(client', LegsOf, chain, mode) /\ client'.working
          /\ client'.executing => a.executing \/ (a.last # NoOffer /\ a.last.offer.recommended = "claim")
      BY <1>2, <2>1, <2>3, FollowWorkerStarts
    <2>5. client'.working = TRUE
      BY <2>4 DEF FollowBaseOK, FollowClients
    <2>6. FollowCallsOK(calls', chain, mode, TRUE)
      BY <1>1, <1>4, FollowEnds
    <2>7. FollowCallsOK(calls', chain, mode, client'.working)
      BY <2>5, <2>6
    <2>8. FollowRestOK(client', LegsOf, mode) /\ FollowPhase(client', calls', Stopped)
      BY <2>4 DEF FollowRestOK, FollowPhase
    <2>9. FollowRunOK(client, client')
      BY <2>2, <2>3, <2>4 DEF FollowRunOK
    <2> QED
      BY <1>1, <2>4, <2>7, <2>8, <2>9, FollowClientStep
  <1>5. CASE calls[i].why # "start"
    <2>1. FollowCallsOK(calls', chain, mode, client.working) /\ FollowStartKept(calls, calls')
      BY <1>1, <1>5, FollowStops
    <2>2. ASSUME FollowBaseOK(client', LegsOf, chain, mode), FollowRestOK(client', LegsOf, mode),
                 client'.working = client.working, client'.executing => client.executing \/ time = 0
          PROVE  FollowInv' /\ FollowRunOK(client, client')
      BY <1>1, <2>1, <2>2, FollowSame, FollowSteps
    <2>3. CASE calls[i].why \in {"track", "again"}
      <3>1. client.working
        BY <2>3, FollowOf
      <3> DEFINE c == Recompute(client, FALSE)
                 d == [c EXCEPT !.unregistered = FALSE]
                 e == [c EXCEPT !.subscribed = c.subscribed \/ c.tracked]
      <3>2. client' = client \/ client' = d \/ client' = e
        BY <2>3 DEF Refreshed
      <3>3. FollowMoved(client, c, LegsOf, chain, mode, time)
        BY <1>2, FollowRecomputes
      <3> HIDE DEF c
      <3>4. /\ FollowBaseOK(c, LegsOf, chain, mode) /\ c.working = client.working
            /\ c.executing => client.executing \/ time = 0
            /\ c \in FollowClients /\ c.subscribed \in BOOLEAN /\ c.tracked \in BOOLEAN
        BY <3>3 DEF FollowMoved, FollowBaseOK, FollowClients
      <3>5. /\ d \in FollowClients /\ d.refs = c.refs /\ d.seen = c.seen /\ d.clocks = c.clocks
            /\ d.last = c.last /\ d.hint = c.hint /\ d.working = c.working /\ d.executing = c.executing
        BY <3>4 DEF FollowClients
      <3>6. /\ e \in FollowClients /\ e.refs = c.refs /\ e.seen = c.seen /\ e.clocks = c.clocks
            /\ e.last = c.last /\ e.hint = c.hint /\ e.working = c.working /\ e.executing = c.executing
        BY <3>4 DEF FollowClients
      <3> HIDE DEF d, e
      <3>7. FollowBaseOK(d, LegsOf, chain, mode) /\ FollowBaseOK(e, LegsOf, chain, mode)
        BY <3>4, <3>5, <3>6 DEF FollowBaseOK
      <3>8. FollowBaseOK(client', LegsOf, chain, mode) /\ client'.working = client.working
            /\ (client'.executing => client.executing \/ time = 0)
        BY <1>2, <3>2, <3>4, <3>5, <3>6, <3>7
      <3>9. FollowRestOK(client', LegsOf, mode)
        BY <3>1, <3>8 DEF FollowRestOK
      <3> QED
        BY <2>2, <3>8, <3>9
    <2>4. CASE calls[i].why = "hint"
      <3> DEFINE c == Recompute(client, calls[i].force)
      <3>1. client' = c
        BY <2>4 DEF Refreshed
      <3>2. FollowMoved(client, c, LegsOf, chain, mode, time)
        BY <1>1, <1>2, FollowRecomputes
      <3> HIDE DEF c
      <3> QED
        BY <1>2, <2>2, <3>1, <3>2 DEF FollowMoved
    <2>5. CASE calls[i].why = "tick"
      <3>1. client' = a
        BY <2>5 DEF Refreshed
      <3> HIDE DEF a
      <3> QED
        BY <1>2, <1>3, <2>2, <3>1 DEF FollowMoved
    <2> QED
      BY <1>1, <1>5, <2>3, <2>4, <2>5
  <1> QED
    BY <1>4, <1>5


\* A pushed read ends.
LEMMA FollowDoesPushRead ==
  ASSUME FollowInv, NEW i \in DOMAIN calls, PushRead(i)
  PROVE  FollowInv' /\ FollowRunOK(client, client')
  <1>1. /\ client' = client /\ stored' = stored /\ UNCHANGED Env /\ FollowServerOK' /\ calls # <<>>
        /\ calls[i].why # "start" /\ Forget(i)
    BY FollowServerStays, FollowOf DEF PushRead, FollowPhaseOK
  <1>2. FollowCallsOK(calls', chain, mode, client.working) /\ FollowStartKept(calls, calls')
    BY <1>1, FollowStops
  <1> QED
    BY <1>1, <1>2, FollowSame, FollowSteps

\* The server's status is fetched.
LEMMA FollowDoesFetch ==
  ASSUME FollowInv, NEW i \in DOMAIN calls, FetchStatus(i)
  PROVE  FollowInv' /\ FollowRunOK(client, client')
  <1> DEFINE call == calls[i]
             new == [call EXCEPT !.status = served]
  <1>1. /\ client' = client /\ stored' = served /\ UNCHANGED Env /\ FollowServerOK' /\ calls # <<>>
        /\ calls' = [calls EXCEPT ![i] = new]
    BY FollowServerStays, FollowOf DEF FetchStatus
  <1>2. served \in SwapStatus \ {"none"}
    BY DEF FollowInv, FollowServerOK
  <1>3. call \in FollowCalls /\ FollowCallOK(call, chain, mode, client.working) /\ call.why = calls[i].why
    BY FollowOf
  <1> HIDE DEF call
  <1>4. new \in FollowCalls /\ new.got = call.got /\ new.why = call.why /\ new.phase = call.phase
    BY <1>2, <1>3 DEF FollowCalls
  <1> HIDE DEF new
  <1>5. FollowCallOK(new, chain, mode, client.working)
    BY <1>3, <1>4 DEF FollowCallOK
  <1>6. new.why = calls[i].why
    BY <1>3, <1>4
  <1>7. FollowCallsOK(calls', chain, mode, client.working)
        /\ \A k \in DOMAIN calls : k \in DOMAIN calls' /\ calls'[k].why = calls[k].why
    BY <1>1, <1>5, <1>6, FollowGoesOn
  <1>8. FollowStartKept(calls, calls') /\ stored' \in SwapStatus
    BY <1>1, <1>2, <1>7 DEF FollowStartKept
  <1> QED
    BY <1>1, <1>7, <1>8, FollowSame, FollowSteps

\* It is applied.
LEMMA FollowDoesApply ==
  ASSUME FollowInv, NEW i \in DOMAIN calls, Fetched(i)
  PROVE  FollowInv' /\ FollowRunOK(client, client')
  <1>1. /\ stored' = stored /\ UNCHANGED Env /\ FollowServerOK' /\ calls # <<>> /\ mode = "hints"
        /\ calls[i].why # "start" /\ Forget(i) /\ calls[i].force \in BOOLEAN
    BY FollowServerStays, FollowOf DEF Fetched, FollowPhaseOK
  <1> DEFINE s == calls[i].status
  <1>2. s \in SwapStatus
    <2>1. calls[i] \in FollowCalls /\ calls[i].status # "ask"
      BY FollowOf DEF Fetched
    <2> QED
      BY <2>1 DEF FollowCalls
  <1>3. FollowCallsOK(calls', chain, mode, client.working) /\ FollowStartKept(calls, calls')
    BY <1>1, FollowStops
  <1> DEFINE c == [client EXCEPT !.hint = s]
             d == Recompute(c, calls[i].force)
  <1>4. client' = IF client.tracked THEN d ELSE client
    BY DEF Fetched
  <1> HIDE DEF s
  <1>5. /\ FollowBaseOK(c, LegsOf, chain, mode) /\ FollowRestOK(c, LegsOf, mode)
        /\ c.working = client.working /\ c.executing = client.executing
    BY <1>1, <1>2, FollowHints
  <1> HIDE DEF c
  <1>6. FollowMoved(c, d, LegsOf, chain, mode, time)
    BY <1>1, <1>5, FollowHas, FollowRecomputes
  <1> HIDE DEF d
  <1>7. FollowBaseOK(d, LegsOf, chain, mode) /\ FollowRestOK(d, LegsOf, mode)
        /\ d.working = client.working /\ (d.executing => client.executing \/ time = 0)
    BY <1>5, <1>6 DEF FollowMoved
  <1>8. FollowBaseOK(client', LegsOf, chain, mode) /\ FollowRestOK(client', LegsOf, mode)
        /\ client'.working = client.working /\ (client'.executing => client.executing \/ time = 0)
    BY <1>4, <1>7, FollowSame
  <1> QED
    BY <1>1, <1>3, <1>8, FollowSame, FollowSteps

\* A change of what the worker alone keeps.
FollowKept(c, d) ==
    /\ d \in FollowClients
    /\ d.refs = c.refs /\ d.seen = c.seen /\ d.clocks = c.clocks /\ d.tracked = c.tracked
    /\ d.last = c.last /\ d.hint = c.hint /\ d.working = c.working
    /\ d.unregistered = c.unregistered /\ (d.executing => c.executing)

\* A retry scheduled or given up is such a change.
LEMMA FollowSchedules ==
  ASSUME NEW c \in FollowClients
  PROVE  /\ FollowKept(c, ScheduleRetry(c)) /\ FollowKept(c, CancelRetry(c))
         /\ FollowKept(c, SurfaceTo(CancelRetry(c), "claim"))
  <1> DEFINE a == CancelRetry(c)
             b == SurfaceTo(a, "claim")
  <1>1. 0 \in 0..MaxAttempts /\ MaxAttempts \in Nat
    BY FollowAssumption
  <1>2. FollowKept(c, a)
    BY <1>1 DEF CancelRetry, FollowKept, FollowClients
  <1> HIDE DEF a
  <1>3. FollowKept(c, b)
    <2>1. b = [a EXCEPT !.surfaced = "claim"] /\ a \in FollowClients
      BY <1>2 DEF SurfaceTo, FollowKept
    <2> HIDE DEF b
    <2>2. b \in FollowClients /\ b.refs = a.refs /\ b.seen = a.seen /\ b.clocks = a.clocks
          /\ b.tracked = a.tracked /\ b.last = a.last /\ b.hint = a.hint /\ b.working = a.working
          /\ b.unregistered = a.unregistered /\ b.executing = a.executing
      BY <2>1 DEF FollowClients, FollowAnswers
    <2> QED
      BY <1>2, <2>2 DEF FollowKept
  <1>4. FollowKept(c, ScheduleRetry(c))
    <2>1. CASE c.attempts = MaxAttempts
      BY <1>3, <2>1 DEF ScheduleRetry, a
    <2>2. CASE c.attempts # MaxAttempts
      <3> DEFINE d == [c EXCEPT !.attempts = c.attempts + 1, !.timer = TRUE]
      <3>1. ScheduleRetry(c) = d
        BY <2>2 DEF ScheduleRetry
      <3>2. c.attempts + 1 \in 0..MaxAttempts
        BY <1>1, <2>2 DEF FollowClients
      <3>3. FollowKept(c, d)
        BY <3>2 DEF FollowKept, FollowClients
      <3> QED
        BY <3>1, <3>3
    <2> QED
      BY <2>1, <2>2
  <1> QED
    BY <1>2, <1>3, <1>4 DEF a

\* A step that changes no more of the client.
LEMMA FollowKeepsOn ==
  ASSUME FollowInv, UNCHANGED <<Env, Server, stored>>, FollowKept(client, client'),
         client # Stopped \/ calls # <<>>,
         FollowCallsOK(calls', chain, mode, client.working), FollowStartKept(calls, calls')
  PROVE  FollowInv' /\ FollowRunOK(client, client')
  <1>1. FollowServerOK' /\ UNCHANGED Env /\ stored' \in SwapStatus
    BY FollowServerStays, FollowSame
  <1> DEFINE d == client'
  <1>2. /\ d \in FollowClients /\ d.refs = client.refs /\ d.seen = client.seen /\ d.clocks = client.clocks
        /\ d.tracked = client.tracked /\ d.last = client.last /\ d.hint = client.hint
        /\ d.working = client.working /\ d.unregistered = client.unregistered
        /\ d.executing => client.executing
    BY DEF FollowKept
  <1>3. d = client'
    OBVIOUS
  <1> HIDE DEF d
  <1>4. FollowBaseOK(d, LegsOf, chain, mode) /\ FollowRestOK(d, LegsOf, mode)
    BY <1>2, FollowAside
  <1> QED
    BY <1>1, <1>2, <1>3, <1>4, FollowSteps

\* A fetch fails.
LEMMA FollowDoesFetchFail ==
  ASSUME FollowInv, NEW i \in DOMAIN calls, FetchFails(i)
  PROVE  FollowInv' /\ FollowRunOK(client, client')
  <1>1. /\ UNCHANGED <<Env, Server, stored>> /\ calls # <<>> /\ calls[i].why # "start" /\ Forget(i)
        /\ (client' = client \/ client' = ScheduleRetry(client))
    BY FollowOf DEF FetchFails, FollowPhaseOK
  <1>2. FollowCallsOK(calls', chain, mode, client.working) /\ FollowStartKept(calls, calls')
    BY <1>1, FollowStops
  <1>3. client \in FollowClients
    BY FollowHas
  <1>4. FollowKept(client, client) /\ FollowKept(client, ScheduleRetry(client))
    BY <1>3, FollowSchedules DEF FollowKept
  <1>5. FollowKept(client, client')
    BY <1>1, <1>4
  <1> QED
    BY <1>1, <1>2, <1>5, FollowKeepsOn

\* A claim run ends.
LEMMA FollowDoesEnd ==
  ASSUME FollowInv, RunSucceeds \/ RunFails \/ RunNeedsWallet
  PROVE  FollowInv' /\ FollowRunOK(client, client')
  <1>1. client.executing /\ UNCHANGED <<Env, Server, stored>> /\ calls' = calls
    BY DEF RunSucceeds, RunFails, RunNeedsWallet
  <1>2. client # Stopped
    BY <1>1, FollowHas, FollowStopped
  <1>3. client \in FollowClients
    BY FollowHas
  <1> DEFINE a == CancelRetry(client)
             b == ScheduleRetry(client)
             s == SurfaceTo(CancelRetry(client), "claim")
  <1>4. FollowKept(client, a) /\ FollowKept(client, b) /\ FollowKept(client, s)
    BY <1>3, FollowSchedules
  <1>5. \/ client' = [a EXCEPT !.executing = FALSE]
        \/ client' = [b EXCEPT !.executing = FALSE]
        \/ client' = [s EXCEPT !.needsUser = TRUE, !.executing = FALSE]
    BY DEF RunSucceeds, RunFails, RunNeedsWallet
  <1> HIDE DEF a, b, s
  <1>6. FollowKept(client, [a EXCEPT !.executing = FALSE])
    BY <1>4 DEF FollowKept, FollowClients
  <1>7. FollowKept(client, [b EXCEPT !.executing = FALSE])
    BY <1>4 DEF FollowKept, FollowClients
  <1>8. FollowKept(client, [s EXCEPT !.needsUser = TRUE, !.executing = FALSE])
    BY <1>4 DEF FollowKept, FollowClients
  <1>9. FollowKept(client, client')
    BY <1>5, <1>6, <1>7, <1>8
  <1> QED
    BY <1>1, <1>2, <1>9, FollowSame, FollowKeepsOn


\* A step of the chains or of the time alone.
LEMMA FollowChainStep ==
  ASSUME FollowInv, UNCHANGED <<direction, mode, stored, client, served, inFlight, feed, calls>>,
         relayed' \in BOOLEAN, time' \in 0..3, relayed => relayed', FollowChainOK(chain', LegsOf, relayed'),
         \A l \in Legs : chain[l] \in Spent => chain'[l] = chain[l]
  PROVE  FollowInv' /\ FollowRunOK(client, client')
  <1>1. /\ FollowCallsOK(calls', chain, mode, client.working) /\ FollowPhase(client, calls', Stopped)
        /\ served' \in SwapStatus \ {"none"} /\ FollowTruth(served', chain)
        /\ inFlight' \in Seq(SwapStatus \ {"none"}) /\ Len(inFlight') <= MaxWire /\ feed' \in BOOLEAN
        /\ \A k \in DOMAIN inFlight' : FollowTruth(inFlight'[k], chain)
        /\ UNCHANGED <<direction, mode, stored, client>>
    BY DEF FollowInv, FollowServerOK
  <1>2. relayed' \in BOOLEAN /\ time' \in 0..3 /\ (relayed => relayed') /\ FollowChainOK(chain', LegsOf, relayed')
        /\ \A l \in Legs : chain[l] \in Spent => chain'[l] = chain[l]
    OBVIOUS
  <1> QED
    BY <1>1, <1>2, FollowWorldStep

\* A contract of the chain goes on.
LEMMA FollowMovesLeg ==
  ASSUME FollowInv, NEW leg \in LegsOf, NEW as \in HtlcObservation, chain[leg] \notin Spent,
         leg = "server" => as # "invalid", as = "spent_claim" /\ leg = "server" => relayed,
         as = "spent_claim" /\ leg = "client" => chain["server"] \in {"noleg", "spent_claim"},
         leg = "server" => chain["client"] # "spent_claim" \/ as = "spent_claim"
  PROVE  /\ FollowChainOK([chain EXCEPT ![leg] = as], LegsOf, relayed)
         /\ \A l \in Legs : chain[l] \in Spent => [chain EXCEPT ![leg] = as][l] = chain[l]
  <1>1. FollowChainOK(chain, LegsOf, relayed) /\ LegsOf \subseteq Legs /\ leg \in Legs
        /\ chain \in [Legs -> HtlcObservation \cup {"noleg"}]
    BY FollowHas
  <1> DEFINE ch == [chain EXCEPT ![leg] = as]
  <1>2. ch \in [Legs -> HtlcObservation \cup {"noleg"}] /\ \A l \in Legs : ch[l] = IF l = leg THEN as ELSE chain[l]
    BY <1>1
  <1> HIDE DEF ch
  <1>3. \A l \in Legs : l \notin LegsOf <=> ch[l] = "noleg"
    BY <1>1, <1>2 DEF FollowChainOK, HtlcObservation
  <1>4. ch["server"] # "invalid" /\ (ch["server"] = "spent_claim" => relayed)
    BY <1>1, <1>2 DEF FollowChainOK, Legs
  <1>5. ch["client"] = "spent_claim" => ch["server"] \in {"noleg", "spent_claim"}
    BY <1>1, <1>2 DEF FollowChainOK, Legs
  <1>6. \A l \in Legs : chain[l] \in Spent => ch[l] = chain[l]
    BY <1>2
  <1> QED
    BY <1>2, <1>3, <1>4, <1>5, <1>6 DEF FollowChainOK, ch

\* A leg that stands in a state of a contract is one of the swap's.
LEMMA FollowLegStands ==
  ASSUME FollowInv, NEW leg \in Legs, chain[leg] # "noleg"
  PROVE  leg \in LegsOf
  BY FollowHas DEF FollowChainOK

\* The steps of the chains.
LEMMA FollowDoesChain ==
  ASSUME FollowInv, ServerFunds \/ ServerRefunds \/ ClaimLands \/ ServerSweeps \/ UserRefunds \/ TimePasses \/ RunSends
  PROVE  FollowInv' /\ FollowRunOK(client, client')
  <1>1. UNCHANGED <<direction, mode, stored, client, served, inFlight, feed, calls>>
    BY DEF ServerFunds, ServerRefunds, ClaimLands, ServerSweeps, UserRefunds, TimePasses, RunSends,
           Server, Client, Env1
  <1>2. relayed \in BOOLEAN /\ time \in 0..3 /\ FollowChainOK(chain, LegsOf, relayed)
    BY FollowHas DEF FollowEnvOK
  <1>3. CASE TimePasses
    <2>1. time' = time + 1 /\ time < 3 /\ relayed' = relayed /\ chain' = chain
      BY <1>3 DEF TimePasses
    <2>2. time' \in 0..3
      BY <1>2, <2>1
    <2> QED
      BY <1>1, <1>2, <2>1, <2>2, FollowChainStep
  <1>4. CASE RunSends
    <2>1. time' = time /\ relayed' = TRUE /\ chain' = chain
      BY <1>4 DEF RunSends, Env1
    <2>2. FollowChainOK(chain, LegsOf, TRUE)
      BY <1>2 DEF FollowChainOK
    <2> QED
      BY <1>1, <1>2, <2>1, <2>2, FollowChainStep
  <1>5. ASSUME NEW leg \in Legs, NEW as \in HtlcObservation, chain' = [chain EXCEPT ![leg] = as],
               relayed' = relayed, time' = time, chain[leg] \notin Spent, chain[leg] # "noleg",
               leg = "server" => as # "invalid", as = "spent_claim" /\ leg = "server" => relayed,
               as = "spent_claim" /\ leg = "client" => chain["server"] \in {"noleg", "spent_claim"},
               leg = "server" => chain["client"] # "spent_claim" \/ as = "spent_claim"
        PROVE  FollowInv' /\ FollowRunOK(client, client')
    <2>1. leg \in LegsOf
      BY <1>5, FollowLegStands
    <2>2. /\ FollowChainOK(chain', LegsOf, relayed)
          /\ \A l \in Legs : chain[l] \in Spent => chain'[l] = chain[l]
      BY <1>5, <2>1, FollowMovesLeg
    <2> QED
      BY <1>1, <1>2, <1>5, <2>2, FollowChainStep
  <1>6. CASE ServerFunds \/ ServerRefunds
    <2>1. PICK as \in {"confirmed", "spent_refund"} :
              chain' = [chain EXCEPT !["server"] = as] /\ chain["server"] \in {"absent", "confirmed"}
              /\ relayed' = relayed /\ time' = time
      BY <1>6 DEF ServerFunds, ServerRefunds
    <2>2. chain["client"] # "spent_claim"
      BY <1>2, <2>1 DEF FollowChainOK
    <2>3. "server" \in Legs /\ as \in HtlcObservation /\ as # "invalid" /\ as # "spent_claim"
          /\ chain["server"] \notin Spent /\ chain["server"] # "noleg"
      BY <2>1 DEF Legs, HtlcObservation, Spent
    <2> QED
      BY <1>5, <2>1, <2>2, <2>3
  <1>7. CASE ClaimLands
    <2>1. chain' = [chain EXCEPT !["server"] = "spent_claim"] /\ chain["server"] = "confirmed" /\ relayed
          /\ relayed' = relayed /\ time' = time
      BY <1>7 DEF ClaimLands
    <2>2. "server" \in Legs /\ "spent_claim" \in HtlcObservation
          /\ chain["server"] \notin Spent /\ chain["server"] # "noleg"
      BY <2>1 DEF Legs, HtlcObservation, Spent
    <2> QED
      BY <1>5, <2>1, <2>2
  <1>8. CASE ServerSweeps
    <2>1. chain' = [chain EXCEPT !["client"] = "spent_claim"] /\ chain["client"] = "confirmed"
          /\ chain["server"] \in {"noleg", "spent_claim"} /\ relayed' = relayed /\ time' = time
      BY <1>8 DEF ServerSweeps
    <2>2. "client" \in Legs /\ "spent_claim" \in HtlcObservation
          /\ chain["client"] \notin Spent /\ chain["client"] # "noleg"
      BY <2>1 DEF Legs, HtlcObservation, Spent
    <2> QED
      BY <1>5, <2>1, <2>2
  <1>9. CASE UserRefunds
    <2>1. chain' = [chain EXCEPT !["client"] = "spent_refund"] /\ chain["client"] \in {"confirmed", "invalid"}
          /\ relayed' = relayed /\ time' = time
      BY <1>9 DEF UserRefunds
    <2>2. "client" \in Legs /\ "spent_refund" \in HtlcObservation
          /\ chain["client"] \notin Spent /\ chain["client"] # "noleg"
      BY <2>1 DEF Legs, HtlcObservation, Spent
    <2> QED
      BY <1>5, <2>1, <2>2
  <1> QED
    BY <1>3, <1>4, <1>6, <1>7, <1>8, <1>9

\* The user funds, and the client may look again.
LEMMA FollowDoesFund ==
  ASSUME FollowInv, UserFunds
  PROVE  FollowInv' /\ FollowRunOK(client, client')
  <1>1. PICK as \in {"mempool", "confirmed", "invalid"} : chain' = [chain EXCEPT !["client"] = as]
    BY DEF UserFunds
  <1>2. /\ UNCHANGED <<direction, mode, stored, client, relayed, time, served, inFlight, feed>>
        /\ "client" \in LegsOf /\ chain["client"] = "absent"
        /\ calls' = calls \/ (client.tracked /\ Start(Reading(FALSE)))
    BY DEF UserFunds, Server, Reverify
  <1>3. relayed \in BOOLEAN /\ time \in 0..3
    BY FollowHas DEF FollowEnvOK
  <1>4. as \in HtlcObservation /\ as # "spent_claim" /\ chain["client"] \notin Spent
    BY <1>2 DEF HtlcObservation, Spent
  <1>5. /\ FollowChainOK(chain', LegsOf, relayed)
        /\ \A l \in Legs : chain[l] \in Spent => chain'[l] = chain[l]
    BY <1>1, <1>2, <1>4, FollowMovesLeg
  <1>6. FollowCallsOK(calls', chain, mode, client.working) /\ FollowPhase(client, calls', Stopped)
    <2>1. CASE calls' = calls
      BY <2>1, FollowSame DEF FollowInv
    <2>2. CASE client.tracked /\ Start(Reading(FALSE))
      <3>1. FollowCallOK(Reading(FALSE), chain, mode, client.working) /\ Reading(FALSE).why = "hint"
        BY FollowReading
      <3>2. FollowCallsOK(calls', chain, mode, client.working) /\ FollowStartKept(calls, calls')
        BY <2>2, <3>1, FollowBegins
      <3>3. client # Stopped
        BY <2>2, FollowSame
      <3> QED
        BY <3>2, <3>3 DEF FollowInv, FollowPhase, FollowStartKept
    <2> QED
      BY <1>2, <2>1, <2>2
  <1>7. /\ served' \in SwapStatus \ {"none"} /\ FollowTruth(served', chain)
        /\ inFlight' \in Seq(SwapStatus \ {"none"}) /\ Len(inFlight') <= MaxWire /\ feed' \in BOOLEAN
        /\ \A k \in DOMAIN inFlight' : FollowTruth(inFlight'[k], chain)
    BY <1>2 DEF FollowInv, FollowServerOK
  <1>8. relayed' \in BOOLEAN /\ time' \in 0..3 /\ (relayed => relayed') /\ FollowChainOK(chain', LegsOf, relayed')
        /\ UNCHANGED <<direction, mode, stored, client>>
    BY <1>2, <1>3, <1>5
  <1> QED
    BY <1>5, <1>6, <1>7, <1>8, FollowWorldStep

\* What the server says of the chain is true of it.
LEMMA FollowServerSays ==
  ASSUME FollowInv, ServerStatus # "none"
  PROVE  ServerStatus \in SwapStatus \ {"none"} /\ FollowTruth(ServerStatus, chain)
  <1> DEFINE a == chain["client"]
             b == chain["server"]
             s == DeriveSwapStatus(a, b)
  <1>1. FollowChainOK(chain, LegsOf, relayed) /\ LegsOf # {} /\ LegsOf \subseteq Legs
        /\ chain \in [Legs -> HtlcObservation \cup {"noleg"}]
    BY FollowHas
  <1>2. a \in HtlcObservation \cup {"noleg"} /\ b \in HtlcObservation \cup {"noleg"}
        /\ (a # "noleg" \/ b # "noleg") /\ b # "invalid"
    BY <1>1 DEF FollowChainOK, Legs
  <1>3. ServerStatus = IF s = "pending" /\ time >= 2 THEN "expired"
                       ELSE IF s = "serverfunded" /\ relayed THEN "clientredeeming" ELSE s
    BY DEF ServerStatus
  <1>4. /\ s \in SwapStatus
        /\ s \in {"clientredeemed", "serverredeemed", "clientredeemedandclientrefunded"} =>
                a = "spent_claim" \/ b = "spent_claim"
    BY <1>2, FollowStatusOf
  <1>5. FollowTruth(s, chain)
    BY <1>4 DEF FollowTruth
  <1> HIDE DEF s
  <1>6. "expired" \in SwapStatus /\ "clientredeeming" \in SwapStatus
        /\ FollowTruth("expired", chain) /\ FollowTruth("clientredeeming", chain)
    BY DEF SwapStatus, FollowTruth
  <1> QED
    BY <1>3, <1>4, <1>5, <1>6

\* The server sees the chain, and its feed breaks and returns.
LEMMA FollowDoesServe ==
  ASSUME FollowInv, ServerSees \/ FeedDrops \/ FeedReturns
  PROVE  FollowInv' /\ FollowRunOK(client, client')
  <1>1. /\ UNCHANGED <<direction, mode, stored, client, relayed, time, chain>>
        /\ relayed \in BOOLEAN /\ time \in 0..3 /\ FollowChainOK(chain, LegsOf, relayed)
    BY FollowHas DEF ServerSees, FeedDrops, FeedReturns, Env, Client, FollowEnvOK
  <1>2. /\ served \in SwapStatus \ {"none"} /\ FollowTruth(served, chain)
        /\ inFlight \in Seq(SwapStatus \ {"none"}) /\ Len(inFlight) <= MaxWire /\ feed \in BOOLEAN
        /\ \A k \in DOMAIN inFlight : FollowTruth(inFlight[k], chain)
        /\ MaxWire \in Nat
    BY FollowAssumption DEF FollowInv, FollowServerOK
  <1>3. FollowCallsOK(calls, chain, mode, client.working) /\ FollowPhase(client, calls, Stopped)
    BY DEF FollowInv
  <1>4. ASSUME served' \in SwapStatus \ {"none"}, FollowTruth(served', chain),
               inFlight' \in Seq(SwapStatus \ {"none"}), Len(inFlight') <= MaxWire, feed' \in BOOLEAN,
               \A k \in DOMAIN inFlight' : FollowTruth(inFlight'[k], chain),
               FollowCallsOK(calls', chain, mode, client.working), FollowPhase(client, calls', Stopped)
        PROVE  FollowInv' /\ FollowRunOK(client, client')
    <2>1. relayed' \in BOOLEAN /\ time' \in 0..3 /\ (relayed => relayed') /\ FollowChainOK(chain', LegsOf, relayed')
          /\ \A l \in Legs : chain[l] \in Spent => chain'[l] = chain[l]
      BY <1>1
    <2>2. UNCHANGED <<direction, mode, stored, client>>
      BY <1>1
    <2> QED
      BY <1>4, <2>1, <2>2, FollowWorldStep
  <1>5. CASE ServerSees
    <2> DEFINE new == ServerStatus
    <2>1. new \in SwapStatus \ {"none"} /\ FollowTruth(new, chain)
      BY <1>5, FollowServerSays DEF ServerSees
    <2>2. /\ served' = new /\ feed' = feed /\ calls' = calls
          /\ \/ inFlight' = inFlight
             \/ Len(inFlight) < MaxWire /\ inFlight' = Append(inFlight, new)
      BY <1>5 DEF ServerSees, Client
    <2> HIDE DEF new
    <2>3. CASE inFlight' = inFlight
      BY <1>2, <1>3, <1>4, <2>1, <2>2, <2>3
    <2>4. CASE Len(inFlight) < MaxWire /\ inFlight' = Append(inFlight, new)
      <3>1. /\ inFlight' \in Seq(SwapStatus \ {"none"}) /\ Len(inFlight') = Len(inFlight) + 1
            /\ Len(inFlight) \in Nat /\ DOMAIN inFlight = 1..Len(inFlight)
            /\ DOMAIN inFlight' = 1..(Len(inFlight) + 1)
            /\ \A k \in 1..Len(inFlight) : inFlight'[k] = inFlight[k]
            /\ inFlight'[Len(inFlight) + 1] = new
        BY <1>2, <2>1, <2>4, AppendProperties, LenProperties
      <3>2. \A k \in DOMAIN inFlight' : FollowTruth(inFlight'[k], chain)
        BY <1>2, <2>1, <3>1
      <3>3. Len(inFlight') <= MaxWire
        BY <1>2, <2>4, <3>1
      <3> QED
        BY <1>2, <1>3, <1>4, <2>1, <2>2, <3>1, <3>2, <3>3
    <2> QED
      BY <2>2, <2>3, <2>4
  <1>6. <<>> \in Seq(SwapStatus \ {"none"}) /\ Len(<<>>) = 0 /\ DOMAIN <<>> = {}
    BY EmptySeq
  <1>7. CASE FeedDrops
    <2>1. feed' = FALSE /\ inFlight' = <<>> /\ served' = served /\ calls' = calls
      BY <1>7 DEF FeedDrops, Client
    <2>2. served' \in SwapStatus \ {"none"} /\ FollowTruth(served', chain) /\ feed' \in BOOLEAN
      BY <1>2, <2>1
    <2>3. /\ inFlight' \in Seq(SwapStatus \ {"none"}) /\ Len(inFlight') <= MaxWire
          /\ \A k \in DOMAIN inFlight' : FollowTruth(inFlight'[k], chain)
      BY <1>2, <1>6, <2>1
    <2>4. FollowCallsOK(calls', chain, mode, client.working) /\ FollowPhase(client, calls', Stopped)
      BY <1>3, <2>1
    <2> QED
      BY <1>4, <2>2, <2>3, <2>4
  <1>8. CASE FeedReturns
    <2>1. /\ feed' = TRUE /\ served' = served /\ client.working
          /\ inFlight' = <<>> \/ (MaxWire > 0 /\ inFlight' = <<served>>)
          /\ calls' = calls \/ Start(Reading(FALSE))
      BY <1>8 DEF FeedReturns, Reverify
    <2>2. FollowCallsOK(calls', chain, mode, client.working)
      <3>1. FollowCallOK(Reading(FALSE), chain, mode, client.working) /\ Reading(FALSE).why = "hint"
        BY FollowReading
      <3> QED
        BY <1>3, <2>1, <3>1, FollowBegins
    <2>3. FollowPhase(client, calls', Stopped)
      BY <2>1 DEF FollowPhase
    <2>4. /\ inFlight' \in Seq(SwapStatus \ {"none"}) /\ Len(inFlight') <= MaxWire
          /\ \A k \in DOMAIN inFlight' : FollowTruth(inFlight'[k], chain)
      <3>1. CASE inFlight' = <<>>
        BY <1>2, <1>6, <3>1
      <3>2. CASE MaxWire > 0 /\ inFlight' = <<served>>
        <4>1. <<served>> \in Seq(SwapStatus \ {"none"}) /\ Len(<<served>>) = 1 /\ DOMAIN <<served>> = 1..1
              /\ <<served>>[1] = served
          BY <1>2
        <4>2. Len(inFlight') <= MaxWire
          BY <1>2, <3>2, <4>1
        <4> QED
          BY <1>2, <3>2, <4>1, <4>2
      <3> QED
        BY <2>1, <3>1, <3>2
    <2> QED
      BY <1>2, <1>4, <2>1, <2>2, <2>3, <2>4
  <1> QED
    BY <1>5, <1>7, <1>8

\* A reload forgets all but what is stored.
LEMMA FollowDoesReload ==
  ASSUME FollowInv, Reload
  PROVE  FollowInv' /\ FollowRunOK(client, client')
  <1>1. client' = Stopped /\ calls' = <<>> /\ inFlight' = <<>> /\ UNCHANGED <<Env, served, feed, stored>>
    BY DEF Reload
  <1>2. LegsOf' = LegsOf /\ Stopped' = Stopped /\ mode' = mode /\ chain' = chain /\ time' = time
        /\ relayed' = relayed /\ direction' = direction
    BY <1>1 DEF Env, LegsOf, Ledger, Stopped, Unseen
  <1>3. FollowEnvOK /\ direction \in Directions /\ FollowServerOK /\ stored \in SwapStatus /\ MaxWire \in Nat
        /\ MaxReads \in Nat
    BY FollowHas, FollowAssumption DEF FollowInv
  <1>4. FollowBaseOK(Stopped, LegsOf, chain, mode) /\ FollowRestOK(Stopped, LegsOf, mode)
        /\ ~Stopped.executing
    BY <1>3, FollowStopped, FollowStoppedOK
  <1>5. <<>> \in Seq(SwapStatus \ {"none"}) /\ Len(<<>>) = 0 /\ DOMAIN <<>> = {} /\ <<>> \in Seq(FollowCalls)
    BY EmptySeq
  <1>6. FollowServerOK'
    BY <1>1, <1>2, <1>3, <1>5 DEF FollowServerOK
  <1>7. FollowEnvOK'
    BY <1>2, <1>3 DEF FollowEnvOK
  <1> DEFINE w == Stopped.working
  <1>8. FollowCallsOK(<<>>, chain, mode, w)
    BY <1>3, <1>5 DEF FollowCallsOK
  <1>9. FollowPhase(Stopped, <<>>, Stopped)
    BY DEF FollowPhase
  <1> QED
    BY <1>1, <1>2, <1>3, <1>4, <1>6, <1>7, <1>8, <1>9 DEF FollowInv, FollowRunOK

-----------------------------------------------------------------------------
\* The first state.
LEMMA FollowBegin == FollowInit => FollowInv
  <1> SUFFICES ASSUME FollowInit PROVE FollowInv
    OBVIOUS
  <1>1. /\ direction \in Directions /\ mode \in Modes
        /\ chain = [leg \in Legs |-> IF leg \in LegsOf THEN "absent" ELSE "noleg"]
        /\ relayed = FALSE /\ time = 0 /\ served = "pending" /\ inFlight = <<>> /\ feed = TRUE
        /\ stored = "none" /\ client = Stopped /\ calls = <<>>
        /\ MaxWire \in Nat /\ MaxReads \in Nat
    BY FollowAssumption DEF FollowInit
  <1>2. LegsOf \subseteq Legs
    BY <1>1, FollowLegs
  <1>3. FollowChainOK(chain, LegsOf, relayed)
    BY <1>1, <1>2 DEF FollowChainOK, Legs, HtlcObservation
  <1>9. direction \in Directions /\ mode \in Modes /\ relayed \in BOOLEAN /\ time \in 0..3
    <2>1. relayed = FALSE
      BY <1>1
    <2>2. relayed \in BOOLEAN
      BY <2>1
    <2>3. time = 0
      BY <1>1
    <2>4. time \in 0..3
      BY <2>3
    <2> QED
      BY <1>1, <2>2, <2>4
  <1>4. FollowEnvOK
    BY <1>3, <1>9 DEF FollowEnvOK
  <1>5. FollowBaseOK(Stopped, LegsOf, chain, mode) /\ FollowRestOK(Stopped, LegsOf, mode)
    BY <1>4, FollowStoppedOK
  <1>6. <<>> \in Seq(SwapStatus \ {"none"}) /\ Len(<<>>) = 0 /\ DOMAIN <<>> = {} /\ <<>> \in Seq(FollowCalls)
    BY EmptySeq
  <1>7. FollowServerOK /\ stored \in SwapStatus
    BY <1>1, <1>6 DEF FollowServerOK, FollowTruth, SwapStatus, ClientOnly
  <1> DEFINE w == Stopped.working
  <1>8. FollowCallsOK(<<>>, chain, mode, w) /\ FollowPhase(Stopped, <<>>, Stopped)
    BY <1>1, <1>6 DEF FollowCallsOK, FollowPhase
  <1> QED
    BY <1>1, <1>4, <1>5, <1>7, <1>8 DEF FollowInv

\* Every step keeps the invariant, and starts a run only in the claim's window.
LEMMA FollowStepKeeps == FollowInv /\ [FollowNext]_followVars => FollowInv' /\ FollowRunOK(client, client')
  <1> SUFFICES ASSUME FollowInv, [FollowNext]_followVars PROVE FollowInv' /\ FollowRunOK(client, client')
    OBVIOUS
  <1>1. CASE StartTracking
    BY <1>1, FollowDoesStart
  <1>2. CASE TrackAfterCreate
    BY <1>2, FollowDoesTrack
  <1>3. CASE RetryUnregistered
    BY <1>3, FollowDoesRetryUnregistered
  <1>4. CASE LocalTick
    BY <1>4, FollowDoesTick
  <1>5. CASE RiskTick \/ PushReconcile
    BY <1>5, FollowDoesRead
  <1>6. CASE HearStatus
    BY <1>6, FollowDoesHear
  <1>7. CASE RetryFires
    BY <1>7, FollowDoesRetry
  <1>8. CASE SyncSettledStatus
    BY <1>8, FollowDoesSync
  <1>9. CASE \E i \in DOMAIN calls : CallSteps(i)
    <2>1. PICK i \in DOMAIN calls : CallSteps(i)
      BY <1>9
    <2>2. CASE \E leg \in Legs : Sample(i, leg) \/ SampleFails(i, leg) \/ Land(i, leg)
      BY <2>2, FollowDoesSample, FollowDoesLand
    <2>3. CASE RegisterFails(i)
      BY <2>3, FollowDoesRegisterFail
    <2>4. CASE Registered(i)
      BY <2>4, FollowDoesRegister
    <2>5. CASE Refreshed(i)
      BY <2>5, FollowDoesRefresh
    <2>6. CASE PushRead(i)
      BY <2>6, FollowDoesPushRead
    <2>7. CASE FetchStatus(i)
      BY <2>7, FollowDoesFetch
    <2>8. CASE Fetched(i)
      BY <2>8, FollowDoesApply
    <2>9. CASE FetchFails(i)
      BY <2>9, FollowDoesFetchFail
    <2> QED
      BY <2>1, <2>2, <2>3, <2>4, <2>5, <2>6, <2>7, <2>8, <2>9 DEF CallSteps
  <1>10. CASE RunSucceeds \/ RunFails \/ RunNeedsWallet
    BY <1>10, FollowDoesEnd
  <1>11. CASE ServerFunds \/ ServerRefunds \/ ClaimLands \/ ServerSweeps \/ UserRefunds \/ TimePasses \/ RunSends
    BY <1>11, FollowDoesChain
  <1>12. CASE UserFunds
    BY <1>12, FollowDoesFund
  <1>13. CASE ServerSees \/ FeedDrops \/ FeedReturns
    BY <1>13, FollowDoesServe
  <1>14. CASE Reload
    BY <1>14, FollowDoesReload
  <1>15. CASE UNCHANGED followVars
    <2>1. /\ UNCHANGED <<direction, mode, stored, client, served, inFlight, feed, calls, relayed, time, chain>>
      BY <1>15 DEF followVars
    <2>2. relayed \in BOOLEAN /\ time \in 0..3 /\ FollowChainOK(chain, LegsOf, relayed)
      BY FollowHas DEF FollowEnvOK
    <2> QED
      BY <2>1, <2>2, FollowChainStep
  <1> QED
    BY <1>1, <1>2, <1>3, <1>4, <1>5, <1>6, <1>7, <1>8, <1>9, <1>10, <1>11, <1>12, <1>13, <1>14, <1>15
       DEF FollowNext

\* Every variable of the client, the chains and the server keeps its type, and no more calls
\* and pushed statuses are in flight than the bounds allow.
THEOREM FollowTypes == FollowSpec => []FollowTypeOK
  <1>1. FollowInv => FollowTypeOK
    <2> SUFFICES ASSUME FollowInv PROVE FollowTypeOK
      OBVIOUS
    <2>1. /\ direction \in Directions /\ mode \in Modes /\ relayed \in BOOLEAN /\ time \in 0..3
          /\ chain \in [Legs -> HtlcObservation \cup {"noleg"}]
      BY DEF FollowInv, FollowEnvOK, FollowChainOK
    <2>2. served \in SwapStatus /\ stored \in SwapStatus /\ feed \in BOOLEAN /\ Len(inFlight) <= MaxWire
      BY DEF FollowInv, FollowServerOK
    <2>3. client \in FollowClients /\ client.refs \subseteq LegsOf /\ client.clocks \subseteq LegsOf
      BY DEF FollowInv, FollowBaseOK
    <2>4. /\ client.seen \in [Legs -> HtlcObservation \cup {"unseen", "noleg"}]
          /\ client.hint \in SwapStatus /\ client.last.offer \in Offers
          /\ client.attempts \in 0..MaxAttempts
      BY <2>3 DEF FollowClients, FollowObserved
    <2>5. Len(calls) <= MaxReads
      BY DEF FollowInv, FollowCallsOK
    <2> QED
      BY <2>1, <2>2, <2>3, <2>4, <2>5 DEF FollowTypeOK
  <1> QED
    BY <1>1, FollowBegin, FollowStepKeeps, PTL DEF FollowSpec

\* A swap is given up as completed or refunded only when the chain says so, whatever reads
\* overlapped, failed or came late (tracker/swap-tracker.ts #recompute, #untrack).
THEOREM FollowEndsTruly == FollowSpec => []NoneMeansSettled
  <1>1. FollowInv => NoneMeansSettled
    BY DEF FollowInv, FollowBaseOK, FollowNoneOK, NoneMeansSettled
  <1> QED
    BY <1>1, FollowBegin, FollowStepKeeps, PTL DEF FollowSpec

\* The worker starts a claim, or a retry of one, only while the server cannot refund, but for
\* the two cases of ClaimsOnlyInWindow (hints/swap-worker.ts #retry).
THEOREM FollowClaimsInWindow == FollowSpec => ClaimsOnlyInWindow
  <1>1. FollowInv /\ [FollowNext]_followVars =>
            [client'.executing /\ ~client.executing =>
                time = 0 \/ relayed \/ (client.unregistered /\ ~client.tracked)]_followVars
    BY FollowStepKeeps DEF FollowRunOK
  <1> QED
    BY <1>1, FollowBegin, FollowStepKeeps, PTL DEF FollowSpec, ClaimsOnlyInWindow
=============================================================================
