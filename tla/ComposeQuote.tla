----------------------------- MODULE ComposeQuote -----------------------------
(***************************************************************************)
(* Quotes composed by the client from the server's primitives, and the memo *)
(* of those that rarely change (ts-pure-sdk/src/compose-quote.ts,          *)
(* client.ts composeQuote, #composeStatic, getQuote).                      *)
(*                                                                         *)
(* All amounts are small naturals in base units; a rate is a pair <<num,    *)
(* den>>, a fee percentage counts tenths.  One entry of the memo stands for *)
(* all: no key touches another's.                                          *)
(***************************************************************************)
EXTENDS Naturals, FiniteSets

CONSTANTS
    Quoters,    \* calls of getQuote that overlap
    MaxFetches, \* requests for the memo's entry (bounds the model)
    StaticTtl,  \* #COMPOSE_STATIC_TTL_MS, in ticks
    MaxClock,   \* ticks (bounds the model)
    PinnedAmounts,  \* amounts that are pinned
    Markets     \* what the chain, the DEX and the bridge ask

ASSUME QuoteAssumption ==
    /\ IsFiniteSet(Quoters) /\ MaxFetches \in Nat \ {0}
    /\ StaticTtl \in Nat \ {0} /\ MaxClock \in Nat
    /\ PinnedAmounts \subseteq Nat
    /\ \A m \in Markets :
          /\ {m.scale, m.peg[1], m.peg[2], m.rate[1], m.rate[2]} \subseteq Nat \ {0}
          /\ {m.bridgeFee, m.nativeFee, m.networkFee, m.extraFee} \subseteq Nat

VARIABLES
    clock,
    feePercentage,  \* the server's fee for the pair
    fetch,          \* each request for it: unsent, flying, ok, failed; when sent; its answer
    memo,           \* #composeStaticCache: the request whose promise it holds, 0 if none
    quoter,         \* each call
    quote           \* what the last step gave a caller, or NoQuote

quoteVars == <<clock, feePercentage, fetch, memo, quoter, quote>>

Fetches == 1..MaxFetches
Percentages == 0..1
NoQuote == [of |-> "none"]
IdleQuoter == [at |-> "idle", fetch |-> 0, began |-> 0]

-----------------------------------------------------------------------------
(* What is asked for, and who can answer it.                               *)

\* `chain` and `token` are those of the side that is not BTC.
QuoteAsks ==
    [sourceIsBtc : BOOLEAN, targetIsBtc : BOOLEAN,
     chain : {"42161", "137", "10", "Solana", "Tron"}, token : {"pegged", "hex", "base58"},
     pinned : SUBSET {"source", "target"}, amount : PinnedAmounts]

ToEvm(a) == a.sourceIsBtc /\ ~a.targetIsBtc

\* Tokens are on their own chains.
Askable(a) ==
    /\ a.token = "base58" <=> a.chain \in {"Solana", "Tron"}
    /\ a.token = "pegged" => a.chain \in {"42161", "137"}

CanComposeQuote(a) ==
    /\ a.chain # "Tron"
    /\ a.sourceIsBtc # a.targetIsBtc
    /\ \/ ToEvm(a) /\ a.chain = "Solana"
       \/ a.token # "base58"

Composable == {a \in QuoteAsks : Askable(a) /\ CanComposeQuote(a)}

PivotForChain(m, chain) == chain \in m.pivots

\* Direct on a hub, bridged through Arbitrum otherwise; no pivot, no quote.
HubChain(m, chain) ==
    IF chain # "Solana" /\ PivotForChain(m, chain) THEN chain ELSE "42161"

\* A chain that is no number is none, but for Solana as a target.
ResolveTargetRouting(m, a) ==
    /\ a.chain \notin {"Tron"} \cup (IF ToEvm(a) THEN {} ELSE {"Solana"})
    /\ PivotForChain(m, HubChain(m, a.chain))

Bridged(m, a) == HubChain(m, a.chain) # a.chain

\* The BTC leg's fee and limits are those of the hub.
LookupPair(m, a) == HubChain(m, a.chain) \in m.pairs

Supported(m, a) ==
    /\ a.sourceIsBtc # a.targetIsBtc
    /\ Cardinality(a.pinned) = 1
    /\ ResolveTargetRouting(m, a) /\ LookupPair(m, a)

-----------------------------------------------------------------------------
(* The pivot: sats on one side, base units of the EVM token on the other.   *)

Floored(x, rate) == (x * rate[1]) \div rate[2]
Ceiled(x, rate) == (x * rate[1] + rate[2] - 1) \div rate[2]
InverseRate(rate) == <<rate[2], rate[1]>>
Less(x, y) == IF x > y THEN x - y ELSE 0

SatsToPeggedBase(m, sats) ==
    ((sats * m.peg[1] + m.peg[2] \div 2) \div m.peg[2]) * m.scale

PeggedBaseToSats(m, base) == (base * m.peg[2]) \div (m.scale * m.peg[1])

IsPivotToken(m, a) == a.token = "pegged" /\ ~Bridged(m, a)

\* The bridge's fee comes off what it carries; LayerZero's is paid in sats instead.
BridgeFee(m, a) == IF Bridged(m, a) THEN m.bridgeFee ELSE 0
BridgeNativeFeeSats(m, a) ==
    IF Bridged(m, a) /\ m.router = "layerzero" /\ ToEvm(a) THEN m.nativeFee ELSE 0

\* /dex-quote, with the bridge's fee folded in: what a token amount sells or costs.
ExactInForToken(m, a, pivot) == Less(Floored(pivot, m.rate), BridgeFee(m, a))
ExactOutOfToken(m, a, token) == Ceiled(token + BridgeFee(m, a), InverseRate(m.rate))
ExactInForPivot(m, a, token) == Floored(Less(token, BridgeFee(m, a)), InverseRate(m.rate))
ExactOutOfPivot(m, a, pivot) == Ceiled(pivot, m.rate) + BridgeFee(m, a)

DirectBtcToPeggedPivot(m, a) ==
    IF "source" \in a.pinned
    THEN [btcSats |-> a.amount, evmSmallest |-> SatsToPeggedBase(m, a.amount)]
    ELSE [btcSats |-> PeggedBaseToSats(m, a.amount), evmSmallest |-> a.amount]

DirectPeggedToBtcPivot(m, a) ==
    IF "source" \in a.pinned
    THEN [btcSats |-> PeggedBaseToSats(m, a.amount), evmSmallest |-> a.amount]
    ELSE [btcSats |-> a.amount, evmSmallest |-> SatsToPeggedBase(m, a.amount)]

DexSourcePinned(m, a) ==
    [btcSats |-> a.amount, evmSmallest |-> ExactInForToken(m, a, a.amount * m.scale)]

\* The dust below a sat is dropped.
DexTargetPinned(m, a) ==
    [btcSats |-> ExactOutOfToken(m, a, a.amount) \div m.scale, evmSmallest |-> a.amount]

DexEvmToBtcSourcePinned(m, a) ==
    [btcSats |-> ExactInForPivot(m, a, a.amount) \div m.scale, evmSmallest |-> a.amount]

DexEvmToBtcTargetPinned(m, a) ==
    [btcSats |-> a.amount, evmSmallest |-> ExactOutOfPivot(m, a, a.amount * m.scale)]

BtcEvmPivot(m, a) ==
    IF IsPivotToken(m, a) THEN DirectBtcToPeggedPivot(m, a)
    ELSE IF "source" \in a.pinned THEN DexSourcePinned(m, a) ELSE DexTargetPinned(m, a)

EvmBtcPivot(m, a) ==
    IF IsPivotToken(m, a) THEN DirectPeggedToBtcPivot(m, a)
    ELSE IF "source" \in a.pinned THEN DexEvmToBtcSourcePinned(m, a)
    ELSE DexEvmToBtcTargetPinned(m, a)

-----------------------------------------------------------------------------
(* The net amounts.                                                        *)

\* A partner's base fee replaces the pair's; a surcharge comes on top.
EffectiveFeePct(m, fee) == (IF m.baseFee = "pair" THEN fee ELSE 0) + m.extraFee

TotalFeeSats(m, a, fee, sats) ==
    m.networkFee + BridgeNativeFeeSats(m, a) + (sats * EffectiveFeePct(m, fee)) \div 10

\* Mistake: the BTC-side fees are taken of what is delivered, the bridge's fee too.
NetTargetOfDelivered(btcSats, fees, delivered, bridgeFee) ==
    IF btcSats = 0 \/ fees > btcSats THEN 0 ELSE ((btcSats - fees) * delivered) \div btcSats

\* The BTC-side fees scale the gross output, the bridge's fee comes off whole.
NetTargetSourcePinned(btcSats, fees, delivered, bridgeFee) ==
    IF btcSats = 0 \/ fees > btcSats THEN 0
    ELSE Less(((btcSats - fees) * (delivered + bridgeFee)) \div btcSats, bridgeFee)

QuoteOf(m, a, fees, netSource, netTarget) ==
    [of |-> "client", market |-> m, ask |-> a, fees |-> fees,
     netSource |-> netSource, netTarget |-> netTarget]

ComposeBtcToEvm(m, a, fee) ==
    LET p == BtcEvmPivot(m, a)
        fees == TotalFeeSats(m, a, fee, p.btcSats)
    IN IF "source" \in a.pinned
       THEN QuoteOf(m, a, fees, p.btcSats,
                NetTargetSourcePinned(p.btcSats, fees, p.evmSmallest, BridgeFee(m, a)))
       ELSE QuoteOf(m, a, fees, p.btcSats + fees, p.evmSmallest)

\* Pinned sats cost, fees included, what the DEX asked per sat.
ComposeEvmToBtc(m, a, fee) ==
    LET p == EvmBtcPivot(m, a)
        fees == TotalFeeSats(m, a, fee, p.btcSats)
    IN IF "source" \in a.pinned THEN QuoteOf(m, a, fees, p.evmSmallest, Less(p.btcSats, fees))
       ELSE QuoteOf(m, a, fees,
                IF p.btcSats = 0 THEN 0 ELSE ((p.btcSats + fees) * p.evmSmallest) \div p.btcSats,
                p.btcSats)

ComposeQuote(m, a, fee) ==
    IF ToEvm(a) THEN ComposeBtcToEvm(m, a, fee) ELSE ComposeEvmToBtc(m, a, fee)

-----------------------------------------------------------------------------
(* composeQuote: the memo, the live fees, the DEX.                         *)

\* A hit is an entry within its time, its request answered or still on its way.
MemoHit == memo # 0 /\ clock < fetch[memo].sent + StaticTtl

Freed(f) == fetch[f].state = "unsent"

\* getQuote, composeQuote: joins the request of the entry, or sends one and stores its
\* promise (#composeStatic).
ComposeStatic(q) ==
    /\ quoter[q].at = "idle"
    /\ \/ /\ MemoHit
          /\ quoter' = [quoter EXCEPT ![q] = [at |-> "waiting", fetch |-> memo, began |-> clock]]
          /\ UNCHANGED <<fetch, memo>>
       \/ \E f \in Fetches :
             /\ ~MemoHit /\ Freed(f) /\ \A g \in 1..(f - 1) : ~Freed(g)
             /\ fetch' = [fetch EXCEPT ![f] = [@ EXCEPT !.state = "flying", !.sent = clock]]
             /\ memo' = f
             /\ quoter' = [quoter EXCEPT ![q] = [at |-> "waiting", fetch |-> f, began |-> clock]]
    /\ quote' = NoQuote
    /\ UNCHANGED <<clock, feePercentage>>

StaticAnswers(f) ==
    /\ fetch[f].state = "flying"
    /\ fetch' = [fetch EXCEPT ![f] = [@ EXCEPT !.state = "ok", !.fee = feePercentage]]
    /\ quote' = NoQuote
    /\ UNCHANGED <<clock, feePercentage, memo, quoter>>

\* Only the entry of this very request is evicted.
MemoAfterFailure(f) == IF memo = f THEN 0 ELSE memo

\* The rejection evicts, and every call that waits for it falls back to /quote.
StaticFails(f) ==
    /\ fetch[f].state = "flying"
    /\ fetch' = [fetch EXCEPT ![f].state = "failed"]
    /\ memo' = MemoAfterFailure(f)
    /\ quoter' = [q \in Quoters |-> IF quoter[q].at = "waiting" /\ quoter[q].fetch = f
                                    THEN [quoter[q] EXCEPT !.at = "server"] ELSE quoter[q]]
    /\ quote' = NoQuote
    /\ UNCHANGED <<clock, feePercentage>>

\* All primitives are there: the amounts, or UnsupportedComposeQuotePath.
ComposesQuote(q) ==
    /\ quoter[q].at = "waiting" /\ fetch[quoter[q].fetch].state = "ok"
    /\ \E m \in Markets, a \in Composable :
          IF Supported(m, a)
          THEN /\ quote' = ComposeQuote(m, a, fetch[quoter[q].fetch].fee)
               /\ quoter' = [quoter EXCEPT ![q] = IdleQuoter]
          ELSE quote' = NoQuote /\ quoter' = [quoter EXCEPT ![q].at = "server"]
    /\ UNCHANGED <<clock, feePercentage, fetch, memo>>

\* /network-fees or /dex-quote fails; a request of the memo goes on without this call.
PrimitiveFails(q) ==
    /\ quoter[q].at = "waiting"
    /\ quoter' = [quoter EXCEPT ![q].at = "server"]
    /\ quote' = NoQuote
    /\ UNCHANGED <<clock, feePercentage, fetch, memo>>

\* getQuote of what no client can compose goes to /quote straight away.
GetQuoteFromServer(q) ==
    /\ \/ quoter[q].at = "server"
       \/ quoter[q].at = "idle" /\ \E a \in QuoteAsks : Askable(a) /\ ~CanComposeQuote(a)
    /\ quoter' = [quoter EXCEPT ![q] = IdleQuoter]
    /\ quote' = [of |-> "server"]
    /\ UNCHANGED <<clock, feePercentage, fetch, memo>>

QuoteTicks ==
    /\ clock < MaxClock
    /\ clock' = clock + 1
    /\ quote' = NoQuote
    /\ UNCHANGED <<feePercentage, fetch, memo, quoter>>

ServerReprices ==
    /\ \E p \in Percentages \ {feePercentage} : feePercentage' = p
    /\ quote' = NoQuote
    /\ UNCHANGED <<clock, fetch, memo, quoter>>

QuoteInit ==
    /\ clock = 0 /\ feePercentage = 0 /\ memo = 0 /\ quote = NoQuote
    /\ fetch = [f \in Fetches |-> [state |-> "unsent", sent |-> 0, fee |-> 0]]
    /\ quoter = [q \in Quoters |-> IdleQuoter]

QuoteNext ==
    \/ QuoteTicks \/ ServerReprices
    \/ \E f \in Fetches : StaticAnswers(f) \/ StaticFails(f)
    \/ \E q \in Quoters :
         ComposeStatic(q) \/ ComposesQuote(q) \/ PrimitiveFails(q) \/ GetQuoteFromServer(q)

QuoteSpec == QuoteInit /\ [][QuoteNext]_quoteVars

-----------------------------------------------------------------------------
QuoteTypeOK ==
    /\ clock \in 0..MaxClock /\ feePercentage \in Percentages
    /\ fetch \in [Fetches -> [state : {"unsent", "flying", "ok", "failed"},
                             sent : 0..MaxClock, fee : Percentages]]
    /\ memo \in {0} \cup Fetches
    /\ quoter \in [Quoters -> [at : {"idle", "waiting", "server"}, fetch : {0} \cup Fetches,
                               began : 0..MaxClock]]
    /\ quote.of \in {"none", "client", "server"}

\* What the swap pays out for `source`: the fees in sats, the DEX, the bridge.
Executed(m, a, source, fees) ==
    IF ToEvm(a)
    THEN LET sats == Less(source, fees)
         IN IF IsPivotToken(m, a) THEN SatsToPeggedBase(m, sats)
            ELSE ExactInForToken(m, a, sats * m.scale)
    ELSE LET sats == IF IsPivotToken(m, a) THEN PeggedBaseToSats(m, source)
                     ELSE ExactInForPivot(m, a, source) \div m.scale
         IN Less(sats, fees)

RoundsPeg(m, a) == IsPivotToken(m, a) /\ m.peg[1] # m.peg[2] /\ a.amount # 0

\* What rounding may cost: one of the least unit the user pays in.  A peg off par is rounded
\* to half a sat too, and the fees scale what it is rounded by.
Dust(m, a, fees) ==
    CASE ~RoundsPeg(m, a) -> 1
      [] RoundsPeg(m, a) /\ "source" \in a.pinned -> Ceiled(1, InverseRate(m.peg))
      [] RoundsPeg(m, a) /\ "source" \notin a.pinned /\ ToEvm(a) ->
             1 + Ceiled(1, <<m.peg[2], 2 * m.peg[1]>>)
      [] RoundsPeg(m, a) /\ "source" \notin a.pinned /\ ~ToEvm(a) ->
             1 + Ceiled(m.scale * (a.amount + fees), <<1, 2 * a.amount>>)

QuotePaysOut ==
    quote.of = "client" =>
        LET m == quote.market  a == quote.ask IN
        Executed(m, a, quote.netSource + Dust(m, a, quote.fees), quote.fees) >= quote.netTarget

QuoteEchoesPin ==
    quote.of = "client" =>
        quote.ask.amount = IF "source" \in quote.ask.pinned THEN quote.netSource ELSE quote.netTarget

MemoIsSound ==
    /\ \A q \in Quoters :
        quoter[q].at = "waiting" =>
            /\ fetch[quoter[q].fetch].state \in {"flying", "ok"}
            /\ quoter[q].began < fetch[quoter[q].fetch].sent + StaticTtl
    /\ memo # 0 => fetch[memo].state \in {"flying", "ok"}

\* A composed quote promises what the swap pays out, but for the dust of one unit of what the
\* user pays in and the rounding of a peg off par, and returns the amount the user pinned, in
\* both directions, direct, bridged or pegged (netTargetSourcePinned, dexTargetPinned); the
\* terms it rests on were asked for within the memo's time before the call, by a request that
\* had not failed (composeStatic).
QuoteIsHonoured == QuotePaysOut /\ QuoteEchoesPin /\ MemoIsSound
=============================================================================
