------------------------------- MODULE MCWallet -------------------------------
(***************************************************************************)
(* The machines of the TypeScript wallet on small instances, one run for    *)
(* all of them.  They share no variable: each is a call, a socket or a      *)
(* store with its own counterparty, so a run of several at once is an       *)
(* interleaving of runs of each, and `rail` says which one this run takes. *)
(***************************************************************************)
EXTENDS EvmFunding, CctpInbound, EvmClaim, VhtlcSpend, BitcoinHtlc, WalletStore,
        FollowSwap, LegReaders, StatusWatcher, ElectrumSocket, HintFeed, FundingPins,
        EvmAuthority, ComposeQuote

VARIABLE rail

walletVars == <<rail, fundingVars, cctpVars, claimVars, arkadeVars, btcVars, storeVars,
                followVars, readerVars, watcherVars, electrumVars, feedVars, pinVars,
                authorityVars, quoteVars>>

-----------------------------------------------------------------------------
(* The values of the constants that a configuration file cannot write.     *)

\* A deposit through the relay to Arkade: its keys are the wallet's, its hash is its own.
Asked ==
    [from : {"arbitrum"}, sent : {"usdc"}, to : {"arkade"}, received : {"coin"},
     amounts : {{"source"}}, address : {"plain"}, gasless : {TRUE}, userAddress : {FALSE},
     bridge : {FALSE}, recipient : {FALSE}]

\* One swap per path a claim takes.
Claimed ==
    {s \in ClaimSwap : s.bridge = "none" /\ (s.aa <=> s.chain = "arbitrum")
                       /\ (s.chain = "polygon" => s.dex)}

\* A cheap and a dear token, bridged by CCTP, whose fee comes off what it carries, or by
\* LayerZero; a peg of one or below, tokens as fine as a sat or finer.
Quoted ==
    {m \in [pivots : {{"42161"}, {"42161", "137"}}, pairs : {{"42161", "137"}}, scale : {1, 2},
            peg : {<<1, 1>>, <<9, 10>>}, rate : {<<3, 1>>, <<1, 3>>}, bridgeFee : {0, 6},
            router : {"cctp", "layerzero"}, nativeFee : {1}, networkFee : {6},
            baseFee : {"pair", "partner"}, extraFee : {0, 1}] :
        /\ m.router = "cctp" <=> m.bridgeFee = 6
        /\ m.scale = 1 <=> m.peg # <<1, 1>>
        /\ m.baseFee = "pair" <=> m.extraFee = 0
        /\ m.baseFee = "pair" <=> m.router = "cctp"
        /\ m.rate[1] = 3 <=> m.pivots = {"42161"}}

-----------------------------------------------------------------------------
Rails == {"funding", "cctp", "claim", "arkade", "btc", "store", "follow", "reader",
          "watcher", "electrum", "feed", "pins", "authority", "quote"}

Takes(r) == rail = r

\* Some one state of what this run does not take.
Idles(r, state, first) == Takes(r) \/ state = first

WalletInit ==
    /\ rail \in Rails
    /\ FundingInit /\ (Takes("funding") \/ (logs /\ route = "native"))
    /\ CctpInit /\ (Takes("cctp") \/ source = "evm")
    /\ ClaimInit /\ Idles("claim", swap, CHOOSE s \in Claimed : TRUE)
    /\ ArkadeInit /\ Idles("arkade", <<side, terms>>, <<"claim", "match">>)
    /\ BtcInit /\ Idles("btc", <<role, script>>, <<"claim", "match">>)
    /\ StoreInit /\ Idles("store", <<backend, server>>, <<CHOOSE b \in Stores : TRUE, <<>>>>)
    /\ FollowInit /\ Idles("follow", mode, "chain")
    /\ ReaderInit
    /\ Idles("reader", leg, CHOOSE l \in UNION {SwapToTracked[d] : d \in Traded} : TRUE)
    /\ WatcherInit /\ ElectrumInit /\ FeedInit
    /\ PinsInit /\ (Takes("pins") \/ (agreed.pegged /\ agreed.named /\ pins.allowed = {}
                                      /\ pins.maxSourceAmount = Input /\ pins.maxRelayFee = 0))
    /\ AuthorityInit /\ Idles("authority", deal, CHOOSE d \in Deals : TRUE)
    /\ QuoteInit

\* Only the machine of this run moves.
WalletNext ==
    \/ Takes("funding") /\ FundingNext
       /\ UNCHANGED <<rail, cctpVars, claimVars, arkadeVars, btcVars, storeVars,
                      followVars, readerVars, watcherVars, electrumVars, feedVars,
                      pinVars, authorityVars, quoteVars>>
    \/ Takes("cctp") /\ CctpNext
       /\ UNCHANGED <<rail, fundingVars, claimVars, arkadeVars, btcVars, storeVars,
                      followVars, readerVars, watcherVars, electrumVars, feedVars,
                      pinVars, authorityVars, quoteVars>>
    \/ Takes("claim") /\ ClaimNext
       /\ UNCHANGED <<rail, fundingVars, cctpVars, arkadeVars, btcVars, storeVars,
                      followVars, readerVars, watcherVars, electrumVars, feedVars,
                      pinVars, authorityVars, quoteVars>>
    \/ Takes("arkade") /\ ArkadeNext
       /\ UNCHANGED <<rail, fundingVars, cctpVars, claimVars, btcVars, storeVars,
                      followVars, readerVars, watcherVars, electrumVars, feedVars,
                      pinVars, authorityVars, quoteVars>>
    \/ Takes("btc") /\ BtcNext
       /\ UNCHANGED <<rail, fundingVars, cctpVars, claimVars, arkadeVars, storeVars,
                      followVars, readerVars, watcherVars, electrumVars, feedVars,
                      pinVars, authorityVars, quoteVars>>
    \/ Takes("store") /\ StoreNext
       /\ UNCHANGED <<rail, fundingVars, cctpVars, claimVars, arkadeVars, btcVars,
                      followVars, readerVars, watcherVars, electrumVars, feedVars,
                      pinVars, authorityVars, quoteVars>>
    \/ Takes("follow") /\ FollowNext
       /\ UNCHANGED <<rail, fundingVars, cctpVars, claimVars, arkadeVars, btcVars,
                      storeVars, readerVars, watcherVars, electrumVars, feedVars,
                      pinVars, authorityVars, quoteVars>>
    \/ Takes("reader") /\ ReaderNext
       /\ UNCHANGED <<rail, fundingVars, cctpVars, claimVars, arkadeVars, btcVars,
                      storeVars, followVars, watcherVars, electrumVars, feedVars,
                      pinVars, authorityVars, quoteVars>>
    \/ Takes("watcher") /\ WatcherNext
       /\ UNCHANGED <<rail, fundingVars, cctpVars, claimVars, arkadeVars, btcVars,
                      storeVars, followVars, readerVars, electrumVars, feedVars,
                      pinVars, authorityVars, quoteVars>>
    \/ Takes("electrum") /\ ElectrumNext
       /\ UNCHANGED <<rail, fundingVars, cctpVars, claimVars, arkadeVars, btcVars,
                      storeVars, followVars, readerVars, watcherVars, feedVars,
                      pinVars, authorityVars, quoteVars>>
    \/ Takes("feed") /\ FeedNext
       /\ UNCHANGED <<rail, fundingVars, cctpVars, claimVars, arkadeVars, btcVars,
                      storeVars, followVars, readerVars, watcherVars, electrumVars,
                      pinVars, authorityVars, quoteVars>>
    \/ Takes("pins") /\ PinsNext
       /\ UNCHANGED <<rail, fundingVars, cctpVars, claimVars, arkadeVars, btcVars,
                      storeVars, followVars, readerVars, watcherVars, electrumVars,
                      feedVars, authorityVars, quoteVars>>
    \/ Takes("authority") /\ AuthorityNext
       /\ UNCHANGED <<rail, fundingVars, cctpVars, claimVars, arkadeVars, btcVars,
                      storeVars, followVars, readerVars, watcherVars, electrumVars,
                      feedVars, pinVars, quoteVars>>
    \/ Takes("quote") /\ QuoteNext
       /\ UNCHANGED <<rail, fundingVars, cctpVars, claimVars, arkadeVars, btcVars,
                      storeVars, followVars, readerVars, watcherVars, electrumVars,
                      feedVars, pinVars, authorityVars>>

WalletSpec == WalletInit /\ [][WalletNext]_walletVars

\* What tells two states of a run apart: the others' variables never change in it.  A
\* composed quote's own state does not matter either: its call also ends, in the same state,
\* with the server's quote, and the run goes on from there.
Moving ==
    CASE Takes("funding") -> <<rail, fundingVars>>
      [] Takes("cctp") -> <<rail, cctpVars>>
      [] Takes("claim") -> <<rail, claimVars>>
      [] Takes("arkade") -> <<rail, arkadeVars>>
      [] Takes("btc") -> <<rail, btcVars>>
      [] Takes("store") -> <<rail, storeVars>>
      [] Takes("follow") -> <<rail, followVars>>
      [] Takes("reader") -> <<rail, readerVars>>
      [] Takes("watcher") -> <<rail, watcherVars>>
      [] Takes("electrum") -> <<rail, electrumVars>>
      [] Takes("feed") -> <<rail, feedVars>>
      [] Takes("pins") -> <<rail, pinVars>>
      [] Takes("authority") -> <<rail, authorityVars>>
      [] Takes("quote") /\ quote.of = "client" -> <<rail, quote>>
      [] Takes("quote") -> <<rail, quoteVars>>

-----------------------------------------------------------------------------
\* Every variable of the machine that runs has its type.
WalletTypeOK ==
    CASE Takes("funding") -> FundingTypeOK
      [] Takes("cctp") -> CctpTypeOK
      [] Takes("claim") -> ClaimTypeOK
      [] Takes("arkade") -> ArkadeTypeOK
      [] Takes("btc") -> BtcTypeOK
      [] Takes("store") -> StoreTypeOK
      [] Takes("follow") -> FollowTypeOK
      [] Takes("reader") -> ReaderTypeOK
      [] Takes("watcher") -> WatcherTypeOK
      [] Takes("electrum") -> ElectrumTypeOK
      [] Takes("feed") -> FeedTypeOK
      [] Takes("pins") -> PinsTypeOK
      [] Takes("authority") -> AuthorityTypeOK
      [] Takes("quote") -> QuoteTypeOK

\* No socket leaves a subscription without the means to be heard again: the status
\* watcher's, the Electrum client's and the hint feed's each put their subscriptions on
\* every new connection, whichever close, error or idle event comes late.
SocketsHeal == NobodyGoesUnheard /\ PushHeals /\ HintsReachActive

\* No deposit is made twice unless the first left no record: not a funding of the EVM
\* leg, and not a CCTP burn, whatever crashed or failed in between.
PaidTwiceOnlyUnrecorded == FundedTwiceOnlyUnrecorded /\ BurnedTwiceOnlyUnrecorded

\* What was paid can be reached again: the refund is built for the open lock whatever was
\* replaced or rehashed, every lock the client funded has a wallet that can refund it, and
\* a burn leaves what its settlement needs.
PaidIsReachable ==
    RefundFindsLock /\ RefundIsOpen /\ RehashRemembered /\ BurnedIsRecoverable
=============================================================================
