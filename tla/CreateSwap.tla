------------------------------ MODULE CreateSwap ------------------------------
(***************************************************************************)
(* Which swap a request creates (ts-pure-sdk/src/client.ts createSwap and   *)
(* the functions of create/): the direction, whose payment hash locks it,   *)
(* and what only the creation can put on the stored swap.  A request that   *)
(* is refused derives no key.                                              *)
(*                                                                         *)
(* Amounts are which of them were given; an address is the kind of it.      *)
(***************************************************************************)
EXTENDS FiniteSets

EvmSources == {"ethereum", "polygon", "arbitrum"}
CctpOnly == {"base", "optimism"}
BridgeOnly == CctpOnly \cup {"rootstock", "solana", "tron"}
Chains == {"arkade", "lightning", "bitcoin"} \cup EvmSources \cup BridgeOnly
Tokens == {"usdc", "usdt", "coin"}

SwapRequest ==
    [from : Chains, sent : Tokens, to : Chains, received : Tokens,
     amounts : SUBSET {"source", "target"},
     address : {"plain", "invoice", "lnurl", "lightning", "ln-at"},
     gasless : BOOLEAN, userAddress : BOOLEAN, bridge : BOOLEAN, recipient : BOOLEAN]

NativeLockTarget(chain, token) == chain = "rootstock" /\ token = "coin"
IsEvmToken(chain) == chain \in EvmSources \cup CctpOnly \cup {"rootstock"}
ExactlyOne(r) == Cardinality(r.amounts) = 1

-----------------------------------------------------------------------------
(* Bridges on either side: a swap with one settles on Arbitrum.            *)

\* The target is a chain without HTLCs, and the caller set up no bridge of its own.
Remapped(r) == ~r.bridge /\ r.to \in BridgeOnly /\ ~NativeLockTarget(r.to, r.received)
Target(r) == IF Remapped(r) THEN "arbitrum" ELSE r.to
BridgedOut(r) == r.bridge \/ Remapped(r)

\* USDC burned on a chain that is no source.
BridgedIn(r) == r.from \in CctpOnly \cup {"solana"}
Source(r) == IF BridgedIn(r) THEN "arbitrum" ELSE r.from
EvmSource(r) == Source(r) \in EvmSources \/ NativeLockTarget(Source(r), r.sent)

TronRefused(r) ==
    \/ r.from = "tron"
    \/ r.to = "tron" /\ (r.received # "usdt" \/ r.address # "plain")

InboundRefused(r) ==
    \/ BridgedIn(r) /\ r.sent # "usdc"
    \/ r.from = "solana" /\ ~r.gasless

\* The burn's recipient, when the caller or the Tron address names one.
Pins(r) == BridgedOut(r) /\ (r.recipient \/ r.to = "tron")

-----------------------------------------------------------------------------
(* One definition per direction: whose hash, and what creation commits.     *)

Refused == [hash |-> "none", gives |-> {}]
UnderOwnHash(gives) == [hash |-> "own", gives |-> gives]
UnderInvoiceHash(gives) == [hash |-> "invoice", gives |-> gives]

Recipient(r) == IF Pins(r) THEN {"recipient"} ELSE {}

CreateArkadeToEvm(r) == UnderOwnHash(Recipient(r))
CreateBitcoinToEvm(r) == UnderOwnHash(Recipient(r))
CreateLightningToEvm(r) == IF ExactlyOne(r) THEN UnderOwnHash(Recipient(r)) ELSE Refused
CreateLightningToArkade(r) == IF ExactlyOne(r) THEN UnderOwnHash({}) ELSE Refused
CreateLightningToBitcoin(r) == IF ExactlyOne(r) THEN UnderOwnHash({}) ELSE Refused
CreateBitcoinToArkade(r) == IF "target" \in r.amounts THEN UnderOwnHash({}) ELSE Refused

\* An invoice fixes the payout; any other destination needs one of the amounts.
PayableTo(r, isInvoice) == IF isInvoice THEN "source" \notin r.amounts ELSE ExactlyOne(r)

\* classifyLightningDestination: an address has an "@", whatever it begins with.
SatsToLightningOptions(r) == PayableTo(r, r.address = "invoice")
CreateArkadeToLightning(r) == IF SatsToLightningOptions(r) THEN UnderInvoiceHash({}) ELSE Refused
CreateBitcoinToLightning(r) == IF SatsToLightningOptions(r) THEN UnderInvoiceHash({}) ELSE Refused

\* Only this direction decides by the first letters: an address like "lnx@host" is read
\* as an invoice.
Depositor(r) == r.userAddress \/ r.gasless
CreateEvmToLightning(r) ==
    IF Depositor(r) /\ PayableTo(r, r.address \in {"invoice", "ln-at"})
    THEN UnderInvoiceHash({"terms", "payment"}) ELSE Refused
CreateEvmToArkade(r) == IF Depositor(r) THEN UnderOwnHash({"terms"}) ELSE Refused
CreateEvmToBitcoin(r) == IF Depositor(r) THEN UnderOwnHash({"terms"}) ELSE Refused

CreateSwapFor(r) ==
    CASE TronRefused(r) \/ InboundRefused(r) -> Refused
      [] r.from = "arkade" /\ IsEvmToken(Target(r)) -> CreateArkadeToEvm(r)
      [] r.from = "arkade" /\ r.to = "lightning" -> CreateArkadeToLightning(r)
      [] r.from = "bitcoin" /\ r.to = "lightning" -> CreateBitcoinToLightning(r)
      [] r.from = "lightning" /\ r.to = "arkade" -> CreateLightningToArkade(r)
      [] r.from = "lightning" /\ r.to = "bitcoin" -> CreateLightningToBitcoin(r)
      [] r.from = "lightning" /\ IsEvmToken(Target(r)) -> CreateLightningToEvm(r)
      [] r.from = "bitcoin" /\ IsEvmToken(Target(r)) -> CreateBitcoinToEvm(r)
      [] r.from = "bitcoin" /\ r.to = "arkade" -> CreateBitcoinToArkade(r)
      [] EvmSource(r) /\ r.to = "lightning" -> CreateEvmToLightning(r)
      [] EvmSource(r) /\ r.to = "arkade" -> CreateEvmToArkade(r)
      [] EvmSource(r) /\ r.to = "bitcoin" -> CreateEvmToBitcoin(r)
      [] OTHER -> Refused
==============================================================================
