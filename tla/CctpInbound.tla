---------------------------- MODULE CctpInbound ----------------------------
(***************************************************************************)
(* A swap funded with USDC from a chain the server takes no deposit on:     *)
(* burned there, minted into the client's smart account on Arbitrum and     *)
(* locked from it in one UserOp (ts-pure-sdk/src/cctp-inbound, client.ts).  *)
(*                                                                         *)
(* One swap and one account; every burn is one unit of USDC.  A burn is     *)
(* named by its index in burn, a UserOp by its index in op; 0 is none.     *)
(***************************************************************************)
EXTENDS Naturals, Sequences, FiniteSets

CONSTANTS
    MaxBurns,       \* burn transactions that may ever exist
    MaxOps,         \* UserOps that may ever exist
    Sources,        \* source chains: "evm", "solana"
    CctpFaults      \* of "crash", "rpc", "storage"

ASSUME CctpAssumption ==
    /\ MaxBurns \in Nat \ {0} /\ MaxOps \in Nat \ {0}
    /\ Sources \subseteq {"evm", "solana"}
    /\ CctpFaults \subseteq {"crash", "rpc", "storage"}

VARIABLES
    source,     \* bridge_source_chain
    burn,       \* the burn transactions sent
    burnTxid,   \* the stored swap's cctpBurnTxid
    noted,      \* burns the client ever wrote down
    funding,    \* the client call that runs
    op,         \* the UserOps sent
    account,    \* USDC in the smart account
    locks,      \* locks created from the account
    seen        \* whether the server's status has left "pending"

cctpVars == <<source, burn, burnTxid, noted, funding, op, account, locks, seen>>

NoCall == [at |-> "idle", id |-> 0, op |-> 0, recovers |-> FALSE, skip |-> FALSE]
InCall == funding # NoCall
CallAt(pc) == funding.at = pc
ThenAt(pc) == funding' = [funding EXCEPT !.at = pc]
Throws == funding' = NoCall
May(f) == f \in CctpFaults

Burned == {i \in 1..Len(burn) : burn[i].state = "burned"}

\* A wallet replaces a transaction under its nonce, and the wait for its receipt follows
\* it to the one that stands.
MinedBurn ==
    [i \in 1..Len(burn) |->
        CHOOSE j \in 1..Len(burn) : burn[j].nonce = burn[i].nonce /\ burn[j].state # "replaced"]
BurnKnown(i) == burn[i].state \notin {"pending", "expired"}
Minted == {op[n].mints : n \in {m \in 1..Len(op) : op[m].state = "success"}} \ {0}

-----------------------------------------------------------------------------
(* The source chain.                                                       *)

\* The hash is kept beside the response; a failing store is logged only.
RecordCctpBurn(i) ==
    \E written \in (IF May("storage") THEN BOOLEAN ELSE {TRUE}) :
        IF written
        THEN burnTxid' = i /\ noted' = noted \cup ({i} \ {0})
        ELSE UNCHANGED <<burnTxid, noted>>

\* approveAndBurn: an approval that fails burns nothing and is not shown here.
ApproveAndBurn ==
    /\ Len(burn) < MaxBurns
    /\ burn' = Append(burn, [state |-> "pending", nonce |-> Len(burn) + 1, to |-> "messenger"])
    /\ funding' = [NoCall EXCEPT !.at = "onBurn", !.id = Len(burn) + 1]

\* fundSwap on a CCTP-only chain: a recorded burn is resumed while the server, asked
\* afresh, still calls the swap pending; without one the USDC is burned.
FundSwapCctp ==
    /\ source = "evm" /\ ~InCall
    /\ IF burnTxid # 0
       THEN /\ ~seen
            /\ funding' = [NoCall EXCEPT !.at = "confirm", !.id = burnTxid]
            /\ UNCHANGED burn
       ELSE ApproveAndBurn
    /\ UNCHANGED <<source, burnTxid, noted, op, account, locks, seen>>

\* fundSwapFromSolana, with the burn built, simulated, signed and sent by the wallet.
FundSwapFromSolana ==
    /\ source = "solana" /\ ~InCall
    /\ IF burnTxid # 0
       THEN /\ ~seen
            /\ funding' = [NoCall EXCEPT !.at = "confirm", !.id = burnTxid]
            /\ UNCHANGED burn
       ELSE ApproveAndBurn
    /\ UNCHANGED <<source, burnTxid, noted, op, account, locks, seen>>

\* onBurn, as soon as the burn is broadcast.
OnBurn ==
    /\ CallAt("onBurn")
    /\ RecordCctpBurn(funding.id)
    /\ ThenAt("confirm")
    /\ UNCHANGED <<source, burn, op, account, locks, seen>>

\* confirmBurn: a reverted burn, or one the wallet replaced by something that does not
\* go to the TokenMessenger, clears the record; a repriced one moves it.
ConfirmBurn ==
    /\ source = "evm" /\ CallAt("confirm")
    /\ LET i == MinedBurn[funding.id] IN
       /\ BurnKnown(i)
       /\ IF burn[i].state = "reverted" \/ (i # funding.id /\ burn[i].to # "messenger")
          THEN RecordCctpBurn(0) /\ Throws
          ELSE /\ IF i = funding.id THEN UNCHANGED <<burnTxid, noted>> ELSE RecordCctpBurn(i)
               /\ funding' = [funding EXCEPT !.at = "attest", !.id = i]
    /\ UNCHANGED <<source, burn, op, account, locks, seen>>

\* An RPC without the transaction's history reports a landed burn as unknown.
StatusUnknown(i) == burn[i].state \in {"pending", "expired"} \/ (May("rpc") /\ burn[i].state = "burned")

\* hasCctpMessage: IRIS indexes every burn that landed; an outage throws.
HasCctpMessage(i) == burn[i].state = "burned"

Landable(i) == burn[i].state = "pending"

\* confirmSolanaBurn: cleared when the burn failed, or is unknown after the last height
\* it could land at and IRIS has no message of it.
ConfirmSolanaBurn ==
    /\ source = "solana" /\ CallAt("confirm")
    /\ LET i == funding.id IN
       \/ /\ burn[i].state = "reverted"
          /\ RecordCctpBurn(0) /\ Throws
       \/ /\ burn[i].state = "burned"
          /\ ThenAt("attest") /\ UNCHANGED <<burnTxid, noted>>
       \/ /\ StatusUnknown(i) /\ ~Landable(i)
          /\ IF HasCctpMessage(i)
             THEN ThenAt("attest") /\ UNCHANGED <<burnTxid, noted>>
             ELSE RecordCctpBurn(0) /\ Throws
    /\ UNCHANGED <<source, burn, op, account, locks, seen>>

\* fetchAttestation: it comes for the transaction that burned, under its own hash only.
FetchAttestation ==
    /\ CallAt("attest")
    /\ funding.id \in Burned
    /\ ThenAt("nonce")
    /\ UNCHANGED <<source, burn, burnTxid, noted, op, account, locks, seen>>

\* A wait runs out or is aborted, a node or IRIS fails: the call throws, the record stays.
CallFails ==
    /\ May("rpc")
    /\ funding.at \in {"confirm", "attest", "nonce", "send", "wait", "sweep"}
    /\ Throws
    /\ UNCHANGED <<source, burn, burnTxid, noted, op, account, locks, seen>>

-----------------------------------------------------------------------------
(* Settling and recovering on Arbitrum.                                    *)

\* usedNonces of this burn's message; the UserOp is built from it and sent later.
ReadNonce ==
    /\ CallAt("nonce")
    /\ funding' = [funding EXCEPT !.skip = funding.id \in Minted,
                                  !.at = IF funding.recovers /\ funding.id \in Minted
                                         THEN "sweep" ELSE "send"]
    /\ UNCHANGED <<source, burn, burnTxid, noted, op, account, locks, seen>>

SendOp(does, mints) ==
    /\ Len(op) < MaxOps
    /\ op' = Append(op, [does |-> does, mints |-> mints, amount |-> account, state |-> "pending"])

\* submitCctpInboundUserOp: receiveMessage unless the nonce is used, and the lock, in one
\* batch, with calldata the server serves while the swap is unfunded on its books.
SubmitCctpInboundUserOp ==
    /\ CallAt("send") /\ ~funding.recovers
    /\ ~seen
    /\ SendOp("lock", IF funding.skip THEN 0 ELSE funding.id)
    /\ funding' = [funding EXCEPT !.at = "wait", !.op = Len(op) + 1]
    /\ UNCHANGED <<source, burn, burnTxid, noted, account, locks, seen>>

\* recoverCctpInboundSwap starts at the attestation of the recorded burn.
RecoverCctpInboundSwap ==
    /\ ~InCall
    /\ burnTxid # 0
    /\ funding' = [NoCall EXCEPT !.at = "attest", !.id = burnTxid, !.recovers = TRUE]
    /\ UNCHANGED <<source, burn, burnTxid, noted, op, account, locks, seen>>

\* recoverCctpInbound mints if nobody has.
RecoverReceive ==
    /\ CallAt("send") /\ funding.recovers
    /\ SendOp("receive", funding.id)
    /\ funding' = [funding EXCEPT !.at = "wait", !.op = Len(op) + 1]
    /\ UNCHANGED <<source, burn, burnTxid, noted, account, locks, seen>>

\* Then it sweeps the balance it reads, if there is one.
RecoverSweep ==
    /\ CallAt("sweep")
    /\ IF account = 0
       THEN Throws /\ UNCHANGED op
       ELSE /\ SendOp("sweep", 0)
            /\ funding' = [funding EXCEPT !.at = "wait", !.op = Len(op) + 1]
    /\ UNCHANGED <<source, burn, burnTxid, noted, account, locks, seen>>

\* waitForUserOperationReceipt: a reverted UserOp throws.
AwaitUserOp ==
    /\ CallAt("wait")
    /\ op[funding.op].state # "pending"
    /\ IF op[funding.op].does = "receive" /\ op[funding.op].state = "success"
       THEN ThenAt("sweep") ELSE Throws
    /\ UNCHANGED <<source, burn, burnTxid, noted, op, account, locks, seen>>

CctpCrash ==
    /\ May("crash")
    /\ InCall
    /\ Throws
    /\ UNCHANGED <<source, burn, burnTxid, noted, op, account, locks, seen>>

-----------------------------------------------------------------------------
(* The chains, the wallet and the server.                                  *)

BurnMines(i) ==
    /\ burn[i].state = "pending"
    /\ \E state \in {"burned", "reverted"} :
        burn' = [burn EXCEPT ![i].state = IF @ = "pending" /\ burn[i].to # "messenger"
                                          THEN "cancelled" ELSE state]
    /\ UNCHANGED <<source, burnTxid, noted, funding, op, account, locks, seen>>

\* The wallet reprices a burn or cancels it with a transfer to itself.
BurnReplaced(i) ==
    /\ source = "evm" /\ burn[i].state = "pending"
    /\ Len(burn) < MaxBurns
    /\ \E to \in {burn[i].to, "self"} :
        burn' = Append([burn EXCEPT ![i].state = "replaced"],
                       [state |-> "pending", nonce |-> burn[i].nonce, to |-> to])
    /\ UNCHANGED <<source, burnTxid, noted, funding, op, account, locks, seen>>

\* A Solana burn whose blockhash expired never lands.
BurnExpires(i) ==
    /\ source = "solana" /\ burn[i].state = "pending"
    /\ burn' = [burn EXCEPT ![i].state = "expired"]
    /\ UNCHANGED <<source, burnTxid, noted, funding, op, account, locks, seen>>

\* A batch is atomic: a used nonce or a missing balance reverts all of it.
OpLands(n) ==
    /\ op[n].state = "pending"
    /\ LET mints == IF op[n].mints = 0 THEN 0 ELSE 1
           spends == CASE op[n].does = "lock" -> 1
                       [] op[n].does = "sweep" -> op[n].amount
                       [] OTHER -> 0
           runs == op[n].mints \notin Minted /\ account + mints >= spends
       IN  /\ op' = [op EXCEPT ![n].state = IF runs THEN "success" ELSE "reverted"]
           /\ account' = IF runs THEN (account + mints) - spends ELSE account
           /\ locks' = IF runs /\ op[n].does = "lock" THEN locks + 1 ELSE locks
    /\ UNCHANGED <<source, burn, burnTxid, noted, funding, seen>>

ServerSeesLock ==
    /\ locks > 0 /\ ~seen
    /\ seen' = TRUE
    /\ UNCHANGED <<source, burn, burnTxid, noted, funding, op, account, locks>>

-----------------------------------------------------------------------------
CctpInit ==
    /\ source \in Sources
    /\ burn = <<>> /\ op = <<>>
    /\ burnTxid = 0 /\ noted = {}
    /\ funding = NoCall
    /\ account = 0 /\ locks = 0
    /\ seen = FALSE

CctpNext ==
    \/ FundSwapCctp \/ FundSwapFromSolana \/ OnBurn \/ ConfirmBurn \/ ConfirmSolanaBurn
    \/ FetchAttestation \/ CallFails \/ ReadNonce \/ SubmitCctpInboundUserOp
    \/ RecoverCctpInboundSwap \/ RecoverReceive \/ RecoverSweep \/ AwaitUserOp \/ CctpCrash
    \/ \E i \in 1..Len(burn) : BurnMines(i) \/ BurnReplaced(i) \/ BurnExpires(i)
    \/ \E n \in 1..Len(op) : OpLands(n)
    \/ ServerSeesLock

CctpSpec == CctpInit /\ [][CctpNext]_cctpVars

-----------------------------------------------------------------------------
CctpTypeOK ==
    /\ source \in Sources
    /\ burn \in Seq([state : {"pending", "burned", "reverted", "cancelled", "replaced", "expired"},
                     nonce : 1..MaxBurns, to : {"messenger", "self"}])
    /\ burnTxid \in 0..Len(burn) /\ noted \subseteq 1..Len(burn)
    /\ op \in Seq([does : {"lock", "receive", "sweep"}, mints : 0..MaxBurns,
                   amount : Nat, state : {"pending", "success", "reverted"}])
    /\ account \in Nat /\ locks \in Nat /\ seen \in BOOLEAN

Unnoted == {i \in 1..Len(burn) : burn[i].to = "messenger" /\ i \notin noted}

\* The USDC is burned a second time only if a burn was never written down: no replacement,
\* lost answer, expiry or history-less node makes the next attempt burn afresh
\* (recordCctpBurn, confirmBurn, confirmSolanaBurn).
BurnedTwiceOnlyUnrecorded == Cardinality(Burned) > 1 => Unnoted # {}

\* While the USDC of a recorded burn is not minted, the record leads to it, so it can be
\* settled or recovered (fundSwap, recoverCctpInboundSwap).
BurnedIsRecoverable ==
    \A i \in Burned \ Minted :
        Unnoted = {} => burnTxid # 0 /\ MinedBurn[burnTxid] = i
==============================================================================
