----------------------------- MODULE EvmFunding -----------------------------
(***************************************************************************)
(* The EVM leg of one swap the TypeScript wallet client funds: the wallet's *)
(* or the relay's funding transaction, its record beside the stored swap,   *)
(* the rehash that moves the lock to a new invoice, and the refund built    *)
(* from the funding receipt (ts-pure-sdk/src/client.ts, evm/htlc.ts).       *)
(*                                                                         *)
(* A transaction is named by its index in tx; 0 is none.  The application   *)
(* awaits one call on the swap before the next; a crash ends it anywhere.   *)
(***************************************************************************)
EXTENDS Naturals, Sequences, FiniteSets, SequencesExt

CONSTANTS
    MaxTx,          \* transactions that may ever exist
    MaxRecords,     \* rehash records kept
    OwnHash,        \* the hash the client fixed at creation
    Invoices,       \* payment hashes of replacement invoices
    Routes,         \* how the swap is funded: "native", "permit2", "relay"
    FundingFaults   \* of "crash", "rpc", "storage"

ASSUME FundingAssumption ==
    /\ MaxTx \in Nat \ {0} /\ MaxRecords \in Nat \ {0}
    /\ OwnHash \notin Invoices
    /\ Routes \subseteq {"native", "permit2", "relay"}
    /\ FundingFaults \subseteq {"crash", "rpc", "storage"}

VARIABLES
    route,      \* evm_htlc_kind and gasless, fixed at creation
    logs,       \* whether the signer's waitForReceipt returns logs
    tx,         \* the transactions sent
    htlc,       \* the HTLC's SwapState of each lock there has been
    evm,        \* the stored swap's evmFundTxid and evmRehashes
    call,       \* the client call that runs
    onRecord    \* funding transactions the client ever wrote down

fundingVars == <<route, logs, tx, htlc, evm, call, onRecord>>

TxIds == 1..MaxTx
Keys == [hash : {OwnHash} \cup Invoices, origin : TxIds]
Sent == 1..Len(tx)
NoKey == [hash |-> OwnHash, origin |-> 0]
Idle == [at |-> "idle", id |-> 0, to |-> OwnHash, key |-> NoKey, op |-> 0]
Calling == call # Idle
Fault(f) == f \in FundingFaults

Locks == DOMAIN htlc
Is(key, state) == key \in Locks /\ htlc[key] = state

-----------------------------------------------------------------------------
(* What a receipt shows.                                                   *)

\* A wallet replaces a transaction under its nonce; waitForReceipt follows it to the one
\* that stands.
Mined ==
    [i \in Sent |-> CHOOSE j \in Sent : tx[j].nonce = tx[i].nonce /\ tx[j].state # "replaced"]
HasReceipt(i) == i \in Sent /\ tx[Mined[i]].state \in {"success", "reverted"}
Succeeded(i) == HasReceipt(i) /\ tx[Mined[i]].state = "success"
Replaced(i) == Mined[i] # i

Creates(i) == tx[i].does \in {"create", "wrapped"}
SameCall(i, j) == tx[i].does = tx[j].does /\ tx[i].key = tx[j].key /\ tx[i].to = tx[j].to

\* findSwapCreated on the swap's HTLC under its hash: at most one lock per receipt.
SwapCreated(i, hash) ==
    IF Creates(Mined[i]) /\ hash = OwnHash THEN {[hash |-> OwnHash, origin |-> Mined[i]]} ELSE {}

\* findSwapRehashed: the receipt's move of the lock kept under key.
SwapRehashed(i, key) ==
    IF tx[Mined[i]].does = "rehash" /\ tx[Mined[i]].key = key THEN {tx[Mined[i]].to} ELSE {}

ProvesNoLock(i) == logs /\ SwapCreated(i, OwnHash) = {}

-----------------------------------------------------------------------------
(* The stored swap.                                                        *)

EvmSourceLeg ==
    [hash |-> IF evm.rehashes = <<>> THEN OwnHash ELSE evm.rehashes[1].from,
     fundTxids |-> IF evm.fundTx = 0 THEN <<>> ELSE <<evm.fundTx>>,
     rehashes |-> evm.rehashes]

Mayhap(f) == IF Fault(f) THEN BOOLEAN ELSE {TRUE}

\* A bookkeeping failure is logged and the call goes on.
RecordEvmFunding(i) ==
    \E written \in Mayhap("storage") :
        IF written
        THEN /\ evm' = [evm EXCEPT !.fundTx = i]
             /\ onRecord' = onRecord \cup {i}
        ELSE UNCHANGED <<evm, onRecord>>

ForgetEvmFunding(i) ==
    \E written \in Mayhap("storage") :
        /\ evm' = IF written /\ evm.fundTx = i THEN [evm EXCEPT !.fundTx = 0] ELSE evm
        /\ UNCHANGED onRecord

RehashRecord(txid, op) == [txid |-> txid, op |-> op, from |-> call.key.hash, to |-> call.to]

LastMatch(Test(_)) == SelectLastInSeq(evm.rehashes, Test)

\* The entry the record supersedes is replaced, the last one that matches; 0 for none.
WithRehash(record, superseded) ==
    IF superseded = 0
    THEN [evm EXCEPT !.rehashes = Append(@, record)]
    ELSE [evm EXCEPT !.rehashes[superseded] = record]

UpdateEvmRehash(record, superseded) ==
    \E written \in Mayhap("storage") :
        evm' = IF written THEN WithRehash(record, superseded) ELSE evm

IsThisPending(entry) == entry.txid = 0 /\ entry.op = 0 /\ entry.to = call.to
IsThisSigned(entry) ==
    entry.txid = 0 /\ (IF call.op = 0 THEN IsThisPending(entry) ELSE entry.op = call.op)

DropPendingRehash ==
    \E written \in Mayhap("storage") :
        evm' = IF written /\ LastMatch(IsThisPending) # 0
               THEN [evm EXCEPT !.rehashes = RemoveAt(@, LastMatch(IsThisPending))]
               ELSE evm

-----------------------------------------------------------------------------
(* The lock as the chain shows it.                                         *)

\* The tx a pending sponsored rehash landed in, asked of the bundler by its hash.
PendingRehashTx(entry) == IF entry.op \in Sent /\ HasReceipt(entry.op) THEN entry.op ELSE 0
FollowedTx(entry) == IF entry.txid = 0 THEN PendingRehashTx(entry) ELSE entry.txid

\* Mistake: a rehash that reverted ends the walk.
FollowRehashStrictly(terms, entry) ==
    LET i == FollowedTx(entry) IN
    IF terms = NoKey \/ i = 0 THEN terms
    ELSE IF ~HasReceipt(i) \/ ~Succeeded(i) THEN NoKey
    ELSE IF SwapRehashed(i, terms) = {entry.to} THEN [terms EXCEPT !.hash = entry.to]
    ELSE terms

\* One recorded rehash: skipped if it never landed, reverted or moved nothing.
FollowRehash(terms, entry) ==
    LET i == FollowedTx(entry) IN
    IF terms = NoKey \/ i = 0 THEN terms
    ELSE IF ~HasReceipt(i) THEN NoKey
    ELSE IF ~Succeeded(i) \/ SwapRehashed(i, terms) = {} THEN terms
    ELSE IF SwapRehashed(i, terms) = {entry.to} THEN [terms EXCEPT !.hash = entry.to]
    ELSE NoKey

RehashedTerms(key, rehashes) == FoldLeft(FollowRehash, key, rehashes)

Unavailable == [is |-> "unavailable", key |-> NoKey]
Unreadable == [is |-> "unreadable", key |-> NoKey]

LockFromFundingTx(i) ==
    IF ~HasReceipt(i) \/ ~Succeeded(i) THEN Unavailable
    ELSE IF ~logs THEN Unreadable
    ELSE IF SwapCreated(i, EvmSourceLeg.hash) = {} THEN Unavailable
    ELSE LET created == CHOOSE key \in SwapCreated(i, EvmSourceLeg.hash) : TRUE
             terms == RehashedTerms(created, EvmSourceLeg.rehashes)
         IN  [is |-> IF terms = NoKey THEN "unreadable" ELSE "lock", key |-> terms]

\* Mistake: a lock that is not active is settled.
RefundFromInactive(i) ==
    LET lock == LockFromFundingTx(i) IN
    IF lock.is # "lock" \/ Is(lock.key, "Active") THEN lock ELSE [lock EXCEPT !.is = "settled"]

\* refundFromFundingTx: an inactive lock is settled only if redeemed or refunded.
RefundFromFundingTx(i) ==
    LET lock == LockFromFundingTx(i) IN
    IF lock.is # "lock" THEN lock
    ELSE CASE Is(lock.key, "Active") -> lock
           [] Is(lock.key, "Redeemed") \/ Is(lock.key, "Refunded") -> [lock EXCEPT !.is = "settled"]
           [] OTHER -> Unreadable

\* The fundings looked at, the server's copy last.
Tried(serverTxid) ==
    EvmSourceLeg.fundTxids \o (IF serverTxid = 0 THEN <<>> ELSE <<serverTxid>>)
FirstOf(places) == CHOOSE n \in places : \A m \in places : n <= m

\* Only a receipt that could not be read leaves room for another txid.
BuildEvmSourceRefund(serverTxid) ==
    LET tried == Tried(serverTxid)
        told == {n \in DOMAIN tried : RefundFromFundingTx(tried[n]).is # "unavailable"}
    IN  IF told = {} THEN Unavailable ELSE RefundFromFundingTx(tried[FirstOf(told)])

\* ownLockForRehash: the first funding whose lock is still active.
OwnLockForRehash(serverTxid) ==
    LET tried == Tried(serverTxid)
        Lock(n) == LockFromFundingTx(tried[n])
        own == {n \in DOMAIN tried : Lock(n).is = "lock" /\ Is(Lock(n).key, "Active")}
    IN  IF own = {} THEN NoKey ELSE Lock(FirstOf(own)).key

\* The server's monitor names a tx that created or moved the lock, or none yet.
ServerTxids == {0} \cup {i \in Sent : tx[i].state = "success" /\ (Creates(i) \/ tx[i].does = "rehash")}

-----------------------------------------------------------------------------
(* Sending.  A UserOp is given its hash when it is signed, before it is     *)
(* sent; the wallet cannot replace it.  Nothing depends on who sends a     *)
(* refund, so all are sent as UserOps.                                     *)

NewId == Len(tx) + 1
Tx(does, key, to, state, userOp) ==
    [does |-> does, key |-> key, to |-> to, state |-> state, nonce |-> NewId, userOp |-> userOp]

Send(t) == Len(tx) < MaxTx /\ tx' = Append(tx, t)

Starts(next) == ~Calling /\ call' = next
At(pc) == call.at = pc
Goes(pc) == call' = [call EXCEPT !.at = pc]
Ends == call' = Idle

LockTx == Tx("create", NoKey, OwnHash, "pending", FALSE)

-----------------------------------------------------------------------------
(* Funding.                                                                *)

\* Mistake: what replaced the funding transaction is not looked at.
ProvablyFailedByReplacement(i) == HasReceipt(i) /\ (Succeeded(i) => Replaced(i))

\* ensureNativeFundingFailed: every funding known provably did not fund the swap.
ProvablyFailed(i) ==
    /\ HasReceipt(i)
    /\ Succeeded(i) => Replaced(i) /\ ProvesNoLock(i)

EnsureNativeFundingFailed == \A i \in ToSet(EvmSourceLeg.fundTxids) : ProvablyFailed(i)

\* fundNativeLock: checked, simulated and sent.
FundNativeLock ==
    /\ route = "native"
    /\ EnsureNativeFundingFailed
    /\ Send(LockTx)
    /\ Starts([Idle EXCEPT !.at = "record", !.id = NewId])
    /\ UNCHANGED <<route, logs, htlc, evm, onRecord>>

\* The server serves funding calldata while it sees nothing that may have funded the swap.
ServerServesFunding ==
    \A i \in Sent : Creates(i) => tx[i].state \in {"reverted", "replaced"}

\* fundSwap through Permit2: nothing recorded is looked at.
FundSwap ==
    /\ route = "permit2"
    /\ ServerServesFunding
    /\ Send(LockTx)
    /\ Starts([Idle EXCEPT !.at = "record", !.id = NewId])
    /\ UNCHANGED <<route, logs, htlc, evm, onRecord>>

\* fundSwapGasless: the relay sends, and its answer may be lost.
FundSwapGasless ==
    /\ route = "relay"
    /\ ServerServesFunding
    /\ Send(LockTx)
    /\ \/ Starts([Idle EXCEPT !.at = "relayed", !.id = NewId])
       \/ Fault("rpc") /\ ~Calling /\ UNCHANGED call
    /\ UNCHANGED <<route, logs, htlc, evm, onRecord>>

\* awaitFunding writes the txid down before it waits; the relay's answer is only that.
RecordSent ==
    /\ call.at \in {"record", "relayed"}
    /\ RecordEvmFunding(call.id)
    /\ IF At("record") THEN Goes("wait") ELSE Ends
    /\ UNCHANGED <<route, logs, tx, htlc>>

ForgetsFailed == route = "native"

\* Whether the receipt counts as this swap's funding.  Without logs a replacement
\* counts only when it is the same call, which the node may fail to show.
CreatedBy(i) ==
    IF logs THEN {SwapCreated(i, OwnHash) # {}}
    ELSE IF ~Replaced(i) THEN {TRUE}
    ELSE {SameCall(i, Mined[i])} \cup (IF Fault("rpc") THEN {FALSE} ELSE {})

AwaitFunding ==
    /\ At("wait")
    /\ HasReceipt(call.id)
    /\ IF ~Succeeded(call.id)
       THEN IF ForgetsFailed THEN ForgetEvmFunding(call.id) ELSE UNCHANGED <<evm, onRecord>>
       ELSE \E created \in CreatedBy(call.id) :
                IF Replaced(call.id) /\ ~created
                THEN IF ForgetsFailed /\ ProvesNoLock(call.id)
                     THEN ForgetEvmFunding(call.id)
                     ELSE UNCHANGED <<evm, onRecord>>
                ELSE IF Replaced(call.id)
                THEN RecordEvmFunding(Mined[call.id])
                ELSE UNCHANGED <<evm, onRecord>>
    /\ Ends
    /\ UNCHANGED <<route, logs, tx, htlc>>

\* The RPC fails or the wait runs out: the call throws and the record stays.
WaitFails ==
    /\ Fault("rpc")
    /\ call.at \in {"wait", "waitRehash", "submitted", "waitOp", "waitRefund"}
    /\ Ends
    /\ UNCHANGED <<route, logs, tx, htlc, evm, onRecord>>

-----------------------------------------------------------------------------
(* Retrying with a new invoice.  The server signs the move of the lock it  *)
(* knows; ensureLockIsOwn and ensureRehashMatchesRequest let through only  *)
(* the lock the chain shows, moved to the invoice's hash.                  *)

Authorized ==
    {[key |-> OwnLockForRehash(serverTxid), to |-> to] : serverTxid \in ServerTxids, to \in Invoices}

Movable == {move \in Authorized : move.key # NoKey /\ move.key.hash # move.to}

RehashTx(move, state, userOp) == Tx("rehash", move.key, move.to, state, userOp)

\* retrySwapWithInvoiceWithSigner, up to the wallet's broadcast.
RetryWithSigner ==
    /\ route # "relay" /\ ~Calling /\ Len(tx) < MaxTx
    /\ \E move \in Movable :
        /\ Send(RehashTx(move, "pending", FALSE))
        /\ Starts([Idle EXCEPT !.at = "recordRehash", !.id = NewId,
                              !.key = move.key, !.to = move.to])
    /\ UNCHANGED <<route, logs, htlc, evm, onRecord>>

\* Recorded as soon as it is broadcast; a store that refuses ends the call.
RecordRehash ==
    /\ At("recordRehash")
    /\ Len(evm.rehashes) < MaxRecords
    /\ \/ /\ evm' = WithRehash(RehashRecord(call.id, 0), 0)
          /\ Goes("waitRehash")
       \/ /\ Fault("storage")
          /\ Ends
          /\ UNCHANGED evm
    /\ UNCHANGED <<route, logs, tx, htlc, onRecord>>

\* sendCall: a replacement counts only when it is the same call repriced.
AwaitRehash ==
    /\ At("waitRehash")
    /\ HasReceipt(call.id)
    /\ IF Succeeded(call.id) /\ Replaced(call.id) /\ SameCall(call.id, Mined[call.id])
       THEN UpdateEvmRehash(RehashRecord(Mined[call.id], 0),
                            LastMatch(LAMBDA entry : entry.txid = call.id))
       ELSE UNCHANGED evm
    /\ Ends
    /\ UNCHANGED <<route, logs, tx, htlc, onRecord>>

\* retrySwapWithInvoice: recorded without its tx before anything is sent.
RetrySponsored ==
    /\ route = "relay" /\ ~Calling
    /\ Len(evm.rehashes) < MaxRecords
    /\ \E move \in Movable :
        /\ Starts([Idle EXCEPT !.at = "prepare", !.key = move.key, !.to = move.to])
        /\ evm' = WithRehash([txid |-> 0, op |-> 0, from |-> move.key.hash, to |-> move.to], 0)
    /\ UNCHANGED <<route, logs, tx, htlc, onRecord>>

\* Preparing or signing the UserOp failed: it cannot land, and the record goes.
PrepareFails ==
    /\ At("prepare")
    /\ Fault("rpc")
    /\ DropPendingRehash
    /\ Ends
    /\ UNCHANGED <<route, logs, tx, htlc, onRecord>>

\* onSigned, with the hash the UserOp will have, or without if none could be computed.
SignRehashOp ==
    /\ At("prepare")
    /\ Send(RehashTx(call, "unsent", TRUE))
    /\ \/ /\ UpdateEvmRehash(RehashRecord(0, NewId), LastMatch(IsThisPending))
          /\ call' = [call EXCEPT !.at = "sendOp", !.id = NewId, !.op = NewId]
       \/ /\ Fault("rpc")
          /\ call' = [call EXCEPT !.at = "sendOp", !.id = NewId]
          /\ UNCHANGED evm
    /\ UNCHANGED <<route, logs, htlc, onRecord>>

\* eth_sendUserOperation, whose answer may be lost, or which is refused.
SendRehashOp ==
    /\ At("sendOp")
    /\ \/ /\ tx' = [tx EXCEPT ![call.id].state = "pending"]
          /\ Goes("submitted") \/ (Fault("rpc") /\ Ends)
       \/ Fault("rpc") /\ Ends /\ UNCHANGED tx
    /\ UNCHANGED <<route, logs, htlc, evm, onRecord>>

RehashOpSubmitted ==
    /\ At("submitted")
    /\ UpdateEvmRehash(RehashRecord(0, call.id), LastMatch(IsThisSigned))
    /\ Goes("waitOp")
    /\ UNCHANGED <<route, logs, tx, htlc, onRecord>>

RehashOpIncluded ==
    /\ At("waitOp")
    /\ HasReceipt(call.id)
    /\ UpdateEvmRehash(RehashRecord(call.id, call.id), LastMatch(LAMBDA entry : entry.op = call.id))
    /\ Ends
    /\ UNCHANGED <<route, logs, tx, htlc, onRecord>>

-----------------------------------------------------------------------------
(* Refunding.                                                              *)

RefundTx(key) == Tx("refund", key, OwnHash, "pending", TRUE)

\* The server's refund call, for a lock on its books, once the chain path gave no
\* verdict: refused for a lock the chain shows to be inactive, taken when it cannot be read.
BindServerRefund(serverTxid) ==
    IF BuildEvmSourceRefund(serverTxid).is \notin {"unavailable", "unreadable"} THEN {}
    ELSE {key \in Locks : Is(key, "Active") \/ Fault("rpc")}

\* refundSwap then refundEvmWithSigner or refundEvmSponsored, once the timelock passed.
\* A funding found through the server is put on record.
RefundEvm ==
    /\ ~Calling /\ Len(tx) < MaxTx
    /\ \E serverTxid \in ServerTxids :
        LET refund == BuildEvmSourceRefund(serverTxid) IN
        \/ /\ refund.is = "lock"
           /\ Send(RefundTx(refund.key))
           /\ IF evm.fundTx = 0 /\ refund.key.origin = serverTxid
              THEN RecordEvmFunding(serverTxid)
              ELSE UNCHANGED <<evm, onRecord>>
        \/ /\ \E key \in BindServerRefund(serverTxid) : Send(RefundTx(key))
           /\ UNCHANGED <<evm, onRecord>>
    /\ Starts([Idle EXCEPT !.at = "waitRefund", !.id = NewId])
    /\ UNCHANGED <<route, logs, htlc>>

\* collabRefundEvmDirect and its sponsored form: refundBySig on the lock the server
\* has on its books.
CollabRefundEvm ==
    /\ ~Calling /\ Len(tx) < MaxTx
    /\ \E key \in Locks :
        /\ Is(key, "Active") \/ Is(key, "Rehashed")
        /\ Send(RefundTx(key))
    /\ Starts([Idle EXCEPT !.at = "waitRefund", !.id = NewId])
    /\ UNCHANGED <<route, logs, htlc, evm, onRecord>>

AwaitRefund ==
    /\ At("waitRefund")
    /\ HasReceipt(call.id)
    /\ Ends
    /\ UNCHANGED <<route, logs, tx, htlc, evm, onRecord>>

Crash ==
    /\ Fault("crash")
    /\ Calling
    /\ Ends
    /\ UNCHANGED <<route, logs, tx, htlc, evm, onRecord>>

-----------------------------------------------------------------------------
(* The chain, the wallet and the server.                                   *)

Moved(i) == [tx[i].key EXCEPT !.hash = tx[i].to]

Opened(key, locks) == [k \in DOMAIN locks \cup {key} |-> IF k = key THEN "Active" ELSE locks[k]]

Effect(i) ==
    CASE Creates(i) -> Opened([hash |-> OwnHash, origin |-> i], htlc)
      [] tx[i].does = "rehash" -> Opened(Moved(i), [htlc EXCEPT ![tx[i].key] = "Rehashed"])
      [] tx[i].does = "refund" -> [htlc EXCEPT ![tx[i].key] = "Refunded"]
      [] OTHER -> htlc

CanSucceed(i) ==
    /\ tx[i].does \in {"rehash", "refund"} => Is(tx[i].key, "Active")
    /\ tx[i].does = "rehash" => Moved(i) \notin Locks

Mine(i) ==
    /\ tx[i].state = "pending"
    /\ \/ /\ CanSucceed(i)
          /\ htlc' = Effect(i)
          /\ tx' = [tx EXCEPT ![i].state = "success"]
       \/ /\ tx[i].does # "cancel"
          /\ tx[i].does = "refund" => ~CanSucceed(i)
          /\ tx' = [tx EXCEPT ![i].state = "reverted"]
          /\ UNCHANGED htlc
    /\ UNCHANGED <<route, logs, evm, call, onRecord>>

\* The wallet reprices a transaction, cancels it, or batches the lock into another.
Replace(i) ==
    /\ tx[i].state = "pending" /\ ~tx[i].userOp
    /\ Len(tx) < MaxTx
    /\ \E does \in {tx[i].does, "cancel"} \cup (IF Creates(i) THEN {"wrapped"} ELSE {}) :
        LET by == [tx[i] EXCEPT !.does = does,
                                !.key = IF does = "cancel" THEN NoKey ELSE @] IN
        tx' = Append([tx EXCEPT ![i].state = "replaced"], by)
    /\ UNCHANGED <<route, logs, htlc, evm, call, onRecord>>

ServerClaims(key) ==
    /\ Is(key, "Active")
    /\ htlc' = [htlc EXCEPT ![key] = "Redeemed"]
    /\ UNCHANGED <<route, logs, tx, evm, call, onRecord>>

-----------------------------------------------------------------------------
FundingInit ==
    /\ route \in Routes
    /\ logs \in (IF route = "native" THEN BOOLEAN ELSE {TRUE})
    /\ tx = <<>>
    /\ htlc = <<>>
    /\ evm = [fundTx |-> 0, rehashes |-> <<>>]
    /\ call = Idle
    /\ onRecord = {}

ClientStep ==
    \/ FundNativeLock \/ FundSwap \/ FundSwapGasless
    \/ RecordSent \/ AwaitFunding \/ WaitFails
    \/ RetryWithSigner \/ RecordRehash \/ AwaitRehash
    \/ RetrySponsored \/ PrepareFails \/ SignRehashOp \/ SendRehashOp
    \/ RehashOpSubmitted \/ RehashOpIncluded
    \/ RefundEvm \/ CollabRefundEvm \/ AwaitRefund \/ Crash

ChainStep ==
    \/ \E i \in Sent : Mine(i) \/ Replace(i)
    \/ \E key \in Locks : ServerClaims(key)

FundingNext == ClientStep \/ ChainStep

FundingSpec == FundingInit /\ [][FundingNext]_fundingVars

-----------------------------------------------------------------------------
FundingTypeOK ==
    /\ route \in Routes /\ logs \in BOOLEAN
    /\ Len(tx) <= MaxTx
    /\ tx \in Seq([does : {"create", "wrapped", "cancel", "rehash", "refund"},
                   key : Keys \cup {NoKey}, to : {OwnHash} \cup Invoices,
                   state : {"unsent", "pending", "success", "reverted", "replaced"},
                   nonce : 1..MaxTx, userOp : BOOLEAN])
    /\ Locks \subseteq Keys /\ Range(htlc) \subseteq {"Active", "Redeemed", "Refunded", "Rehashed"}
    /\ onRecord \subseteq Sent

Origins == {key.origin : key \in Locks}

\* A native lock is funded a second time only if a transaction that locked the coin was
\* never written down: a crash or a refusing store between the send and the record
\* (ensureNativeFundingFailed, awaitFunding).
FundedTwiceOnlyUnrecorded ==
    route = "native" /\ Cardinality(Origins) > 1 =>
        \E i \in Sent : tx[i].does = "create" /\ i \notin onRecord

\* A sponsored rehash that may land, or landed, is on record with its hash: no lost
\* answer, crash or refusing store leaves the client with only the old terms
\* (retrySwapWithInvoice).
RehashRemembered ==
    \A i \in Sent :
        tx[i].does = "rehash" /\ tx[i].userOp /\ tx[i].state # "unsent" =>
            \E n \in DOMAIN evm.rehashes :
                /\ evm.rehashes[n].to = tx[i].to
                /\ evm.rehashes[n].op \in {0, i}

Followable(i) ==
    \E n \in DOMAIN evm.rehashes :
        FollowedTx(evm.rehashes[n]) # 0 /\ Mined[FollowedTx(evm.rehashes[n])] = i

\* The lock that is open is the one the refund is built for, whatever was replaced,
\* reverted, retried or recorded twice on the way, when its funding and every move are on
\* record (buildEvmSourceRefund, rehashedTerms).
RefundFindsLock ==
    \A key \in Locks :
        /\ logs
        /\ Is(key, "Active")
        /\ evm.fundTx # 0 /\ Mined[evm.fundTx] = key.origin
        /\ Cardinality(Origins) = 1
        /\ \A i \in Sent : tx[i].does = "rehash" /\ tx[i].state = "success" => Followable(i)
        /\ \A n \in DOMAIN evm.rehashes :
              FollowedTx(evm.rehashes[n]) # 0 => HasReceipt(FollowedTx(evm.rehashes[n]))
        => BuildEvmSourceRefund(0) = [is |-> "lock", key |-> key]

\* The client calls the deposit settled only when no lock of the swap is open, so a
\* refund is never given up while there is something to refund (ensureSettled).
SettledIsFinal ==
    \A key \in Locks :
        Is(key, "Active") /\ Cardinality(Origins) = 1 =>
            \A serverTxid \in ServerTxids : BuildEvmSourceRefund(serverTxid).is # "settled"
==============================================================================
