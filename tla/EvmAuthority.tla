---------------------------- MODULE EvmAuthority ----------------------------
(***************************************************************************)
(* Who owns the lock of an EVM-sourced swap, and who may take it back.      *)
(* The Permit2 witness, the refund built from the chain, the server's       *)
(* refund call, the sponsored refund and the collaborative one each work    *)
(* that out for themselves, from the swap's terms, its record and the chain *)
(* (ts-pure-sdk/src/client.ts, evm/htlc.ts, evm/refund-call.ts).           *)
(***************************************************************************)
EXTENDS Naturals, FiniteSets, TLC

CONSTANT AuthorityFaults    \* of "rpc": a node that cannot read the contracts

ASSUME AuthorityAssumption == AuthorityFaults \subseteq {"rpc"}

VARIABLES
    deal,       \* the swap as it was created and recorded
    kernel,     \* whether the wallet-level key's account is delegated to Kernel
    witness,    \* the funding signed: its signer, refund address and envelope
    evmLock,    \* the lock on the chain, its sender and the coordinator's deposits entry
    refund,     \* the refund call the client built last
    payee       \* whom a refund paid

authorityVars == <<deal, kernel, witness, evmLock, refund, payee>>

\* The client's addresses: the wallet-level key, the swap's own key, the user's wallet.
Ours == {"sdk", "perSwap", "wallet"}
Contracts == {"coordinator", "htlc", "elsewhere"}
Addresses == Ours \cup Contracts \cup {"server"}

\* depositorIsSender is true from HTLCErc20 v7 and HTLCNative v2.  The creation terms
\* name the version, lack it ("unversioned") or are missing; the server's copy may change.
Deals ==
    {d \in [native : BOOLEAN, direct : BOOLEAN, own : BOOLEAN, copy : BOOLEAN,
            terms : {"none", "unversioned", "full"}, gasless : BOOLEAN, client : Ours,
            recorded : BOOLEAN] :
        /\ d.terms # "full" => d.copy = d.own
        /\ d.direct => d.native /\ ~d.gasless
        /\ d.client = IF ~d.gasless THEN "wallet"
                      ELSE IF d.terms = "none" THEN "perSwap" ELSE "sdk"}

NoLock == [state |-> "none", sender |-> "server", deposit |-> "server", moves |-> 0, known |-> 0,
           expired |-> FALSE]
Unsigned == [by |-> "server", names |-> "server", envelope |-> FALSE]
NoRefund == [kind |-> "none", to |-> "server", by |-> "server", sender |-> "server",
             pays |-> "server", moves |-> 0, read |-> FALSE]

\* evmSourceLeg: the terms' version when they name one, else the server's copy.
DepositorIsSender == IF deal.terms = "full" THEN deal.own ELSE deal.copy
ExpectedDepositors(w) == {w, "sdk", "perSwap", deal.client}

\* What is on record as the coordinator: older SDKs wrote down the wallet of a direct lock.
Coordinator == IF ~deal.recorded THEN {} ELSE IF deal.direct THEN {"wallet"} ELSE {"coordinator"}

-----------------------------------------------------------------------------
(* Funding.                                                                *)

\* Mistake: the version is read from the server's copy.
Permit2AddressOfCopy(depositor) == IF deal.copy THEN depositor ELSE "coordinator"

\* From the recorded terms, which may not name the version.
Permit2RefundAddress(depositor) ==
    IF deal.terms = "full" /\ deal.own THEN depositor ELSE "coordinator"

\* The server's hint describes client_evm_address and is used for that address only.
DelegationHintFor(w) == w = deal.client

\* Another signer is looked up, and a lookup that fails reads as a plain account.
IsKernelDelegated(w) ==
    LET truly == w = "sdk" /\ kernel IN
    IF DelegationHintFor(w) \/ "rpc" \notin AuthorityFaults THEN {truly} ELSE {truly, FALSE}

\* checkedFunding: without terms on record nothing is signed.
CheckedFunding ==
    evmLock.state = "none" /\ witness = Unsigned /\ deal.terms # "none" /\ ~deal.direct

\* The witness binds the lock's refund address.
Permit2FundingDigest(w) == [by |-> w, names |-> Permit2RefundAddress(w), envelope |-> FALSE]

\* A delegated account's signature goes into Kernel's ERC-1271 envelope.
SignDepositorDigest(digest, delegated) == [digest EXCEPT !.envelope = delegated]

\* fundSwapGasless and getCoordinatorFundingCallDataPermit2 sign with the wallet-level key.
SignWithEvmKey ==
    /\ CheckedFunding
    /\ \E delegated \in IsKernelDelegated("sdk") :
        witness' = SignDepositorDigest(Permit2FundingDigest("sdk"), delegated)
    /\ UNCHANGED <<deal, kernel, evmLock, refund, payee>>

\* The user's wallet signs the same terms as typed data, in the way of its own account.
Permit2TypedData(w) == Permit2FundingDigest(w)
GetPermit2FundingParamsUnsigned ==
    /\ CheckedFunding /\ ~deal.gasless
    /\ witness' = Permit2TypedData("wallet")
    /\ UNCHANGED <<deal, kernel, evmLock, refund, payee>>

\* Permit2 takes the witness only for the lock the coordinator creates, signed the way
\* the signer's account now verifies.
CreateLockWithPermit2 ==
    /\ witness # Unsigned
    /\ witness.names = IF deal.own THEN witness.by ELSE "coordinator"
    /\ witness.envelope = (witness.by = "sdk" /\ kernel)
    /\ evmLock' = [NoLock EXCEPT !.state = "active", !.sender = witness.names,
                              !.deposit = IF deal.own THEN @ ELSE witness.by]
    /\ witness' = Unsigned
    /\ deal' = [deal EXCEPT !.recorded = TRUE]
    /\ UNCHANGED <<kernel, refund, payee>>

Permit2Rejects ==
    /\ witness # Unsigned
    /\ \/ witness.names # IF deal.own THEN witness.by ELSE "coordinator"
       \/ witness.envelope # (witness.by = "sdk" /\ kernel)
    /\ witness' = Unsigned
    /\ UNCHANGED <<deal, kernel, evmLock, refund, payee>>

\* A direct native lock is the wallet's own, whatever the version.
FundNative ==
    /\ deal.direct /\ deal.terms # "none" /\ evmLock.state = "none"
    /\ evmLock' = [NoLock EXCEPT !.state = "active", !.sender = "wallet"]
    /\ UNCHANGED <<deal, kernel, witness, refund, payee>>

\* The sponsored claim of another swap delegates the wallet-level key's account.
DelegateKernel ==
    /\ ~kernel /\ kernel' = TRUE
    /\ UNCHANGED <<deal, witness, evmLock, refund, payee>>

\* Only the lock's own sender rehashes it; another device keeps the record to itself.
RehashLock ==
    /\ evmLock.state = "active" /\ evmLock.moves = 0 /\ deal.own /\ evmLock.sender \in Ours
    /\ \E recorded \in {0, 1} :
        evmLock' = [evmLock EXCEPT !.moves = 1, !.known = recorded]
    /\ UNCHANGED <<deal, kernel, witness, refund, payee>>

TimelockPasses ==
    /\ evmLock.state = "active" /\ ~evmLock.expired
    /\ evmLock' = [evmLock EXCEPT !.expired = TRUE]
    /\ UNCHANGED <<deal, kernel, witness, refund, payee>>

-----------------------------------------------------------------------------
(* The refund the client builds.                                           *)

Locked(sender, moves) ==
    evmLock.state = "active" /\ evmLock.sender = sender /\ evmLock.moves = moves
DepositsOf(contract) == IF contract = "coordinator" THEN evmLock.deposit ELSE "server"

\* Who may have created the lock; a coordinator that is not on record may be anyone.
LockSenders(w) ==
    IF DepositorIsSender THEN ExpectedDepositors(w)
    ELSE IF Coordinator # {} THEN {w} \cup Coordinator ELSE Addresses

\* A refund call as the client encodes it, from checked terms and never the server's bytes.
RefundCall(kind, to, by, sender, pays, moves, read) ==
    [kind |-> kind, to |-> to, by |-> by, sender |-> sender, pays |-> pays,
     moves |-> moves, read |-> read]

\* refundFromFundingTx, for a lock found under its terms and still active.
ChainRefunds(w) ==
    LET sender == evmLock.sender
        found == sender \in LockSenders(w) /\ Locked(sender, evmLock.known) IN
    IF ~found THEN {}
    ELSE IF DepositorIsSender
         THEN {RefundCall("refundFor", "htlc", w, sender, sender, evmLock.known, TRUE)}
    ELSE IF sender = w THEN {RefundCall("refund", "htlc", w, w, w, evmLock.known, TRUE)}
    ELSE IF evmLock.known > 0 \/ DepositsOf(sender) \notin ExpectedDepositors(w) THEN {}
    ELSE {RefundCall("refundTo", sender, w, sender, DepositsOf(sender), evmLock.known, TRUE)}

\* decodeRefundCall: what the server may hand out.  Its `refund` is the native one, which
\* names no token, so the lock it names on an ERC-20 HTLC is not there.
ServerCalls ==
    [kind : {"refundFor", "refund", "refundTo"}, to : Contracts, sender : Ours \cup {"elsewhere"},
     claimer : {"server", "elsewhere"}, moves : {0, 1}]

\* bindServerRefund: `w` is the signer, or "server" without one.  What a node cannot read is
\* left as checked, and then `read` is FALSE.
RefundsOfServer(call, w) ==
    LET signing == w # "server"
        expected == IF signing THEN ExpectedDepositors(w) ELSE ExpectedDepositors("sdk")
        sender == CASE call.kind = "refundFor" -> call.sender
                    [] call.kind = "refund" -> w
                    [] OTHER -> call.to
        pays == IF call.kind = "refundTo" THEN DepositsOf(call.to) ELSE sender
        target == IF call.kind = "refundTo"
                  THEN call.to # "htlc" /\ (Coordinator # {} => call.to \in Coordinator)
                  ELSE call.to = "htlc"
        checked == target /\ call.claimer = "server"
                   /\ (call.kind = "refundFor" => sender \in expected)
        built(read) == RefundCall(call.kind, call.to, w, sender, pays, call.moves, read) IN
    IF ~checked THEN {}
    ELSE IF ~signing THEN {built(FALSE)}
    ELSE (IF /\ Locked(sender, call.moves) /\ pays \in expected
             /\ call.kind = "refund" => deal.native
          THEN {built(TRUE)} ELSE {})
         \cup (IF "rpc" \in AuthorityFaults THEN {built(FALSE)} ELSE {})

\* buildEvmSourceRefund: the chain first, the server's call when that gave none.
BuildEvmRefund(w) ==
    /\ evmLock.state # "none" /\ refund = NoRefund
    /\ \/ \E built \in ChainRefunds(w) : refund' = built
       \/ /\ ChainRefunds(w) = {} \/ "rpc" \in AuthorityFaults
          /\ \E call \in ServerCalls : \E built \in RefundsOfServer(call, w) : refund' = built
    /\ UNCHANGED <<deal, kernel, witness, evmLock, payee>>

\* refundEvmSponsored: the key that is the recorded depositor, with no signer to read the
\* chain with; the account sends its own refund where the server named refundFor.
SponsoredOwner == IF deal.client = "sdk" THEN {"sdk"}
                  ELSE IF deal.gasless /\ deal.client = "perSwap" THEN {"perSwap"} ELSE {}
RefundForAsOwnRefund(built, account) ==
    IF built.kind # "refundFor" THEN {[built EXCEPT !.by = account]}
    ELSE IF built.sender # account THEN {}
    ELSE {[built EXCEPT !.kind = "refund", !.by = account]}

RefundEvmSponsored ==
    /\ evmLock.state # "none" /\ refund = NoRefund
    /\ \E account \in SponsoredOwner, call \in ServerCalls :
        \E built \in RefundsOfServer(call, "server") :
            \E own \in RefundForAsOwnRefund(built, account) : refund' = own
    /\ UNCHANGED <<deal, kernel, witness, evmLock, payee>>

\* getCollabRefundEvmSigningKey.
CollabKey == IF ~deal.gasless \/ deal.client = "perSwap" THEN "perSwap" ELSE "sdk"

\* The server signs for the depositor it is named, on the lock's terms, before the timelock
\* too.  The direct path sends refundBySig, whose sender is whoever sends it.
RefundBySig(w) == RefundCall("refundBySig", "htlc", w, w, w, evmLock.moves, FALSE)

\* On the coordinator's path the depositor's signature goes to the server, which sends it.
CollabRefundDigest(w) ==
    RefundCall("collab", "coordinator", w, "coordinator", w, evmLock.moves, FALSE)

CollabBuilds(w) ==
    /\ evmLock.state = "active" /\ refund = NoRefund
    /\ refund' = IF deal.own THEN RefundBySig(w) ELSE CollabRefundDigest(w)
    /\ UNCHANGED <<deal, kernel, witness, evmLock, payee>>

CollabRefundEvmSwap == CollabBuilds(CollabKey)
CollabRefundEvmWithSigner == CollabBuilds("wallet")

-----------------------------------------------------------------------------
(* The contracts.                                                          *)

\* The lock's key binds its sender; each call works its sender out in its own way.
Accepts(r) ==
    LET sender == CASE r.kind \in {"refund", "refundBySig"} -> r.by
                    [] r.kind = "refundFor" -> r.sender
                    [] OTHER -> r.to IN
    /\ Locked(sender, r.moves)
    /\ r.kind = "refundFor" => deal.own
    /\ r.kind \in {"refundTo", "collab"} => sender = "coordinator"
    /\ r.kind = "collab" => evmLock.deposit = r.by
    /\ evmLock.expired \/ r.kind \in {"refundBySig", "collab"}
Payee(r) == IF r.kind \in {"refundTo", "collab"} THEN evmLock.deposit ELSE evmLock.sender

\* simulateTransaction refuses what would revert; a sponsored call reverts and fails.
SendRefund ==
    /\ refund # NoRefund
    /\ IF Accepts(refund)
       THEN evmLock' = [evmLock EXCEPT !.state = "refunded"] /\ payee' = Payee(refund)
       ELSE UNCHANGED <<evmLock, payee>>
    /\ refund' = NoRefund
    /\ UNCHANGED <<deal, kernel, witness>>

\* A gasless swap an older SDK funded with the swap's own key has a lock already.
AuthorityInit ==
    /\ deal \in Deals
    /\ kernel = FALSE /\ witness = Unsigned /\ refund = NoRefund /\ payee = "server"
    /\ evmLock = IF ~deal.gasless \/ deal.terms # "none" THEN NoLock
              ELSE [NoLock EXCEPT !.state = "active",
                                  !.sender = IF deal.own THEN "perSwap" ELSE "coordinator",
                                  !.deposit = IF deal.own THEN @ ELSE "perSwap"]

AuthorityNext ==
    \/ \E w \in Ours : BuildEvmRefund(w)
    \/ SignWithEvmKey \/ GetPermit2FundingParamsUnsigned
    \/ CollabRefundEvmSwap \/ CollabRefundEvmWithSigner
    \/ CreateLockWithPermit2 \/ Permit2Rejects \/ FundNative \/ DelegateKernel
    \/ RehashLock \/ TimelockPasses \/ RefundEvmSponsored \/ SendRefund

AuthoritySpec == AuthorityInit /\ [][AuthorityNext]_authorityVars

-----------------------------------------------------------------------------
AuthorityTypeOK ==
    /\ deal \in Deals /\ kernel \in BOOLEAN
    /\ witness.by \in Addresses /\ witness.names \in Addresses /\ witness.envelope \in BOOLEAN
    /\ evmLock.state \in {"none", "active", "refunded"} /\ evmLock.sender \in Addresses
    /\ evmLock.deposit \in Addresses /\ evmLock.expired \in BOOLEAN
    /\ evmLock.known <= evmLock.moves
    /\ refund.by \in Addresses /\ refund.pays \in Addresses /\ payee \in Addresses

\* What the client works out for itself the contracts agree with: a witness signed for a
\* swap whose terms name the version is for the lock the coordinator creates; a refund
\* checked on the chain, of a kind the HTLC has, is accepted from the one it was built for
\* while the lock stays as it was, and pays whom it names; and whatever refund is sent, the
\* payee is one of the client's addresses (permit2RefundAddress,
\* refundFromFundingTx, bindServerRefund).
BuiltIsAccepted ==
    /\ witness # Unsigned /\ deal.terms = "full" =>
        witness.names = IF deal.own THEN witness.by ELSE "coordinator"
    /\ refund.read /\ evmLock.expired /\ Locked(refund.sender, refund.moves)
       /\ (refund.kind = "refundFor" => deal.own) =>
        Accepts(refund) /\ Payee(refund) = refund.pays /\ refund.pays \in Ours
    /\ evmLock.state = "refunded" => payee \in Ours

\* The lock the client funded can be refunded once it expired, from the funding receipt
\* alone: by the wallet of its sender, by any of the client's wallets where the depositor is
\* the sender or the coordinator recorded it, unless another device moved it
\* (refundFromFundingTx, evmSourceLeg).
RefundIsOpen ==
    evmLock.state = "active" /\ evmLock.expired /\ evmLock.known = evmLock.moves =>
        \A w \in Ours :
            w = evmLock.sender \/ deal.own \/ evmLock.sender = "coordinator" =>
                \E built \in ChainRefunds(w) : Accepts(built)
=============================================================================
