-------------------------- MODULE WalletFundingProofs --------------------------
(***************************************************************************)
(* What the TypeScript wallet writes down of the deposits it makes, proved   *)
(* for every value of the constants: an EVM funding and a CCTP burn are      *)
(* made again only when the first left no record, and a signed funding takes *)
(* no more than was agreed.                                                 *)
(***************************************************************************)
EXTENDS EvmFunding, CctpInbound, FundingPins, FiniteSetTheorems, WellFoundedInduction, TLAPS

-----------------------------------------------------------------------------
(* CCTP burns.                                                             *)

BurnTx ==
    [state : {"pending", "burned", "reverted", "cancelled", "replaced", "expired"}, nonce : Nat,
     to : {"messenger", "self"}]

\* A burn that is mined or may still be.
MayBurn(j) == burn[j].to = "messenger" /\ burn[j].state \in {"pending", "burned"}

\* A nonce is named after the burn that used it first; one transaction stands under it.
BurnsOK ==
    /\ burn \in Seq(BurnTx)
    /\ \A i \in DOMAIN burn :
          LET n == burn[i].nonce IN
          /\ n \in DOMAIN burn /\ burn[n].nonce = n /\ burn[n].to = "messenger"
          /\ \E j \in DOMAIN burn : burn[j].nonce = n /\ burn[j].state # "replaced"
    /\ \A i, j \in DOMAIN burn :
          burn[i].nonce = burn[j].nonce /\ burn[i].state # "replaced" /\ burn[j].state # "replaced"
             => i = j
    /\ \A i \in DOMAIN burn : burn[i].state = "burned" => burn[i].to = "messenger"

\* A burn that was written down and may burn is the one the record leads to.
RecordLeads ==
    /\ burnTxid \in DOMAIN burn \cup {0} /\ noted \subseteq DOMAIN burn
    /\ \A j \in DOMAIN burn :
          MayBurn(j) /\ burn[j].nonce \in noted =>
             burnTxid # 0 /\ burn[burnTxid].nonce = burn[j].nonce

\* A call that burns found no record; one that waits for the receipt waits for the only
\* burn on record that may still land.
CctpCallOK ==
    /\ funding = [at |-> funding.at, id |-> funding.id, op |-> funding.op,
                  recovers |-> funding.recovers, skip |-> funding.skip]
    /\ funding.at = "onBurn" =>
          /\ burnTxid = 0
          /\ funding.id \in DOMAIN burn \ noted /\ burn[funding.id].nonce = funding.id
    /\ funding.at = "confirm" =>
          /\ funding.id \in DOMAIN burn
          /\ \A j \in DOMAIN burn :
                MayBurn(j) /\ burn[j].nonce \in noted => burn[j].nonce = burn[funding.id].nonce

CctpInv == BurnsOK /\ RecordLeads /\ CctpCallOK

\* The transaction that stands under the nonce of a burn (waitForReceipt follows
\* replacements to it).
LEMMA MinedBurnStands ==
  ASSUME BurnsOK, NEW i \in DOMAIN burn
  PROVE  /\ MinedBurn[i] \in DOMAIN burn
         /\ burn[MinedBurn[i]].nonce = burn[i].nonce /\ burn[MinedBurn[i]].state # "replaced"
  <1>1. DOMAIN burn = 1..Len(burn)
    BY DEF BurnsOK
  <1>2. \E j \in 1..Len(burn) : burn[j].nonce = burn[i].nonce /\ burn[j].state # "replaced"
    BY <1>1 DEF BurnsOK
  <1> QED
    BY <1>1, <1>2 DEF MinedBurn

\* What the invariant says of the record is what the properties ask: two burns under two
\* nonces leave one unrecorded, and a burn that the record leads to is what a settlement
\* needs.
LEMMA RecordIsSafe ==
  ASSUME CctpInv
  PROVE  /\ BurnedTwiceOnlyUnrecorded /\ BurnedIsRecoverable
  <1>1. DOMAIN burn = 1..Len(burn)
    BY DEF CctpInv, BurnsOK
  <1>2. ASSUME Unnoted = {}, NEW i \in Burned
        PROVE  /\ burnTxid # 0 /\ burnTxid \in DOMAIN burn
               /\ burn[burnTxid].nonce = burn[i].nonce /\ burn[i].state # "replaced"
    <2>1. i \in DOMAIN burn /\ burn[i].state = "burned"
      BY <1>1 DEF Burned
    <2>2. MayBurn(i)
      BY <2>1 DEF MayBurn, CctpInv, BurnsOK
    <2>3. burn[i].nonce \in DOMAIN burn /\ burn[burn[i].nonce].to = "messenger"
      BY <2>1 DEF CctpInv, BurnsOK
    <2>4. burn[i].nonce \in noted
      BY <1>1, <1>2, <2>3 DEF Unnoted
    <2> QED
      BY <2>1, <2>2, <2>4 DEF CctpInv, RecordLeads
  <1>3. ASSUME Unnoted = {} PROVE Cardinality(Burned) \in {0, 1}
    <2>1. \A i, j \in Burned : i = j
      <3> SUFFICES ASSUME NEW i \in Burned, NEW j \in Burned PROVE i = j
        OBVIOUS
      <3>1. i \in DOMAIN burn /\ j \in DOMAIN burn
        BY <1>1 DEF Burned
      <3> QED
        BY <1>2, <1>3, <3>1 DEF CctpInv, BurnsOK
    <2>2. CASE Burned = {}
      BY <2>2, FS_EmptySet
    <2>3. CASE Burned # {}
      <3>1. PICK i \in Burned : TRUE
        BY <2>3
      <3>2. Burned = {i}
        BY <2>1, <3>1
      <3> QED
        BY <3>2, FS_Singleton
    <2> QED
      BY <2>2, <2>3
  <1>4. BurnedTwiceOnlyUnrecorded
    <2>1. CASE Unnoted = {}
      BY <1>3, <2>1 DEF BurnedTwiceOnlyUnrecorded
    <2>2. CASE Unnoted # {}
      BY <2>2 DEF BurnedTwiceOnlyUnrecorded
    <2> QED
      BY <2>1, <2>2
  <1>5. BurnedIsRecoverable
    <2> SUFFICES ASSUME NEW i \in Burned, Unnoted = {}
                 PROVE  burnTxid # 0 /\ MinedBurn[burnTxid] = i
      BY DEF BurnedIsRecoverable
    <2>1. i \in DOMAIN burn
      BY <1>1 DEF Burned
    <2> QED
      <3>1. /\ burnTxid \in DOMAIN burn /\ burn[burnTxid].nonce = burn[i].nonce
            /\ burn[i].state # "replaced" /\ burnTxid # 0
        BY <1>2
      <3>2. /\ MinedBurn[burnTxid] \in DOMAIN burn /\ burn[MinedBurn[burnTxid]].nonce = burn[i].nonce
            /\ burn[MinedBurn[burnTxid]].state # "replaced"
        BY <3>1, MinedBurnStands DEF CctpInv
      <3> QED
        BY <2>1, <3>1, <3>2 DEF CctpInv, BurnsOK
  <1> QED
    BY <1>4, <1>5

\* No transaction burns under a nonce where none could.
BurnsOnly ==
    /\ DOMAIN burn \subseteq DOMAIN burn'
    /\ \A j \in DOMAIN burn : burn'[j].nonce = burn[j].nonce
    /\ \A j \in DOMAIN burn' :
          MayBurn(j)' /\ burn'[j].nonce \in noted =>
              \E k \in DOMAIN burn : MayBurn(k) /\ burn[k].nonce = burn'[j].nonce

LEMMA BurnsOnlyKeeps ==
  ASSUME CctpInv, BurnsOnly, BurnsOK', UNCHANGED <<burnTxid, noted>>
  PROVE  /\ RecordLeads'
         /\ UNCHANGED funding => CctpInv'
  <1>1. RecordLeads'
    BY DEF CctpInv, BurnsOnly, RecordLeads
  <1>2. ASSUME UNCHANGED funding PROVE CctpCallOK'
    BY <1>2 DEF CctpInv, BurnsOnly, CctpCallOK
  <1> QED
    BY <1>1, <1>2 DEF CctpInv

\* A call that ends or goes on past the confirmation.
LEMMA CctpCallPasses ==
  ASSUME CctpInv, UNCHANGED <<burn, burnTxid, noted>>,
         funding' = [at |-> funding'.at, id |-> funding'.id, op |-> funding'.op,
                     recovers |-> funding'.recovers, skip |-> funding'.skip],
         funding'.at \notin {"onBurn", "confirm"}
  PROVE  CctpInv'
  <1>1. BurnsOK' /\ RecordLeads'
    BY DEF CctpInv, BurnsOK, RecordLeads, MayBurn
  <1>2. CctpCallOK'
    BY DEF CctpCallOK
  <1> QED
    BY <1>1, <1>2 DEF CctpInv

\* A call that waits still waits for the only burn on record that may land.
LEMMA CctpCallWaits ==
  ASSUME CctpInv, UNCHANGED <<burn, burnTxid, noted>>,
         \/ Throws
         \/ \E step \in {"attest", "nonce", "send", "wait", "sweep"} : ThenAt(step)
  PROVE  CctpInv'
  <1>1. CASE Throws
    BY <1>1, CctpCallPasses DEF Throws, NoCall
  <1>2. ASSUME NEW step \in {"attest", "nonce", "send", "wait", "sweep"}, ThenAt(step)
        PROVE  CctpInv'
    <2>1. funding' = [at |-> step, id |-> funding.id, op |-> funding.op,
                      recovers |-> funding.recovers, skip |-> funding.skip]
      BY <1>2 DEF ThenAt, CctpInv, CctpCallOK
    <2> QED
      BY <2>1, CctpCallPasses
  <1> QED
    BY <1>1, <1>2

\* The invariant is inductive, one step of the proof per action.
LEMMA CctpStep == CctpInv /\ [CctpNext]_cctpVars => CctpInv'
  <1> SUFFICES ASSUME CctpInv, [CctpNext]_cctpVars PROVE CctpInv'
    OBVIOUS
  <1>a. /\ Len(burn) \in Nat /\ DOMAIN burn = 1..Len(burn)
        /\ burn \in Seq(BurnTx) /\ \A i \in DOMAIN burn : burn[i] \in BurnTx
    BY DEF CctpInv, BurnsOK
  <1>1. ASSUME ApproveAndBurn, burnTxid = 0, UNCHANGED <<burnTxid, noted>>
        PROVE  CctpInv'
    <2> DEFINE new == [state |-> "pending", nonce |-> Len(burn) + 1, to |-> "messenger"]
    <2>1. new \in BurnTx /\ burn' = Append(burn, new)
      BY <1>a, <1>1 DEF ApproveAndBurn, BurnTx
    <2>2. new.nonce = Len(burn) + 1 /\ new.to = "messenger" /\ new.state = "pending"
      OBVIOUS
    <2> HIDE DEF new
    <2>3. /\ burn' \in Seq(BurnTx) /\ DOMAIN burn' = 1..(Len(burn) + 1)
          /\ \A i \in DOMAIN burn : burn'[i] = burn[i]
          /\ burn'[Len(burn) + 1] = new
      BY <1>a, <2>1
    <2>4. \A i \in DOMAIN burn' : i \in DOMAIN burn \/ i = Len(burn) + 1
      BY <1>a, <2>3
    <2>5. Len(burn) + 1 \notin DOMAIN burn /\ Len(burn) + 1 \in DOMAIN burn'
      BY <1>a, <2>3
    <2>5a. \A i \in DOMAIN burn : burn[i].nonce \in DOMAIN burn /\ i \in DOMAIN burn'
      BY <1>a, <2>3 DEF CctpInv, BurnsOK
    <2>6. BurnsOK'
      <3>1. ASSUME NEW i \in DOMAIN burn'
            PROVE  LET n == burn'[i].nonce IN
                   /\ n \in DOMAIN burn' /\ burn'[n].nonce = n /\ burn'[n].to = "messenger"
                   /\ \E j \in DOMAIN burn' : burn'[j].nonce = n /\ burn'[j].state # "replaced"
        <4>1. CASE i \in DOMAIN burn
          <5> DEFINE n == burn[i].nonce
          <5>1. /\ n \in DOMAIN burn /\ burn[n].nonce = n /\ burn[n].to = "messenger"
                /\ \E j \in DOMAIN burn : burn[j].nonce = n /\ burn[j].state # "replaced"
            BY <4>1 DEF CctpInv, BurnsOK
          <5>2. burn'[i].nonce = n /\ n \in DOMAIN burn' /\ burn'[n] = burn[n]
            BY <2>3, <2>5a, <4>1, <5>1
          <5>3. \E j \in DOMAIN burn' : burn'[j].nonce = n /\ burn'[j].state # "replaced"
            BY <2>3, <2>5a, <5>1
          <5> HIDE DEF n
          <5> QED
            BY <5>1, <5>2, <5>3
        <4>2. CASE i = Len(burn) + 1
          BY <2>2, <2>3, <2>5, <4>2
        <4> QED
          BY <2>4, <4>1, <4>2
      <3>2. ASSUME NEW i \in DOMAIN burn', NEW j \in DOMAIN burn', burn'[i].nonce = burn'[j].nonce,
                   burn'[i].state # "replaced", burn'[j].state # "replaced"
            PROVE  i = j
        <4>1. \A k \in DOMAIN burn : burn'[k].nonce # Len(burn) + 1
          BY <2>3, <2>5, <2>5a
        <4>2. CASE i \in DOMAIN burn /\ j \in DOMAIN burn
          BY <2>3, <3>2, <4>2 DEF CctpInv, BurnsOK
        <4>3. CASE i = Len(burn) + 1 \/ j = Len(burn) + 1
          BY <2>2, <2>3, <2>4, <3>2, <4>1, <4>3
        <4> QED
          BY <2>4, <4>2, <4>3
      <3>3. \A i \in DOMAIN burn' : burn'[i].state = "burned" => burn'[i].to = "messenger"
        BY <2>2, <2>3, <2>4 DEF CctpInv, BurnsOK
      <3> QED
        BY <2>3, <3>1, <3>2, <3>3 DEF BurnsOK
    <2>7. BurnsOnly
      BY <2>2, <2>3, <2>4, <2>5, <2>5a DEF BurnsOnly, MayBurn, CctpInv, RecordLeads
    <2>8. funding' = [at |-> "onBurn", id |-> Len(burn) + 1, op |-> 0, recovers |-> FALSE,
              skip |-> FALSE]
      BY <1>1 DEF ApproveAndBurn, NoCall
    <2>9. CctpCallOK'
      BY <1>a, <1>1, <2>2, <2>3, <2>5, <2>8 DEF CctpCallOK, CctpInv, RecordLeads
    <2> QED
      BY <1>1, <2>6, <2>7, <2>9, BurnsOnlyKeeps DEF CctpInv
  <1>2. CASE FundSwapCctp \/ FundSwapFromSolana
    <2>1. CASE burnTxid # 0
      <3>1. funding' = [NoCall EXCEPT !.at = "confirm", !.id = burnTxid]
            /\ UNCHANGED <<burn, burnTxid, noted>>
        BY <1>2, <2>1 DEF FundSwapCctp, FundSwapFromSolana
      <3>2. CctpCallOK'
        <4>1. funding' = [at |-> "confirm", id |-> burnTxid, op |-> 0, recovers |-> FALSE,
                  skip |-> FALSE]
          BY <3>1 DEF NoCall
        <4>2. \A j : MayBurn(j)' <=> MayBurn(j)
          BY <3>1 DEF MayBurn
        <4> QED
          BY <2>1, <3>1, <4>1, <4>2 DEF CctpCallOK, CctpInv, RecordLeads
      <3> QED
        BY <3>1, <3>2 DEF CctpInv, BurnsOK, RecordLeads, MayBurn
    <2>2. CASE burnTxid = 0
      BY <1>1, <1>2, <2>2 DEF FundSwapCctp, FundSwapFromSolana
    <2> QED
      BY <2>1, <2>2
  <1>3. CASE OnBurn
    <2>1. /\ funding.at = "onBurn" /\ burnTxid = 0
          /\ funding.id \in DOMAIN burn /\ burn[funding.id].nonce = funding.id
      BY <1>3 DEF OnBurn, CallAt, CctpInv, CctpCallOK
    <2>2. UNCHANGED burn /\ BurnsOK' /\ \A j : MayBurn(j)' <=> MayBurn(j)
      BY <1>3 DEF OnBurn, CctpInv, BurnsOK, MayBurn
    <2>3. funding' = [funding EXCEPT !.at = "confirm"]
      BY <1>3 DEF OnBurn, ThenAt
    <2>4. /\ funding'.at = "confirm" /\ funding'.id = funding.id
          /\ funding' = [at |-> funding'.at, id |-> funding'.id, op |-> funding'.op,
                         recovers |-> funding'.recovers, skip |-> funding'.skip]
      BY <2>3 DEF CctpInv, CctpCallOK
    <2>5. \A j \in DOMAIN burn : ~(MayBurn(j) /\ burn[j].nonce \in noted)
      BY <2>1 DEF CctpInv, RecordLeads
    <2>6. \/ burnTxid' = funding.id /\ noted' = noted \cup {funding.id}
          \/ UNCHANGED <<burnTxid, noted>>
      BY <1>a, <1>3, <2>1 DEF OnBurn, RecordCctpBurn
    <2>7. RecordLeads'
      <3>1. CASE burnTxid' = funding.id /\ noted' = noted \cup {funding.id}
        <4>1. funding.id # 0
          BY <1>a, <2>1
        <4> QED
          BY <2>1, <2>2, <2>5, <3>1, <4>1 DEF CctpInv, RecordLeads
      <3>2. CASE UNCHANGED <<burnTxid, noted>>
        BY <2>2, <3>2 DEF CctpInv, RecordLeads
      <3> QED
        BY <2>6, <3>1, <3>2
    <2>8. CctpCallOK'
      BY <2>1, <2>2, <2>4, <2>5, <2>6 DEF CctpCallOK
    <2> QED
      BY <2>2, <2>7, <2>8 DEF CctpInv
  <1>4. ASSUME NEW i \in DOMAIN burn, funding.at = "confirm", burn[i].nonce = burn[funding.id].nonce,
               burn[i].state # "replaced", ~MayBurn(i), RecordCctpBurn(0), Throws, UNCHANGED burn
        PROVE  CctpInv'
    <2>1. \A j \in DOMAIN burn : ~(MayBurn(j) /\ burn[j].nonce \in noted)
      <3> SUFFICES ASSUME NEW j \in DOMAIN burn, MayBurn(j), burn[j].nonce \in noted PROVE FALSE
        OBVIOUS
      <3>1. burn[j].nonce = burn[i].nonce /\ burn[j].state # "replaced"
        BY <1>4 DEF CctpInv, CctpCallOK, MayBurn
      <3> QED
        BY <1>4, <3>1 DEF CctpInv, BurnsOK
    <2>2. noted' = noted /\ (burnTxid' = 0 \/ burnTxid' = burnTxid)
      BY <1>4 DEF RecordCctpBurn, CctpInv, RecordLeads
    <2>3. BurnsOK' /\ RecordLeads'
      BY <1>4, <2>1, <2>2 DEF CctpInv, BurnsOK, RecordLeads, MayBurn
    <2>4. CctpCallOK'
      BY <1>4 DEF Throws, NoCall, CctpCallOK
    <2> QED
      BY <2>3, <2>4 DEF CctpInv
  <1>5. CASE ConfirmBurn
    <2> DEFINE i == MinedBurn[funding.id]
    <2>1. funding.at = "confirm" /\ funding.id \in DOMAIN burn /\ UNCHANGED burn
      BY <1>5 DEF ConfirmBurn, CallAt, CctpInv, CctpCallOK
    <2>2. i \in DOMAIN burn /\ burn[i].nonce = burn[funding.id].nonce /\ burn[i].state # "replaced"
      BY <2>1, MinedBurnStands DEF CctpInv
    <2>3. CASE burn[i].state = "reverted" \/ (i # funding.id /\ burn[i].to # "messenger")
      <3>1. RecordCctpBurn(0) /\ Throws
        BY <1>5, <2>3 DEF ConfirmBurn
      <3>2. ~MayBurn(i)
        BY <2>3 DEF MayBurn
      <3> HIDE DEF i
      <3> QED
        BY <1>4, <2>1, <2>2, <3>1, <3>2
    <2>4. CASE ~(burn[i].state = "reverted" \/ (i # funding.id /\ burn[i].to # "messenger"))
      <3>1. /\ IF i = funding.id THEN UNCHANGED <<burnTxid, noted>> ELSE RecordCctpBurn(i)
            /\ funding' = [funding EXCEPT !.at = "attest", !.id = i]
        BY <1>5, <2>4 DEF ConfirmBurn
      <3> HIDE DEF i
      <3>2. CctpCallOK'
        BY <3>1 DEF CctpInv, CctpCallOK
      <3>3. \/ burnTxid' = i /\ noted' = noted \cup {i}
            \/ UNCHANGED <<burnTxid, noted>>
        <4>1. i # 0
          BY <1>a, <2>2
        <4> QED
          BY <3>1, <4>1 DEF RecordCctpBurn
      <3>4. \A j : MayBurn(j)' <=> MayBurn(j)
        BY <2>1 DEF MayBurn
      <3>5. RecordLeads'
        <4>1. CASE UNCHANGED <<burnTxid, noted>>
          BY <2>1, <3>4, <4>1 DEF CctpInv, RecordLeads
        <4>2. CASE burnTxid' = i /\ noted' = noted \cup {i}
          <5>1. i # 0
            BY <1>a, <2>2
          <5>2. \A j \in DOMAIN burn : burn[j].nonce = i => burn[i].nonce = i
            BY DEF CctpInv, BurnsOK
          <5>3. \A j \in DOMAIN burn : MayBurn(j) /\ burn[j].nonce \in noted =>
                    burn[j].nonce = burn[i].nonce
            BY <2>1, <2>2 DEF CctpInv, CctpCallOK
          <5> QED
            BY <2>1, <2>2, <3>4, <4>2, <5>1, <5>2, <5>3 DEF CctpInv, RecordLeads
        <4> QED
          BY <3>3, <4>1, <4>2
      <3> QED
        BY <2>1, <3>2, <3>5 DEF CctpInv, BurnsOK
    <2> QED
      BY <2>3, <2>4
  <1>6. CASE ConfirmSolanaBurn
    <2>1. funding.at = "confirm" /\ funding.id \in DOMAIN burn /\ UNCHANGED burn
      BY <1>6 DEF ConfirmSolanaBurn, CallAt, CctpInv, CctpCallOK
    <2>2. \/ /\ burn[funding.id].state \in {"reverted", "expired"} /\ RecordCctpBurn(0) /\ Throws
          \/ ThenAt("attest") /\ UNCHANGED <<burnTxid, noted>>
      BY <1>6 DEF ConfirmSolanaBurn, StatusUnknown, Landable, HasCctpMessage
    <2> QED
      BY <1>4, <2>1, <2>2, CctpCallWaits DEF MayBurn
  <1>7. CASE FetchAttestation \/ CallFails \/ AwaitUserOp \/ CctpCrash
    BY <1>7, CctpCallWaits DEF FetchAttestation, CallFails, AwaitUserOp, CctpCrash
  <1>8. CASE \/ ReadNonce \/ SubmitCctpInboundUserOp \/ RecoverCctpInboundSwap
             \/ RecoverReceive \/ RecoverSweep
    <2>1. UNCHANGED <<burn, burnTxid, noted>>
      BY <1>8 DEF ReadNonce, SubmitCctpInboundUserOp, RecoverCctpInboundSwap, RecoverReceive,
                  RecoverSweep
    <2>2. CASE Throws
      BY <2>1, <2>2, CctpCallWaits
    <2>3. ASSUME NEW step \in {"send", "sweep"}, NEW skip \in BOOLEAN,
                 funding' = [funding EXCEPT !.skip = skip, !.at = step]
          PROVE  CctpInv'
      <3>1. funding' = [at |-> step, id |-> funding.id, op |-> funding.op,
                        recovers |-> funding.recovers, skip |-> skip]
        BY <2>3 DEF CctpInv, CctpCallOK
      <3> QED
        BY <2>1, <3>1, CctpCallPasses
    <2>4. CASE funding' = [funding EXCEPT !.at = "wait", !.op = Len(op) + 1]
      <3>1. funding' = [at |-> "wait", id |-> funding.id, op |-> Len(op) + 1,
                        recovers |-> funding.recovers, skip |-> funding.skip]
        BY <2>4 DEF CctpInv, CctpCallOK
      <3> QED
        BY <2>1, <3>1, CctpCallPasses
    <2>5. CASE funding' = [NoCall EXCEPT !.at = "attest", !.id = burnTxid, !.recovers = TRUE]
      BY <2>1, <2>5, CctpCallPasses DEF NoCall
    <2>6. CASE ReadNonce
      <3> DEFINE skip == funding.id \in Minted
                 step == IF funding.recovers /\ skip THEN "sweep" ELSE "send"
      <3>1. funding' = [funding EXCEPT !.skip = skip, !.at = step]
        BY <2>6 DEF ReadNonce
      <3>2. skip \in BOOLEAN /\ step \in {"send", "sweep"}
        OBVIOUS
      <3> HIDE DEF skip, step
      <3> QED
        BY <2>3, <3>1, <3>2
    <2>7. CASE SubmitCctpInboundUserOp \/ RecoverReceive
      BY <2>4, <2>7 DEF SubmitCctpInboundUserOp, RecoverReceive
    <2>8. CASE RecoverCctpInboundSwap
      BY <2>5, <2>8 DEF RecoverCctpInboundSwap
    <2>9. CASE RecoverSweep
      BY <2>2, <2>4, <2>9 DEF RecoverSweep
    <2> QED
      BY <1>8, <2>6, <2>7, <2>8, <2>9
  <1>9. ASSUME NEW i \in 1..Len(burn), burn[i].state = "pending",
               NEW state \in {"burned", "reverted", "cancelled", "expired"},
               state = "burned" => burn[i].to = "messenger",
               burn' = [burn EXCEPT ![i].state = state], UNCHANGED <<burnTxid, noted, funding>>
        PROVE  CctpInv'
    <2> DEFINE mined == [state |-> state, nonce |-> burn[i].nonce, to |-> burn[i].to]
    <2>1. burn' = [burn EXCEPT ![i] = mined] /\ mined \in BurnTx
      <3>1. burn' = [burn EXCEPT ![i] = [burn[i] EXCEPT !.state = state]] /\ burn[i] \in BurnTx
        BY <1>a, <1>9
      <3>2. [burn[i] EXCEPT !.state = state] = mined
        BY <3>1 DEF BurnTx
      <3> QED
        BY <3>1, <3>2 DEF BurnTx
    <2>2. mined.nonce = burn[i].nonce /\ mined.to = burn[i].to /\ mined.state = state
      OBVIOUS
    <2> HIDE DEF mined
    <2>3. /\ burn' \in Seq(BurnTx) /\ DOMAIN burn' = DOMAIN burn /\ i \in DOMAIN burn
          /\ \A j \in DOMAIN burn : j # i => burn'[j] = burn[j]
          /\ burn'[i] = mined
      BY <1>a, <2>1
    <2>4. \A j \in DOMAIN burn :
             /\ burn'[j].nonce = burn[j].nonce /\ burn'[j].to = burn[j].to
             /\ burn'[j].state = "replaced" <=> burn[j].state = "replaced"
      BY <1>9, <2>2, <2>3
    <2>5. \A j \in DOMAIN burn : burn'[j].state = "burned" => burn'[j].to = "messenger"
      BY <1>9, <2>2, <2>3 DEF CctpInv, BurnsOK
    <2>6. BurnsOK'
      <3>1. ASSUME NEW j \in DOMAIN burn'
            PROVE  LET n == burn'[j].nonce IN
                   /\ n \in DOMAIN burn' /\ burn'[n].nonce = n /\ burn'[n].to = "messenger"
                   /\ \E k \in DOMAIN burn' : burn'[k].nonce = n /\ burn'[k].state # "replaced"
        <4> DEFINE n == burn[j].nonce
        <4>1. /\ n \in DOMAIN burn /\ burn[n].nonce = n /\ burn[n].to = "messenger"
              /\ \E k \in DOMAIN burn : burn[k].nonce = n /\ burn[k].state # "replaced"
          BY <2>3 DEF CctpInv, BurnsOK
        <4> HIDE DEF n
        <4> QED
          BY <2>3, <2>4, <4>1 DEF n
      <3>2. ASSUME NEW j \in DOMAIN burn', NEW k \in DOMAIN burn', burn'[j].nonce = burn'[k].nonce,
                   burn'[j].state # "replaced", burn'[k].state # "replaced"
            PROVE  j = k
        <4>1. /\ j \in DOMAIN burn /\ k \in DOMAIN burn /\ burn[j].nonce = burn[k].nonce
              /\ burn[j].state # "replaced" /\ burn[k].state # "replaced"
          BY <2>3, <2>4, <3>2
        <4> QED
          BY <4>1 DEF CctpInv, BurnsOK
      <3> QED
        BY <2>3, <2>5, <3>1, <3>2 DEF BurnsOK
    <2>7. \A j \in DOMAIN burn : MayBurn(j)' => MayBurn(j)
      BY <1>9, <2>2, <2>3 DEF MayBurn
    <2>8. BurnsOnly
      BY <2>3, <2>4, <2>7 DEF BurnsOnly
    <2> QED
      BY <1>9, <2>6, <2>8, BurnsOnlyKeeps
  <1>10. ASSUME NEW i \in 1..Len(burn), BurnReplaced(i)
        PROVE  CctpInv'
    <2>0. burn[i].state = "pending" /\ UNCHANGED <<burnTxid, noted, funding>>
      BY <1>10 DEF BurnReplaced
    <2>1. PICK to \in {burn[i].to, "self"} :
             burn' = Append([burn EXCEPT ![i].state = "replaced"],
                            [state |-> "pending", nonce |-> burn[i].nonce, to |-> to])
      BY <1>10 DEF BurnReplaced
    <2> DEFINE old == [state |-> "replaced", nonce |-> burn[i].nonce, to |-> burn[i].to]
               new == [state |-> "pending", nonce |-> burn[i].nonce, to |-> to]
               marked == [burn EXCEPT ![i] = old]
    <2>2. old \in BurnTx /\ new \in BurnTx /\ burn' = Append(marked, new)
      <3>1. burn[i] \in BurnTx /\ burn \in Seq(BurnTx)
        BY <1>a
      <3>2. [burn[i] EXCEPT !.state = "replaced"] = old
        BY <3>1 DEF BurnTx
      <3>3. [burn EXCEPT ![i].state = "replaced"] = [burn EXCEPT ![i] = [burn[i] EXCEPT !.state = "replaced"]]
        BY <3>1
      <3>4. marked = [burn EXCEPT ![i].state = "replaced"]
        BY <3>2, <3>3
      <3> QED
        BY <2>1, <3>1, <3>4 DEF BurnTx
    <2>3. /\ old.nonce = burn[i].nonce /\ old.to = burn[i].to /\ old.state = "replaced"
          /\ new.nonce = burn[i].nonce /\ new.to \in {burn[i].to, "self"} /\ new.state = "pending"
      OBVIOUS
    <2> HIDE DEF old, new
    <2>4. /\ marked \in Seq(BurnTx) /\ Len(marked) = Len(burn) /\ i \in DOMAIN burn
          /\ \A j \in DOMAIN burn : j # i => marked[j] = burn[j]
          /\ marked[i] = old
      BY <1>a, <2>2
    <2> HIDE DEF marked
    <2>5. /\ burn' \in Seq(BurnTx) /\ DOMAIN burn' = 1..(Len(burn) + 1)
          /\ \A j \in DOMAIN burn : burn'[j] = marked[j]
          /\ burn'[Len(burn) + 1] = new
      BY <1>a, <2>2, <2>4
    <2>6. /\ \A j \in DOMAIN burn' : j \in DOMAIN burn \/ j = Len(burn) + 1
          /\ DOMAIN burn \subseteq DOMAIN burn' /\ Len(burn) + 1 \in DOMAIN burn' \ DOMAIN burn
      BY <1>a, <2>5
    <2>7. \A j \in DOMAIN burn :
             /\ burn'[j].nonce = burn[j].nonce /\ burn'[j].to = burn[j].to
             /\ j # i => burn'[j] = burn[j]
      BY <2>3, <2>4, <2>5
    <2>8. burn'[i].state = "replaced"
      BY <2>3, <2>4, <2>5
    <2>9. \A j \in DOMAIN burn : burn'[j].state # "replaced" => burn[j].state # "replaced" /\ j # i
      BY <2>7, <2>8
    <2>10. ASSUME NEW j \in DOMAIN burn'
           PROVE  LET n == burn'[j].nonce IN
                  /\ n \in DOMAIN burn' /\ burn'[n].nonce = n /\ burn'[n].to = "messenger"
                  /\ \E k \in DOMAIN burn' : burn'[k].nonce = n /\ burn'[k].state # "replaced"
      <3>1. PICK h \in DOMAIN burn : burn'[j].nonce = burn[h].nonce
        BY <2>3, <2>4, <2>5, <2>6, <2>7
      <3> DEFINE n == burn[h].nonce
      <3>2. /\ n \in DOMAIN burn /\ burn[n].nonce = n /\ burn[n].to = "messenger"
            /\ \E k \in DOMAIN burn : burn[k].nonce = n /\ burn[k].state # "replaced"
        BY DEF CctpInv, BurnsOK
      <3> HIDE DEF n
      <3>3. \E k \in DOMAIN burn' : burn'[k].nonce = n /\ burn'[k].state # "replaced"
        <4>1. CASE n = burn[i].nonce
          BY <2>3, <2>5, <2>6, <4>1
        <4>2. CASE n # burn[i].nonce
          BY <2>6, <2>7, <3>2, <4>2
        <4> QED
          BY <4>1, <4>2
      <3> QED
        BY <2>6, <2>7, <3>1, <3>2, <3>3 DEF n
    <2>11. ASSUME NEW j \in DOMAIN burn', NEW k \in DOMAIN burn', burn'[j].nonce = burn'[k].nonce,
                 burn'[j].state # "replaced", burn'[k].state # "replaced"
          PROVE  j = k
      <3>1. CASE j \in DOMAIN burn /\ k \in DOMAIN burn
        BY <2>7, <2>9, <2>11, <3>1 DEF CctpInv, BurnsOK
      <3>2. \A h \in DOMAIN burn : burn'[h].state # "replaced" => burn'[h].nonce # burn[i].nonce
        BY <2>0, <2>4, <2>7, <2>9 DEF CctpInv, BurnsOK
      <3>3. CASE j = Len(burn) + 1 \/ k = Len(burn) + 1
        BY <2>3, <2>5, <2>6, <2>11, <3>2, <3>3
      <3> QED
        BY <2>6, <3>1, <3>3
    <2>12. \A j \in DOMAIN burn' : burn'[j].state = "burned" => burn'[j].to = "messenger"
      <3> SUFFICES ASSUME NEW j \in DOMAIN burn', burn'[j].state = "burned"
                   PROVE  burn'[j].to = "messenger"
        OBVIOUS
      <3>1. j \in DOMAIN burn /\ j # i
        BY <2>3, <2>5, <2>6, <2>8
      <3> QED
        BY <2>7, <3>1 DEF CctpInv, BurnsOK
    <2>13. BurnsOK'
      BY <2>5, <2>10, <2>11, <2>12 DEF BurnsOK
    <2>14. \A j \in DOMAIN burn : MayBurn(j)' => MayBurn(j)
      BY <2>7, <2>8 DEF MayBurn
    <2>15. \A j : j = Len(burn) + 1 /\ MayBurn(j)' => MayBurn(i)
      <3> SUFFICES ASSUME NEW j, j = Len(burn) + 1, MayBurn(j)' PROVE MayBurn(i)
        OBVIOUS
      <3>1. new.to = "messenger"
        BY <2>5 DEF MayBurn
      <3> QED
        BY <2>0, <2>3, <3>1 DEF MayBurn
    <2>16. BurnsOnly
      <3>1. ASSUME NEW j \in DOMAIN burn', MayBurn(j)'
            PROVE  \E k \in DOMAIN burn : MayBurn(k) /\ burn[k].nonce = burn'[j].nonce
        <4>1. CASE j \in DOMAIN burn
          BY <2>7, <2>14, <3>1, <4>1
        <4>2. CASE j = Len(burn) + 1
          BY <2>3, <2>4, <2>5, <2>15, <3>1, <4>2
        <4> QED
          BY <2>6, <4>1, <4>2
      <3> QED
        BY <2>6, <2>7, <3>1 DEF BurnsOnly
    <2> QED
      BY <2>0, <2>13, <2>16, BurnsOnlyKeeps
  <1>12. ASSUME NEW i \in 1..Len(burn), BurnMines(i) \/ BurnExpires(i)
        PROVE  CctpInv'
    <2>1. burn[i].state = "pending" /\ UNCHANGED <<burnTxid, noted, funding>>
      BY <1>12 DEF BurnMines, BurnExpires
    <2>2. \E state \in {"burned", "reverted", "cancelled", "expired"} :
             /\ state = "burned" => burn[i].to = "messenger"
             /\ burn' = [burn EXCEPT ![i].state = state]
      BY <1>12, <2>1 DEF BurnMines, BurnExpires
    <2> QED
      BY <1>9, <2>1, <2>2
  <1>11. CASE ServerSeesLock \/ UNCHANGED cctpVars \/ \E n \in 1..Len(op) : OpLands(n)
    <2>1. UNCHANGED <<burn, burnTxid, noted, funding>>
      BY <1>11 DEF ServerSeesLock, cctpVars, OpLands
    <2> QED
      BY <2>1 DEF CctpInv, BurnsOK, RecordLeads, CctpCallOK, MayBurn
  <1> QED
    BY <1>2, <1>3, <1>5, <1>6, <1>7, <1>8, <1>10, <1>11, <1>12 DEF CctpNext

\* No CCTP burn is made twice unless the first left no record, and a burn leaves what its
\* settlement needs, whatever was replaced, expired, crashed or failed to be written (cctp-
\* inbound/index.ts, solana/burn.ts).
THEOREM CctpRecords == CctpSpec => [](BurnedTwiceOnlyUnrecorded /\ BurnedIsRecoverable)
  <1>1. CctpInit => CctpInv
    BY DEF CctpInit, CctpInv, BurnsOK, RecordLeads, CctpCallOK, NoCall
  <1> QED
    BY <1>1, CctpStep, RecordIsSafe, PTL DEF CctpSpec

\* A call names a burn that was sent, and nothing is sent beyond the bounds.
CctpShape ==
    /\ CctpTypeOK
    /\ Len(burn) <= MaxBurns
    /\ funding = [at |-> funding.at, id |-> funding.id, op |-> funding.op,
                  recovers |-> funding.recovers, skip |-> funding.skip]
    /\ funding.id \in 0..Len(burn)

OpTx ==
    [does : {"lock", "receive", "sweep"}, mints : 0..MaxBurns, amount : Nat,
     state : {"pending", "success", "reverted"}]
BurnTyped ==
    [state : {"pending", "burned", "reverted", "cancelled", "replaced", "expired"},
     nonce : 1..MaxBurns, to : {"messenger", "self"}]

\* Burns named after burns that were sent are typed by how many there may be.
LEMMA BurnsTyped ==
  ASSUME NEW burns \in Seq(BurnTx), \A i \in DOMAIN burns : burns[i].nonce \in DOMAIN burns,
         Len(burns) <= MaxBurns
  PROVE  burns \in Seq(BurnTyped)
  <1>1. Len(burns) \in Nat /\ DOMAIN burns = 1..Len(burns)
    OBVIOUS
  <1>2. ASSUME NEW i \in DOMAIN burns PROVE burns[i] \in BurnTyped
    <2>1. burns[i] \in BurnTx /\ burns[i].nonce \in DOMAIN burns
      BY <1>1
    <2>2. burns[i].nonce \in 1..MaxBurns
      BY <1>1, <2>1, CctpAssumption
    <2> QED
      BY <2>1, <2>2 DEF BurnTx, BurnTyped
  <1> QED
    BY <1>1, <1>2

LEMMA CctpShapeStep == CctpInv /\ CctpInv' /\ CctpShape /\ [CctpNext]_cctpVars => CctpShape'
  <1> SUFFICES ASSUME CctpInv, CctpInv', CctpShape, [CctpNext]_cctpVars PROVE CctpShape'
    OBVIOUS
  <1>1. /\ Len(burn) \in Nat /\ DOMAIN burn = 1..Len(burn) /\ burn \in Seq(BurnTx)
        /\ DOMAIN burn' = 1..Len(burn') /\ Len(burn') \in Nat
        /\ op \in Seq(OpTx) /\ Len(op) \in Nat /\ DOMAIN op = 1..Len(op)
        /\ account \in Nat /\ locks \in Nat /\ seen \in BOOLEAN /\ source \in Sources
        /\ funding.id \in 0..Len(burn) /\ MaxBurns \in Nat /\ Len(burn) <= MaxBurns
    BY CctpAssumption DEF CctpInv, BurnsOK, CctpShape, CctpTypeOK, OpTx
  <1>2. /\ funding' = [at |-> funding'.at, id |-> funding'.id, op |-> funding'.op,
                       recovers |-> funding'.recovers, skip |-> funding'.skip]
        /\ burnTxid' \in 0..Len(burn') /\ noted' \subseteq 1..Len(burn')
    BY <1>1 DEF CctpInv, CctpCallOK, RecordLeads
  <1>3. /\ source' = source /\ seen' \in BOOLEAN
        /\ Len(burn') <= MaxBurns /\ Len(burn) <= Len(burn')
    <2>1. CASE FundSwapCctp \/ FundSwapFromSolana
      <3>1. source' = source /\ seen' = seen /\ (ApproveAndBurn \/ UNCHANGED burn)
        BY <2>1 DEF FundSwapCctp, FundSwapFromSolana
      <3>2. CASE ApproveAndBurn
        <4> DEFINE new == [state |-> "pending", nonce |-> Len(burn) + 1, to |-> "messenger"]
        <4>1. burn' = Append(burn, new) /\ Len(burn) < MaxBurns
          BY <3>2 DEF ApproveAndBurn
        <4>2. new \in BurnTx
          BY <1>1 DEF BurnTx
        <4> HIDE DEF new
        <4>3. Len(burn') = Len(burn) + 1
          BY <1>1, <4>1, <4>2
        <4>4. Len(burn') <= MaxBurns /\ Len(burn) <= Len(burn')
          BY <1>1, <4>1, <4>3
        <4>5. source' = source /\ seen' \in BOOLEAN
          BY <1>1, <3>1, Zenon
        <4> QED
          BY <4>4, <4>5
      <3> QED
        BY <1>1, <3>1, <3>2
    <2>2. ASSUME NEW i \in 1..Len(burn), BurnMines(i) \/ BurnReplaced(i) \/ BurnExpires(i)
          PROVE  Len(burn') <= MaxBurns /\ Len(burn) <= Len(burn') /\ source' = source /\ seen' = seen
      <3>1. CASE BurnMines(i) \/ BurnExpires(i)
        <4>1. DOMAIN burn' = DOMAIN burn /\ UNCHANGED <<source, seen>>
          BY <3>1 DEF BurnMines, BurnExpires
        <4>2. Len(burn') = Len(burn)
          <5>1. ~(Len(burn) < Len(burn')) /\ ~(Len(burn') < Len(burn))
            <6>1. Len(burn') \in DOMAIN burn' \/ Len(burn') = 0
              BY <1>1
            <6>2. Len(burn) \in DOMAIN burn \/ Len(burn) = 0
              BY <1>1
            <6> QED
              BY <1>1, <4>1, <6>1, <6>2
          <5>2. Len(burn) \in Nat /\ Len(burn') \in Nat
            BY <1>1
          <5> QED
            BY <5>1, <5>2
        <4> QED
          BY <1>1, <4>1, <4>2
      <3>2. CASE BurnReplaced(i)
        BY <1>1, <3>2 DEF BurnReplaced
      <3> QED
        BY <2>2, <3>1, <3>2
    <2>3. CASE \/ OnBurn \/ ConfirmBurn \/ ConfirmSolanaBurn \/ FetchAttestation \/ CallFails \/ ReadNonce
               \/ SubmitCctpInboundUserOp \/ RecoverCctpInboundSwap \/ RecoverReceive \/ RecoverSweep
               \/ AwaitUserOp \/ CctpCrash \/ ServerSeesLock \/ UNCHANGED cctpVars
               \/ \E n \in 1..Len(op) : OpLands(n)
      <3>1. UNCHANGED <<burn, source>> /\ (UNCHANGED seen \/ seen' = TRUE)
        BY <2>3 DEF OnBurn, ConfirmBurn, ConfirmSolanaBurn, FetchAttestation, CallFails, ReadNonce,
           SubmitCctpInboundUserOp, RecoverCctpInboundSwap, RecoverReceive, RecoverSweep, AwaitUserOp,
           CctpCrash, ServerSeesLock, OpLands, cctpVars
      <3>2. seen' \in BOOLEAN
        BY <1>1, <3>1, Zenon
      <3>3. Len(burn') = Len(burn) /\ source' = source
        BY <3>1
      <3> QED
        BY <1>1, <3>2, <3>3
    <2> QED
      BY <1>1, <2>1, <2>2, <2>3 DEF CctpNext
  <1>4. funding'.id \in 0..Len(burn')
    <2>1. CASE UNCHANGED funding
      BY <1>1, <1>3, <2>1
    <2>2. ASSUME NEW pc, ThenAt(pc) \/ Throws PROVE funding'.id \in 0..Len(burn')
      <3>1. funding'.id = funding.id \/ funding'.id = 0
        BY <2>2 DEF ThenAt, Throws, NoCall, CctpInv, CctpCallOK
      <3> QED
        BY <1>1, <1>3, <3>1
    <2>3. CASE FundSwapCctp \/ FundSwapFromSolana
      <3>1. CASE ApproveAndBurn
        <4>1. funding'.id = Len(burn) + 1 /\ Len(burn') = Len(burn) + 1
          BY <1>1, <3>1 DEF ApproveAndBurn, NoCall
        <4> QED
          BY <1>1, <4>1
      <3>2. CASE funding' = [NoCall EXCEPT !.at = "confirm", !.id = burnTxid] /\ UNCHANGED burn
        BY <3>2 DEF NoCall, CctpShape, CctpTypeOK
      <3> QED
        BY <2>3, <3>1, <3>2 DEF FundSwapCctp, FundSwapFromSolana
    <2>4. CASE ConfirmBurn
      <3>1. CASE Throws
        BY <2>2, <3>1
      <3>2. CASE funding' = [funding EXCEPT !.at = "attest", !.id = MinedBurn[funding.id]]
        <4>1. MinedBurn[funding.id] \in DOMAIN burn
          BY <2>4, MinedBurnStands DEF ConfirmBurn, CallAt, CctpInv, CctpCallOK
        <4>2. funding'.id = MinedBurn[funding.id]
          BY <3>2 DEF CctpInv, CctpCallOK
        <4> QED
          BY <1>1, <1>3, <4>1, <4>2
      <3> QED
        BY <2>4, <3>1, <3>2 DEF ConfirmBurn
    <2>5. CASE ReadNonce \/ SubmitCctpInboundUserOp \/ RecoverReceive
      <3>1. funding'.id = funding.id
        BY <2>5 DEF ReadNonce, SubmitCctpInboundUserOp, RecoverReceive, CctpInv, CctpCallOK
      <3> QED
        BY <1>1, <1>3, <3>1
    <2>6. CASE RecoverSweep
      <3>1. funding'.id = funding.id \/ funding'.id = 0
        <4>1. CASE Throws
          BY <4>1 DEF Throws, NoCall
        <4>2. CASE funding' = [funding EXCEPT !.at = "wait", !.op = Len(op) + 1]
          BY <4>2 DEF CctpInv, CctpCallOK
        <4> QED
          BY <2>6, <4>1, <4>2 DEF RecoverSweep
      <3> QED
        BY <1>1, <1>3, <3>1
    <2>7. CASE RecoverCctpInboundSwap
      BY <2>7, <1>3 DEF RecoverCctpInboundSwap, NoCall, CctpShape, CctpTypeOK
    <2>8. CASE \/ OnBurn \/ ConfirmSolanaBurn \/ FetchAttestation \/ CallFails \/ AwaitUserOp \/ CctpCrash
      <3>1. Throws \/ \E pc : ThenAt(pc)
        BY <2>8 DEF OnBurn, ConfirmSolanaBurn, FetchAttestation, CallFails, AwaitUserOp, CctpCrash
      <3> QED
        BY <2>2, <3>1
    <2>9. CASE \/ \E i \in 1..Len(burn) : BurnMines(i) \/ BurnReplaced(i) \/ BurnExpires(i)
               \/ \E n \in 1..Len(op) : OpLands(n)
               \/ ServerSeesLock \/ UNCHANGED cctpVars
      BY <2>1, <2>9 DEF BurnMines, BurnReplaced, BurnExpires, OpLands, ServerSeesLock, cctpVars
    <2> QED
      BY <2>3, <2>4, <2>5, <2>6, <2>7, <2>8, <2>9 DEF CctpNext
  <1>5. op' \in Seq(OpTx) /\ account' \in Nat /\ locks' \in Nat
    <2>1. ASSUME NEW does \in {"lock", "receive", "sweep"}, NEW mints \in 0..MaxBurns, SendOp(does, mints)
          PROVE  op' \in Seq(OpTx)
      <3>1. [does |-> does, mints |-> mints, amount |-> account, state |-> "pending"] \in OpTx
        BY <1>1 DEF OpTx
      <3> QED
        BY <1>1, <2>1, <3>1 DEF SendOp
    <2>2. funding.id \in 0..MaxBurns /\ 0 \in 0..MaxBurns
      BY <1>1
    <2>3. CASE SubmitCctpInboundUserOp \/ RecoverReceive \/ RecoverSweep
      <3>1. UNCHANGED <<account, locks>>
        BY <2>3 DEF SubmitCctpInboundUserOp, RecoverReceive, RecoverSweep
      <3>2. UNCHANGED op \/ \E does \in {"lock", "receive", "sweep"}, mints \in 0..MaxBurns : SendOp(does, mints)
        BY <2>2, <2>3 DEF SubmitCctpInboundUserOp, RecoverReceive, RecoverSweep
      <3> QED
        BY <1>1, <2>1, <3>1, <3>2
    <2>4. ASSUME NEW n \in 1..Len(op), OpLands(n)
          PROVE  op' \in Seq(OpTx) /\ account' \in Nat /\ locks' \in Nat
      <3> DEFINE mints == IF op[n].mints = 0 THEN 0 ELSE 1
                 spends == CASE op[n].does = "lock" -> 1
                             [] op[n].does = "sweep" -> op[n].amount
                             [] OTHER -> 0
                 runs == op[n].mints \notin Minted /\ account + mints >= spends
                 state == IF runs THEN "success" ELSE "reverted"
                 landed == [op[n] EXCEPT !.state = state]
      <3>1. op[n] \in OpTx /\ mints \in Nat /\ spends \in Nat
        <4>1. op[n] \in OpTx
          BY <1>1
        <4>2. op[n].amount \in Nat /\ op[n].does \in {"lock", "receive", "sweep"}
          BY <4>1 DEF OpTx
        <4> QED
          BY <4>1, <4>2
      <3>2. /\ op' = [op EXCEPT ![n].state = state]
            /\ account' = IF runs THEN (account + mints) - spends ELSE account
            /\ locks' = IF runs /\ op[n].does = "lock" THEN locks + 1 ELSE locks
        BY <2>4 DEF OpLands
      <3>3. runs => account + mints >= spends
        OBVIOUS
      <3>4. landed \in OpTx
        <4>1. state \in {"success", "reverted"}
          OBVIOUS
        <4> HIDE DEF state
        <4> QED
          BY <3>1, <4>1 DEF OpTx
      <3>5. op' = [op EXCEPT ![n] = landed]
        BY <3>2
      <3> HIDE DEF mints, spends, runs, state, landed
      <3>6. op' \in Seq(OpTx)
        BY <1>1, <3>4, <3>5
      <3>7. account' \in Nat /\ locks' \in Nat
        BY <1>1, <3>1, <3>2, <3>3
      <3> QED
        BY <3>6, <3>7
    <2>5. CASE UNCHANGED <<op, account, locks>>
      BY <1>1, <2>5
    <2>6. CASE \/ FundSwapCctp \/ FundSwapFromSolana \/ OnBurn \/ ConfirmBurn \/ ConfirmSolanaBurn
               \/ FetchAttestation \/ CallFails \/ ReadNonce \/ RecoverCctpInboundSwap \/ AwaitUserOp
               \/ CctpCrash \/ ServerSeesLock \/ UNCHANGED cctpVars
               \/ \E i \in 1..Len(burn) : BurnMines(i) \/ BurnReplaced(i) \/ BurnExpires(i)
      BY <2>5, <2>6 DEF FundSwapCctp, FundSwapFromSolana, OnBurn, ConfirmBurn, ConfirmSolanaBurn,
         FetchAttestation, CallFails, ReadNonce, RecoverCctpInboundSwap, AwaitUserOp, CctpCrash,
         ServerSeesLock, cctpVars, BurnMines, BurnReplaced, BurnExpires
    <2> QED
      BY <2>3, <2>4, <2>6 DEF CctpNext
  <1>6. burn' \in Seq(BurnTyped)
    <2>1. burn' \in Seq(BurnTx) /\ \A i \in DOMAIN burn' : burn'[i].nonce \in DOMAIN burn'
      BY DEF CctpInv, BurnsOK
    <2> QED
      BY <1>3, <2>1, BurnsTyped
  <1>7. CctpTypeOK'
    BY <1>1, <1>2, <1>3, <1>5, <1>6 DEF CctpTypeOK, OpTx, BurnTyped
  <1> QED
    BY <1>2, <1>3, <1>4, <1>7 DEF CctpShape

\* The variables of a CCTP inbound transfer keep their types and their bounds.
THEOREM CctpTypes == CctpSpec => []CctpTypeOK
  <1>1. CctpInit => CctpInv
    BY DEF CctpInit, CctpInv, BurnsOK, RecordLeads, CctpCallOK, NoCall
  <1>2. CctpInit => CctpShape
    <2> SUFFICES ASSUME CctpInit PROVE CctpShape
      OBVIOUS
    <2>1. /\ funding = [at |-> "idle", id |-> 0, op |-> 0, recovers |-> FALSE, skip |-> FALSE]
          /\ burn = <<>> /\ op = <<>> /\ burnTxid = 0 /\ noted = {} /\ account = 0 /\ locks = 0
          /\ seen = FALSE /\ source \in Sources /\ MaxBurns \in Nat
      BY CctpAssumption DEF CctpInit, NoCall
    <2>2. burn \in Seq(BurnTyped) /\ op \in Seq(OpTx) /\ Len(burn) = 0
      BY <2>1
    <2>3. CctpTypeOK
      <3>1. seen \in BOOLEAN
        BY <2>1, Zenon
      <3>2. burnTxid \in 0..Len(burn) /\ noted \subseteq 1..Len(burn) /\ account \in Nat /\ locks \in Nat
        BY <2>1, <2>2
      <3> QED
        BY <2>1, <2>2, <3>1, <3>2 DEF CctpTypeOK, BurnTyped, OpTx
    <2> QED
      BY <2>1, <2>2, <2>3 DEF CctpShape
  <1>3. CctpShape => CctpTypeOK
    BY DEF CctpShape
  <1> QED
    BY <1>1, <1>2, <1>3, CctpStep, CctpShapeStep, PTL DEF CctpSpec

-----------------------------------------------------------------------------
(* EVM fundings.                                                           *)

Hashes == {OwnHash} \cup Invoices
LockKey == [hash : Hashes, origin : Nat]
FundTx ==
    [does : {"create", "wrapped", "cancel", "rehash", "refund"}, key : LockKey, to : Hashes,
     state : {"unsent", "pending", "success", "reverted", "replaced"}, nonce : Nat, userOp : BOOLEAN]

\* A transaction that created the lock or may still.
MayLock(j) == Creates(j) /\ tx[j].state \in {"pending", "success"}

\* A nonce is named after the transaction that used it first; one stands under it.
FundTxsOK ==
    /\ tx \in Seq(FundTx)
    /\ \A i \in DOMAIN tx :
          LET n == tx[i].nonce IN
          /\ n \in DOMAIN tx /\ tx[n].nonce = n /\ (Creates(i) => tx[n].does = "create")
          /\ \E j \in DOMAIN tx : tx[j].nonce = n /\ tx[j].state # "replaced"
    /\ \A i, j \in DOMAIN tx :
          tx[i].nonce = tx[j].nonce /\ tx[i].state # "replaced" /\ tx[j].state # "replaced" => i = j

\* Every lock was created by a transaction that succeeded, and one lock of each is where its
\* coin is: the others were moved.
FundLocksOK ==
    /\ htlc = [key \in Locks |-> htlc[key]] /\ Locks \subseteq LockKey
    /\ \A key \in Locks :
          key.origin \in DOMAIN tx /\ Creates(key.origin) /\ tx[key.origin].state = "success"
    /\ \A k, l \in Locks :
          k.origin = l.origin /\ htlc[k] # "Rehashed" /\ htlc[l] # "Rehashed" => k = l

\* A native funding that was written down and may lock is the one the record leads to.
FundRecordOK ==
    /\ evm = [fundTx |-> evm.fundTx, rehashes |-> evm.rehashes]
    /\ route = "native" =>
          /\ evm.fundTx \in DOMAIN tx \cup {0} /\ onRecord \subseteq DOMAIN tx
          /\ \A j \in DOMAIN tx :
                MayLock(j) /\ tx[j].nonce \in onRecord =>
                   evm.fundTx # 0 /\ tx[evm.fundTx].nonce = tx[j].nonce

FundCallOK ==
    /\ call = [at |-> call.at, id |-> call.id, to |-> call.to, key |-> call.key, op |-> call.op]
    /\ call.key \in LockKey /\ call.to \in Hashes
    /\ call.at = "sendOp" =>
          call.id \in DOMAIN tx /\ tx[call.id].does = "rehash" /\ tx[call.id].state = "unsent"
    /\ route = "native" =>
          /\ call.at # "relayed"
          /\ call.at = "record" =>
                /\ call.id \in DOMAIN tx /\ tx[call.id].nonce = call.id
                /\ \A j \in DOMAIN tx : ~(MayLock(j) /\ tx[j].nonce \in onRecord)
          /\ call.at = "wait" =>
                /\ call.id \in DOMAIN tx
                /\ \A j \in DOMAIN tx :
                      MayLock(j) /\ tx[j].nonce \in onRecord => tx[j].nonce = tx[call.id].nonce

FundInv == FundTxsOK /\ FundLocksOK /\ FundRecordOK /\ FundCallOK

\* The transaction that stands under a nonce: waitForReceipt follows replacements to it.
LEMMA MinedStands ==
  ASSUME FundTxsOK, NEW i \in DOMAIN tx
  PROVE  Mined[i] \in DOMAIN tx /\ tx[Mined[i]].nonce = tx[i].nonce /\ tx[Mined[i]].state # "replaced"
  <1>1. DOMAIN tx = 1..Len(tx)
    BY DEF FundTxsOK
  <1>2. \E j \in Sent : tx[j].nonce = tx[i].nonce /\ tx[j].state # "replaced"
    BY <1>1 DEF FundTxsOK, Sent
  <1> QED
    BY <1>1, <1>2 DEF Mined, Sent

\* The transactions that locked are finitely many, each of them a create that succeeded.
LEMMA OriginsOK ==
  ASSUME FundInv
  PROVE  IsFiniteSet(Origins) /\ \A o \in Origins : o \in DOMAIN tx /\ Creates(o) /\ tx[o].state = "success"
  <1>1. \A o \in Origins : o \in DOMAIN tx /\ Creates(o) /\ tx[o].state = "success"
    BY DEF Origins, FundInv, FundLocksOK
  <1>2. Origins \subseteq 1..Len(tx) /\ Len(tx) \in Nat
    BY <1>1 DEF FundInv, FundTxsOK
  <1> QED
    <2>1. IsFiniteSet(1..Len(tx))
      BY <1>2, FS_Interval
    <2> QED
      BY <1>1, <1>2, <2>1, FS_Subset

\* Two fundings that locked have two nonces, and one of them is not on record.
LEMMA FundedOnce ==
  ASSUME FundInv
  PROVE  FundedTwiceOnlyUnrecorded
  <1> SUFFICES ASSUME route = "native", \A i \in Sent : tx[i].does = "create" => i \in onRecord
               PROVE  Cardinality(Origins) \in {0, 1}
    BY DEF FundedTwiceOnlyUnrecorded
  <1>1. \A o \in Origins : o \in DOMAIN tx /\ Creates(o) /\ tx[o].state = "success"
    BY OriginsOK
  <1>2. ASSUME NEW o \in Origins
        PROVE  tx[o].nonce = tx[evm.fundTx].nonce /\ tx[o].state # "replaced"
    <2>1. tx[o].nonce \in DOMAIN tx /\ tx[tx[o].nonce].does = "create"
      BY <1>1 DEF FundInv, FundTxsOK
    <2>2. tx[o].nonce \in onRecord
      BY <2>1 DEF FundInv, FundTxsOK, Sent
    <2> QED
      BY <1>1, <2>2 DEF FundInv, FundRecordOK, MayLock
  <1>3. \A o, p \in Origins : o = p
    <2> SUFFICES ASSUME NEW o \in Origins, NEW p \in Origins PROVE o = p
      OBVIOUS
    <2>1. /\ o \in DOMAIN tx /\ p \in DOMAIN tx /\ tx[o].nonce = tx[p].nonce
          /\ tx[o].state # "replaced" /\ tx[p].state # "replaced"
      BY <1>1, <1>2
    <2> QED
      BY <2>1 DEF FundInv, FundTxsOK
  <1>4. CASE Origins = {}
    BY <1>4, FS_EmptySet
  <1>5. CASE Origins # {}
    <2>1. PICK o \in Origins : TRUE
      BY <1>5
    <2>2. Origins = {o}
      BY <1>3, <2>1
    <2> QED
      BY <2>2, FS_Singleton
  <1> QED
    BY <1>4, <1>5

\* A client with one funding and an open lock is never told that it is settled: of the
\* locks one transaction opened, one at most is not moved on, so the one it reads is open.
LEMMA FundSettled ==
  ASSUME FundInv
  PROVE  SettledIsFinal
  <1> SUFFICES ASSUME NEW key \in Locks, Is(key, "Active"), Cardinality(Origins) = 1,
                      NEW serverTxid \in ServerTxids, BuildEvmSourceRefund(serverTxid).is = "settled"
               PROVE  FALSE
    BY DEF SettledIsFinal
  <1>1. PICK i : RefundFromFundingTx(i).is = "settled"
    <2>1. Unavailable.is # "settled"
      BY DEF Unavailable
    <2> QED
      BY <2>1 DEF BuildEvmSourceRefund
  <1>2. LockFromFundingTx(i).is \in {"unavailable", "unreadable", "lock"}
    BY DEF LockFromFundingTx, Unavailable, Unreadable
  <1>3. \/ Is(LockFromFundingTx(i).key, "Redeemed") \/ Is(LockFromFundingTx(i).key, "Refunded")
    <2>1. Unreadable.is # "settled"
      BY DEF Unreadable
    <2> QED
      BY <1>1, <1>2, <2>1 DEF RefundFromFundingTx
  <1>4. PICK other \in Locks : htlc[other] = "Redeemed" \/ htlc[other] = "Refunded"
    BY <1>3 DEF Is
  <1>5. key.origin = other.origin
    <2>1. key.origin \in Origins /\ other.origin \in Origins
      BY DEF Origins
    <2>2. PICK o : Origins = {o}
      BY OriginsOK, FS_Singleton
    <2> QED
      BY <2>1, <2>2
  <1> QED
    BY <1>4, <1>5 DEF FundInv, FundLocksOK, Is

\* No transaction may lock under a nonce on record where none could, and what succeeded did.
TxsOnly ==
    /\ DOMAIN tx \subseteq DOMAIN tx'
    /\ \A j \in DOMAIN tx : tx'[j].nonce = tx[j].nonce
    /\ \A j \in DOMAIN tx : Creates(j) /\ tx[j].state = "success" =>
           Creates(j)' /\ tx'[j].state = "success"
    /\ route = "native" =>
          \A j \in DOMAIN tx' :
             MayLock(j)' /\ tx'[j].nonce \in onRecord =>
                \E k \in DOMAIN tx : MayLock(k) /\ tx[k].nonce = tx'[j].nonce

\* What is signed and not sent stays so.
UnsentLast ==
    \A j \in DOMAIN tx :
       tx[j].does = "rehash" /\ tx[j].state = "unsent" =>
          tx'[j].does = "rehash" /\ tx'[j].state = "unsent"

\* What the invariant says of the locks holds while no lock changes.
LEMMA LocksLast ==
  ASSUME FundInv, TxsOnly, UNCHANGED htlc
  PROVE  FundLocksOK'
  BY DEF FundInv, FundLocksOK, TxsOnly, Locks

\* What the invariant says of the record holds while nothing is recorded.
LEMMA RecordLasts ==
  ASSUME FundInv, TxsOnly, UNCHANGED <<route, evm, onRecord>>
  PROVE  FundRecordOK'
  BY DEF FundInv, FundRecordOK, TxsOnly

\* What the invariant says of the call holds while the call stands still.
LEMMA FundCallLasts ==
  ASSUME FundInv, TxsOnly, UnsentLast, UNCHANGED <<route, onRecord, call>>
  PROVE  FundCallOK'
  BY DEF FundInv, FundCallOK, TxsOnly, UnsentLast

\* A call that ends, or is at a step that says nothing of what it sent.
LEMMA FundCallMoves ==
  ASSUME call' = [at |-> call'.at, id |-> call'.id, to |-> call'.to, key |-> call'.key, op |-> call'.op],
         call'.key \in LockKey, call'.to \in Hashes,
         call'.at \notin {"record", "relayed", "wait", "sendOp"}
  PROVE  FundCallOK'
  BY DEF FundCallOK

\* A call that ends asks nothing.
LEMMA FundCallEnds ==
  ASSUME Ends
  PROVE  FundCallOK'
  <1>1. call' = [at |-> "idle", id |-> 0, to |-> OwnHash, key |-> NoKey, op |-> 0]
    BY DEF Ends, Idle
  <1>2. NoKey \in LockKey /\ OwnHash \in Hashes
    BY DEF NoKey, LockKey, Hashes
  <1> QED
    BY <1>1, <1>2, FundCallMoves

\* A transaction that joins the others under a nonce of its own.
LEMMA FundTxJoins ==
  ASSUME FundInv, NEW does \in {"create", "rehash", "refund"}, NEW key \in LockKey, NEW to \in Hashes,
         NEW state \in {"unsent", "pending"}, NEW userOp \in BOOLEAN,
         Send(Tx(does, key, to, state, userOp)), UNCHANGED route
  PROVE  /\ FundTxsOK' /\ TxsOnly /\ UnsentLast
         /\ NewId \in Nat
         /\ \A n : n = NewId =>
               /\ n \in DOMAIN tx' /\ n \notin DOMAIN tx
               /\ tx'[n].nonce = n /\ tx'[n].does = does /\ tx'[n].state = state
  <1> DEFINE new == [does |-> does, key |-> key, to |-> to, state |-> state, nonce |-> Len(tx) + 1,
                     userOp |-> userOp]
             last == Len(tx) + 1
  <1>1. Len(tx) \in Nat /\ DOMAIN tx = 1..Len(tx) /\ tx \in Seq(FundTx)
    BY DEF FundInv, FundTxsOK
  <1>2. tx' = Append(tx, new) /\ new \in FundTx
    BY <1>1 DEF Send, Tx, NewId, FundTx
  <1>3. new.nonce = last /\ new.does = does /\ new.state = state
    OBVIOUS
  <1> HIDE DEF new
  <1>4. /\ tx' \in Seq(FundTx) /\ DOMAIN tx' = 1..last
        /\ \A i \in DOMAIN tx : tx'[i] = tx[i]
        /\ tx'[last] = new
    BY <1>1, <1>2
  <1>5. /\ DOMAIN tx \subseteq DOMAIN tx' /\ last \in DOMAIN tx' /\ last \notin DOMAIN tx
        /\ \A i \in DOMAIN tx' : i \in DOMAIN tx \/ i = last
    BY <1>1, <1>4
  <1>a. last = NewId /\ last \in Nat
    BY <1>1 DEF NewId
  <1> HIDE DEF last
  <1>6. \A i \in DOMAIN tx : tx[i].nonce \in DOMAIN tx
    BY DEF FundInv, FundTxsOK
  <1>7. FundTxsOK'
    <2>1. ASSUME NEW i \in DOMAIN tx'
          PROVE  LET n == tx'[i].nonce IN
                 /\ n \in DOMAIN tx' /\ tx'[n].nonce = n /\ (Creates(i)' => tx'[n].does = "create")
                 /\ \E j \in DOMAIN tx' : tx'[j].nonce = n /\ tx'[j].state # "replaced"
      <3>1. CASE i \in DOMAIN tx
        <4> DEFINE n == tx[i].nonce
        <4>1. /\ n \in DOMAIN tx /\ tx[n].nonce = n /\ (Creates(i) => tx[n].does = "create")
              /\ \E j \in DOMAIN tx : tx[j].nonce = n /\ tx[j].state # "replaced"
          BY <3>1 DEF FundInv, FundTxsOK
        <4>2. tx'[i].nonce = n /\ n \in DOMAIN tx' /\ tx'[n] = tx[n] /\ (Creates(i)' <=> Creates(i))
          BY <1>4, <1>5, <3>1, <4>1 DEF Creates
        <4>3. \E j \in DOMAIN tx' : tx'[j].nonce = n /\ tx'[j].state # "replaced"
          BY <1>4, <1>5, <4>1
        <4> HIDE DEF n
        <4> QED
          BY <4>1, <4>2, <4>3
      <3>2. CASE i = last
        <4>1. tx'[i].nonce = last /\ tx'[i].does = does /\ tx'[i].state # "replaced"
          BY <1>3, <1>4, <3>2
        <4> QED
          BY <1>5, <3>2, <4>1 DEF Creates
      <3> QED
        BY <1>5, <3>1, <3>2
    <2>2. ASSUME NEW i \in DOMAIN tx', NEW j \in DOMAIN tx', tx'[i].nonce = tx'[j].nonce,
                 tx'[i].state # "replaced", tx'[j].state # "replaced"
          PROVE  i = j
      <3>1. \A k \in DOMAIN tx : tx'[k].nonce # last
        BY <1>4, <1>5, <1>6
      <3>2. CASE i \in DOMAIN tx /\ j \in DOMAIN tx
        BY <1>4, <2>2, <3>2 DEF FundInv, FundTxsOK
      <3>3. CASE i = last \/ j = last
        BY <1>3, <1>4, <1>5, <2>2, <3>1, <3>3
      <3> QED
        BY <1>5, <3>2, <3>3
    <2> QED
      BY <1>4, <2>1, <2>2 DEF FundTxsOK
  <1>8. ASSUME route = "native", NEW j \in DOMAIN tx', MayLock(j)', tx'[j].nonce \in onRecord
        PROVE  \E k \in DOMAIN tx : MayLock(k) /\ tx[k].nonce = tx'[j].nonce
    <2>1. onRecord \subseteq DOMAIN tx
      BY <1>8 DEF FundInv, FundRecordOK
    <2>2. j \in DOMAIN tx
      BY <1>3, <1>4, <1>5, <1>8, <2>1
    <2> QED
      BY <1>4, <1>8, <2>2 DEF MayLock, Creates
  <1>9. TxsOnly /\ UnsentLast
    BY <1>4, <1>5, <1>8 DEF TxsOnly, UnsentLast, Creates
  <1> QED
    BY <1>3, <1>4, <1>5, <1>7, <1>9, <1>a

\* A transaction that is sent, succeeds or reverts.
LEMMA FundTxTurns ==
  ASSUME FundInv, NEW i \in DOMAIN tx, NEW state \in {"pending", "success", "reverted"},
         tx[i].state = "pending" \/ (tx[i].state = "unsent" /\ tx[i].does = "rehash"),
         tx' = [tx EXCEPT ![i].state = state]
  PROVE  /\ FundTxsOK' /\ TxsOnly
         /\ tx[i].state = "pending" => UnsentLast
         /\ DOMAIN tx' = DOMAIN tx /\ \A j \in DOMAIN tx : Creates(j)' <=> Creates(j)
         /\ tx'[i].state = state
  <1> DEFINE turned == [does |-> tx[i].does, key |-> tx[i].key, to |-> tx[i].to, state |-> state,
                        nonce |-> tx[i].nonce, userOp |-> tx[i].userOp]
  <1>1. tx \in Seq(FundTx) /\ tx[i] \in FundTx /\ DOMAIN tx = 1..Len(tx) /\ Len(tx) \in Nat
    BY DEF FundInv, FundTxsOK
  <1>2. tx' = [tx EXCEPT ![i] = turned] /\ turned \in FundTx
    <2>1. tx' = [tx EXCEPT ![i] = [tx[i] EXCEPT !.state = state]]
      BY <1>1
    <2>2. [tx[i] EXCEPT !.state = state] = turned
      BY <1>1 DEF FundTx
    <2> QED
      BY <1>1, <2>1, <2>2 DEF FundTx
  <1>3. turned.does = tx[i].does /\ turned.nonce = tx[i].nonce /\ turned.state = state
    OBVIOUS
  <1> HIDE DEF turned
  <1>4. /\ tx' \in Seq(FundTx) /\ DOMAIN tx' = DOMAIN tx
        /\ \A j \in DOMAIN tx : j # i => tx'[j] = tx[j]
        /\ tx'[i] = turned
    BY <1>1, <1>2
  <1>5. \A j \in DOMAIN tx :
           /\ tx'[j].nonce = tx[j].nonce /\ tx'[j].does = tx[j].does
           /\ tx'[j].state = "replaced" <=> tx[j].state = "replaced"
    BY <1>3, <1>4
  <1>6. \A j \in DOMAIN tx : Creates(j)' <=> Creates(j)
    BY <1>5 DEF Creates
  <1>7. FundTxsOK'
    <2>1. ASSUME NEW k \in DOMAIN tx'
          PROVE  LET n == tx'[k].nonce IN
                 /\ n \in DOMAIN tx' /\ tx'[n].nonce = n /\ (Creates(k)' => tx'[n].does = "create")
                 /\ \E j \in DOMAIN tx' : tx'[j].nonce = n /\ tx'[j].state # "replaced"
      <3> DEFINE n == tx[k].nonce
      <3>1. /\ n \in DOMAIN tx /\ tx[n].nonce = n /\ (Creates(k) => tx[n].does = "create")
            /\ \E j \in DOMAIN tx : tx[j].nonce = n /\ tx[j].state # "replaced"
        BY <1>4 DEF FundInv, FundTxsOK
      <3>2. tx'[k].nonce = n
        BY <1>4, <1>5
      <3> HIDE DEF n
      <3> QED
        BY <1>4, <1>5, <1>6, <3>1, <3>2
    <2>2. ASSUME NEW k \in DOMAIN tx', NEW j \in DOMAIN tx', tx'[k].nonce = tx'[j].nonce,
                 tx'[k].state # "replaced", tx'[j].state # "replaced"
          PROVE  k = j
      <3>1. /\ k \in DOMAIN tx /\ j \in DOMAIN tx /\ tx[k].nonce = tx[j].nonce
            /\ tx[k].state # "replaced" /\ tx[j].state # "replaced"
        BY <1>4, <1>5, <2>2
      <3> QED
        BY <3>1 DEF FundInv, FundTxsOK
    <2> QED
      BY <1>4, <2>1, <2>2 DEF FundTxsOK
  <1>8. \A j \in DOMAIN tx : MayLock(j)' => MayLock(j)
    <2> SUFFICES ASSUME NEW j \in DOMAIN tx, MayLock(j)' PROVE MayLock(j)
      OBVIOUS
    <2>1. Creates(j)
      BY <1>6 DEF MayLock
    <2>2. CASE j = i
      BY <2>1, <2>2 DEF MayLock, Creates
    <2>3. CASE j # i
      BY <1>4, <2>1, <2>3 DEF MayLock
    <2> QED
      BY <2>2, <2>3
  <1>9. TxsOnly
    BY <1>4, <1>5, <1>6, <1>8 DEF TxsOnly
  <1>10. tx[i].state = "pending" => UnsentLast
    BY <1>4 DEF UnsentLast
  <1> QED
    BY <1>3, <1>4, <1>6, <1>7, <1>9, <1>10

\* A transaction that another replaces under its nonce.
LEMMA FundTxReplaced ==
  ASSUME FundInv, NEW i \in DOMAIN tx, Replace(i)
  PROVE  FundTxsOK' /\ TxsOnly /\ UnsentLast
  <1>1. /\ tx \in Seq(FundTx) /\ tx[i] \in FundTx /\ DOMAIN tx = 1..Len(tx) /\ Len(tx) \in Nat
        /\ tx[i].state = "pending"
    BY DEF FundInv, FundTxsOK, Replace
  <1>2. PICK does \in {tx[i].does, "cancel"} \cup (IF Creates(i) THEN {"wrapped"} ELSE {}) :
           tx' = Append([tx EXCEPT ![i].state = "replaced"],
                        [tx[i] EXCEPT !.does = does, !.key = IF does = "cancel" THEN NoKey ELSE tx[i].key])
    BY DEF Replace
  <1> DEFINE old == [does |-> tx[i].does, key |-> tx[i].key, to |-> tx[i].to, state |-> "replaced",
                     nonce |-> tx[i].nonce, userOp |-> tx[i].userOp]
             key == IF does = "cancel" THEN NoKey ELSE tx[i].key
             new == [does |-> does, key |-> key, to |-> tx[i].to, state |-> tx[i].state,
                     nonce |-> tx[i].nonce, userOp |-> tx[i].userOp]
             marked == [tx EXCEPT ![i] = old]
             last == Len(tx) + 1
  <1>3. old \in FundTx /\ new \in FundTx /\ tx' = Append(marked, new)
    <2>1. [tx EXCEPT ![i].state = "replaced"] = [tx EXCEPT ![i] = [tx[i] EXCEPT !.state = "replaced"]]
      BY <1>1
    <2>2. [tx[i] EXCEPT !.state = "replaced"] = old
      BY <1>1 DEF FundTx
    <2>3. marked = [tx EXCEPT ![i].state = "replaced"]
      BY <2>1, <2>2
    <2>4. key \in LockKey
      BY <1>1 DEF FundTx, NoKey, LockKey, Hashes
    <2>5. does \in {"create", "wrapped", "cancel", "rehash", "refund"}
      BY <1>1, <1>2 DEF FundTx
    <2> HIDE DEF key
    <2>6. [tx[i] EXCEPT !.does = does, !.key = key] = new
      <3> DEFINE step == [does |-> does, key |-> tx[i].key, to |-> tx[i].to, state |-> tx[i].state,
                          nonce |-> tx[i].nonce, userOp |-> tx[i].userOp]
      <3>1. [tx[i] EXCEPT !.does = does] = step
        BY <1>1 DEF FundTx
      <3>2. [step EXCEPT !.key = key] = new
        OBVIOUS
      <3> HIDE DEF step
      <3>3. [tx[i] EXCEPT !.does = does, !.key = key] = [[tx[i] EXCEPT !.does = does] EXCEPT !.key = key]
        BY <1>1 DEF FundTx
      <3> QED
        BY <3>1, <3>2, <3>3
    <2> QED
      BY <1>1, <1>2, <2>3, <2>4, <2>5, <2>6 DEF FundTx, key
  <1>4. /\ old.does = tx[i].does /\ old.nonce = tx[i].nonce /\ old.state = "replaced"
        /\ new.does = does /\ new.nonce = tx[i].nonce /\ new.state = "pending"
    BY <1>1
  <1>5. new.does \in {"create", "wrapped"} => Creates(i)
    BY <1>2, <1>4 DEF Creates
  <1> HIDE DEF old, new
  <1>6. /\ marked \in Seq(FundTx) /\ Len(marked) = Len(tx)
        /\ \A j \in DOMAIN tx : j # i => marked[j] = tx[j]
        /\ marked[i] = old
    BY <1>1, <1>3
  <1> HIDE DEF marked
  <1>7. /\ tx' \in Seq(FundTx) /\ DOMAIN tx' = 1..last
        /\ \A j \in DOMAIN tx : tx'[j] = marked[j]
        /\ tx'[last] = new
    BY <1>1, <1>3, <1>6
  <1>8. /\ \A j \in DOMAIN tx' : j \in DOMAIN tx \/ j = last
        /\ DOMAIN tx \subseteq DOMAIN tx' /\ last \in DOMAIN tx' /\ last \notin DOMAIN tx
    BY <1>1, <1>7
  <1> HIDE DEF last
  <1>9. /\ \A j \in DOMAIN tx :
              /\ tx'[j].nonce = tx[j].nonce /\ tx'[j].does = tx[j].does
              /\ j # i => tx'[j] = tx[j]
              /\ Creates(j)' <=> Creates(j)
        /\ tx'[i].state = "replaced"
    BY <1>4, <1>6, <1>7 DEF Creates
  <1>10. Creates(i) => tx[tx[i].nonce].does = "create"
    BY DEF FundInv, FundTxsOK
  <1>11. ASSUME NEW j \in DOMAIN tx'
         PROVE  LET n == tx'[j].nonce IN
                /\ n \in DOMAIN tx' /\ tx'[n].nonce = n /\ (Creates(j)' => tx'[n].does = "create")
                /\ \E k \in DOMAIN tx' : tx'[k].nonce = n /\ tx'[k].state # "replaced"
    <2>1. PICK h \in DOMAIN tx : tx'[j].nonce = tx[h].nonce /\ (Creates(j)' => Creates(h))
      <3>1. CASE j \in DOMAIN tx
        BY <1>9, <3>1
      <3>2. CASE j = last
        BY <1>4, <1>5, <1>7, <3>2 DEF Creates
      <3> QED
        BY <1>8, <3>1, <3>2
    <2> DEFINE n == tx[h].nonce
    <2>2. /\ n \in DOMAIN tx /\ tx[n].nonce = n /\ (Creates(h) => tx[n].does = "create")
          /\ \E k \in DOMAIN tx : tx[k].nonce = n /\ tx[k].state # "replaced"
      BY DEF FundInv, FundTxsOK
    <2>2a. tx'[j].nonce = n
      BY <2>1
    <2> HIDE DEF n
    <2>3. \E k \in DOMAIN tx' : tx'[k].nonce = n /\ tx'[k].state # "replaced"
      <3>1. CASE n = tx[i].nonce
        BY <1>4, <1>7, <1>8, <3>1
      <3>2. CASE n # tx[i].nonce
        BY <1>8, <1>9, <2>2, <3>2
      <3> QED
        BY <3>1, <3>2
    <2> QED
      BY <1>8, <1>9, <2>1, <2>2, <2>2a, <2>3
  <1>12. ASSUME NEW j \in DOMAIN tx', NEW k \in DOMAIN tx', tx'[j].nonce = tx'[k].nonce,
                tx'[j].state # "replaced", tx'[k].state # "replaced"
         PROVE  j = k
    <2>1. \A h \in DOMAIN tx : tx'[h].state # "replaced" => tx[h].state # "replaced" /\ h # i
      BY <1>9
    <2>2. CASE j \in DOMAIN tx /\ k \in DOMAIN tx
      BY <1>9, <1>12, <2>1, <2>2 DEF FundInv, FundTxsOK
    <2>3. \A h \in DOMAIN tx : tx'[h].state # "replaced" => tx'[h].nonce # tx[i].nonce
      BY <1>1, <1>9, <2>1 DEF FundInv, FundTxsOK
    <2>4. CASE j = last \/ k = last
      BY <1>4, <1>7, <1>8, <1>12, <2>3, <2>4
    <2> QED
      BY <1>8, <2>2, <2>4
  <1>13. FundTxsOK'
    BY <1>7, <1>11, <1>12 DEF FundTxsOK
  <1>14. ASSUME NEW j \in DOMAIN tx', MayLock(j)'
         PROVE  \E k \in DOMAIN tx : MayLock(k) /\ tx[k].nonce = tx'[j].nonce
    <2>1. CASE j \in DOMAIN tx
      <3>1. j # i
        BY <1>9, <1>14 DEF MayLock
      <3>2. MayLock(j)
        BY <1>9, <1>14, <2>1, <3>1 DEF MayLock
      <3> QED
        BY <1>9, <2>1, <3>2
    <2>2. CASE j = last
      <3>1. tx'[j].nonce = tx[i].nonce /\ Creates(i)
        BY <1>4, <1>5, <1>7, <1>14, <2>2 DEF MayLock, Creates
      <3> QED
        BY <1>1, <3>1 DEF MayLock
    <2> QED
      BY <1>8, <2>1, <2>2
  <1>15. TxsOnly
    BY <1>1, <1>8, <1>9, <1>14 DEF TxsOnly
  <1>16. UnsentLast
    BY <1>1, <1>9 DEF UnsentLast
  <1> QED
    BY <1>13, <1>15, <1>16

\* A lock that a step reads is one of the locks.
LEMMA LockIsKey ==
  ASSUME FundInv, NEW key, NEW state, Is(key, state)
  PROVE  key \in LockKey
  BY DEF FundInv, FundLocksOK, Is

\* The lock a refund is built for is one of the locks.
LEMMA RefundLock ==
  ASSUME FundInv, NEW s, BuildEvmSourceRefund(s).is = "lock"
  PROVE  BuildEvmSourceRefund(s).key \in Locks
  <1>1. PICK i : BuildEvmSourceRefund(s) = RefundFromFundingTx(i)
    BY DEF BuildEvmSourceRefund, Unavailable
  <1>2. /\ RefundFromFundingTx(i) = LockFromFundingTx(i)
        /\ LockFromFundingTx(i).is = "lock" => Is(LockFromFundingTx(i).key, "Active")
    <2>1. LockFromFundingTx(i) = [is |-> LockFromFundingTx(i).is, key |-> LockFromFundingTx(i).key]
      BY DEF LockFromFundingTx, Unavailable, Unreadable
    <2>2. Unreadable.is # "lock" /\ [LockFromFundingTx(i) EXCEPT !.is = "settled"].is # "lock"
      BY <2>1 DEF Unreadable
    <2> QED
      BY <1>1, <2>2 DEF RefundFromFundingTx
  <1> QED
    BY <1>1, <1>2 DEF Is

LEMMA RefundKey ==
  ASSUME FundInv, NEW s, BuildEvmSourceRefund(s).is = "lock"
  PROVE  /\ BuildEvmSourceRefund(s).key \in LockKey
         /\ BuildEvmSourceRefund(s).key.origin \in DOMAIN tx
  BY RefundLock DEF FundInv, FundLocksOK

\* Of some places one is the first.
LEMMA FirstOfPlaces ==
  ASSUME NEW places \in SUBSET Nat, places # {}
  PROVE  FirstOf(places) \in places
  <1>1. PICK n \in places : \A m \in places : ~(<<m, n>> \in OpToRel(<, Nat))
    BY WFMin, NatLessThanWellFounded
  <1>2. ASSUME NEW m \in places, m < n PROVE FALSE
    <2>1. <<m, n>> \in OpToRel(<, Nat)
      BY <1>2 DEF OpToRel
    <2> QED
      BY <1>1, <2>1
  <1>3. \A m \in places : n <= m
    BY <1>2
  <1> QED
    BY <1>3 DEF FirstOf

\* A lock that may be moved on is open, and one that the chain shows.
LEMMA MovableLock ==
  ASSUME FundInv, NEW move \in Movable
  PROVE  /\ \E i : LockFromFundingTx(i).is = "lock" /\ move.key = LockFromFundingTx(i).key
         /\ Is(move.key, "Active") /\ move.to \in Invoices
  <1>1. PICK s \in ServerTxids, to \in Invoices : move = [key |-> OwnLockForRehash(s), to |-> to]
    BY DEF Movable, Authorized
  <1> DEFINE tried == Tried(s)
             own == {n \in DOMAIN tried : LockFromFundingTx(tried[n]).is = "lock"
                                            /\ Is(LockFromFundingTx(tried[n]).key, "Active")}
  <1>2. DOMAIN tried \subseteq Nat
    <2>0. EvmSourceLeg.fundTxids = IF evm.fundTx = 0 THEN <<>> ELSE <<evm.fundTx>>
      BY DEF EvmSourceLeg
    <2> DEFINE some == {evm.fundTx, s}
    <2>1. EvmSourceLeg.fundTxids \in Seq(some) /\ <<s>> \in Seq(some) /\ <<>> \in Seq(some)
      <3>1. \A x \in some : <<x>> \in Seq(some)
        OBVIOUS
      <3>2. evm.fundTx \in some /\ s \in some
        OBVIOUS
      <3>3. <<>> \in Seq(some)
        OBVIOUS
      <3> HIDE DEF some
      <3>4. <<evm.fundTx>> \in Seq(some) /\ <<s>> \in Seq(some)
        BY <3>1, <3>2
      <3> QED
        BY <2>0, <3>3, <3>4
    <2> HIDE DEF some
    <2>2. tried \in Seq(some)
      BY <2>1 DEF Tried
    <2> QED
      BY <2>2
  <1>3. own # {}
    <2>1. move.key # NoKey /\ move.key = OwnLockForRehash(s)
      BY <1>1 DEF Movable
    <2> QED
      BY <2>1 DEF OwnLockForRehash
  <1>4. FirstOf(own) \in own
    <2>1. own \in SUBSET Nat
      BY <1>2
    <2> HIDE DEF own
    <2> QED
      BY <1>3, <2>1, FirstOfPlaces
  <1>5. move.key = LockFromFundingTx(tried[FirstOf(own)]).key
    BY <1>1, <1>3 DEF OwnLockForRehash
  <1> QED
    BY <1>1, <1>4, <1>5

\* A lock that may be moved on is one of the locks, and moves to one of the hashes.
LEMMA MovableKey ==
  ASSUME FundInv, NEW move \in Movable
  PROVE  move.key \in LockKey /\ move.to \in Hashes
  BY MovableLock, LockIsKey DEF Hashes

\* A step that leaves the fundings alone, on the chain and on record.
LEMMA FundsLast ==
  ASSUME FundInv, UNCHANGED <<route, tx, htlc>>
  PROVE  /\ FundTxsOK' /\ FundLocksOK' /\ TxsOnly /\ UnsentLast
         /\ UNCHANGED <<evm, onRecord>> => FundRecordOK'
  <1>1. TxsOnly /\ UnsentLast
    BY DEF TxsOnly, UnsentLast, MayLock, Creates
  <1>2. FundTxsOK'
    BY DEF FundInv, FundTxsOK, Creates
  <1> QED
    BY <1>1, <1>2, LocksLast, RecordLasts

\* What a step may write of the rehashes says nothing of the fundings.
LEMMA RehashesOnly ==
  ASSUME FundInv, NEW rehashes, evm' = [evm EXCEPT !.rehashes = rehashes] \/ evm' = evm,
         UNCHANGED <<route, onRecord>>, TxsOnly
  PROVE  FundRecordOK'
  <1>1. evm'.fundTx = evm.fundTx /\ evm' = [fundTx |-> evm'.fundTx, rehashes |-> evm'.rehashes]
    BY DEF FundInv, FundRecordOK
  <1> QED
    BY <1>1 DEF FundInv, FundRecordOK, TxsOnly

\* A native funding that goes on record while no other on record may lock.
LEMMA FundsOnRecord ==
  ASSUME FundInv, UNCHANGED <<route, tx>>, NEW i, RecordEvmFunding(i),
         route = "native" =>
            /\ i \in DOMAIN tx
            /\ \A j \in DOMAIN tx : MayLock(j) /\ tx[j].nonce \in onRecord => tx[j].nonce = tx[i].nonce
  PROVE  FundRecordOK'
  <1>1. \A j : MayLock(j)' <=> MayLock(j)
    BY DEF MayLock, Creates
  <1>2. CASE UNCHANGED <<evm, onRecord>>
    BY <1>1, <1>2 DEF FundInv, FundRecordOK
  <1>3. CASE evm' = [evm EXCEPT !.fundTx = i] /\ onRecord' = onRecord \cup {i}
    <2>1. evm'.fundTx = i /\ evm' = [fundTx |-> evm'.fundTx, rehashes |-> evm'.rehashes]
      BY <1>3 DEF FundInv, FundRecordOK
    <2>2. ASSUME route = "native"
          PROVE  /\ i \in DOMAIN tx /\ i # 0 /\ onRecord' \subseteq DOMAIN tx
                 /\ \A j \in DOMAIN tx : MayLock(j) /\ tx[j].nonce \in onRecord' =>
                        tx[j].nonce = tx[i].nonce
      <3>1. i \in DOMAIN tx /\ i # 0
        <4>1. DOMAIN tx = 1..Len(tx)
          BY DEF FundInv, FundTxsOK
        <4> QED
          BY <2>2, <4>1
      <3>2. \A j \in DOMAIN tx : tx[j].nonce = i => tx[i].nonce = i
        BY DEF FundInv, FundTxsOK
      <3> QED
        BY <1>3, <2>2, <3>1, <3>2 DEF FundInv, FundRecordOK
    <2> QED
      BY <1>1, <2>1, <2>2 DEF FundRecordOK
  <1> QED
    BY <1>2, <1>3 DEF RecordEvmFunding

\* An open lock is claimed, refunded or moved on; the others of its transaction stay moved.
LEMMA LockEnds ==
  ASSUME FundInv, TxsOnly, NEW key \in Locks, htlc[key] = "Active",
         NEW state \in {"Redeemed", "Refunded", "Rehashed"}, htlc' = [htlc EXCEPT ![key] = state]
  PROVE  FundLocksOK'
  <1>1. /\ Locks' = Locks /\ htlc' = [k \in Locks |-> htlc'[k]]
        /\ \A k \in Locks : htlc'[k] = IF k = key THEN state ELSE htlc[k]
    BY DEF Locks, FundInv, FundLocksOK
  <1>2. \A k \in Locks : htlc'[k] # "Rehashed" => htlc[k] # "Rehashed"
    BY <1>1
  <1> QED
    BY <1>1, <1>2 DEF FundInv, FundLocksOK, TxsOnly

\* What a transaction that succeeds does to the locks.
LEMMA FundEffect ==
  ASSUME FundInv, TxsOnly, NEW i \in DOMAIN tx, tx[i].state = "pending", CanSucceed(i),
         htlc' = Effect(i), tx'[i].state = "success", DOMAIN tx' = DOMAIN tx,
         \A j \in DOMAIN tx : Creates(j)' <=> Creates(j)
  PROVE  FundLocksOK'
  <1>0. tx \in Seq(FundTx) /\ tx[i] \in FundTx
    BY DEF FundInv, FundTxsOK
  <1>1. CASE Creates(i)
    <2> DEFINE new == [hash |-> OwnHash, origin |-> i]
    <2>1. htlc' = Opened(new, htlc)
      BY <1>1 DEF Effect, Creates
    <2>2. new.origin = i /\ new \in LockKey
      BY <1>0 DEF LockKey, Hashes, FundInv, FundTxsOK
    <2>3. \A k \in Locks : k.origin # i /\ k # new
      <3>1. \A k \in Locks : tx[k.origin].state = "success"
        BY DEF FundInv, FundLocksOK
      <3> QED
        BY <2>2, <3>1
    <2> HIDE DEF new
    <2>4. /\ Locks' = Locks \cup {new} /\ htlc' = [k \in Locks' |-> htlc'[k]]
          /\ \A k \in Locks : htlc'[k] = htlc[k]
      BY <2>1, <2>3 DEF Locks, Opened
    <2> QED
      BY <1>1, <2>2, <2>3, <2>4 DEF FundInv, FundLocksOK, TxsOnly
  <1>2. CASE tx[i].does = "rehash"
    <2> DEFINE new == Moved(i)
               old == tx[i].key
    <2>1. htlc' = Opened(new, [htlc EXCEPT ![old] = "Rehashed"])
      BY <1>2 DEF Effect, Creates
    <2>2. old \in Locks /\ htlc[old] = "Active" /\ new \notin Locks
      BY <1>2 DEF CanSucceed, Is
    <2>3. old \in LockKey /\ new.origin = old.origin /\ new \in LockKey
      BY <1>0 DEF Moved, FundTx, LockKey
    <2> HIDE DEF new, old
    <2>4. /\ Locks' = Locks \cup {new} /\ htlc' = [k \in Locks' |-> htlc'[k]]
          /\ \A k \in Locks : htlc'[k] = IF k = old THEN "Rehashed" ELSE htlc[k]
      <3> DEFINE left == [htlc EXCEPT ![old] = "Rehashed"]
      <3>0. /\ DOMAIN left = Locks
            /\ \A k \in Locks : left[k] = IF k = old THEN "Rehashed" ELSE htlc[k]
        BY <2>2 DEF Locks
      <3>1. DOMAIN htlc' = {new} \cup Locks /\ \A k \in Locks : htlc'[k] = left[k]
        BY <2>1, <2>2, <3>0 DEF Opened, left
      <3>2. htlc' = [k \in Locks' |-> htlc'[k]]
        BY <2>1 DEF Opened, Locks
      <3> QED
        BY <3>0, <3>1, <3>2 DEF Locks
    <2>5. \A k \in Locks :
             k.origin \in DOMAIN tx' /\ Creates(k.origin)' /\ tx'[k.origin].state = "success"
      BY DEF FundInv, FundLocksOK, TxsOnly
    <2>6. \A k \in Locks : k.origin = new.origin /\ htlc'[k] # "Rehashed" => FALSE
      BY <2>2, <2>3, <2>4 DEF FundInv, FundLocksOK
    <2>7. \A k, l \in Locks :
             k.origin = l.origin /\ htlc'[k] # "Rehashed" /\ htlc'[l] # "Rehashed" => k = l
      BY <2>4 DEF FundInv, FundLocksOK
    <2>8. \A k, l \in Locks' :
             k.origin = l.origin /\ htlc'[k] # "Rehashed" /\ htlc'[l] # "Rehashed" => k = l
      BY <2>4, <2>6, <2>7
    <2>9. \A k \in Locks' :
             /\ k \in LockKey /\ k.origin \in DOMAIN tx'
             /\ Creates(k.origin)' /\ tx'[k.origin].state = "success"
      BY <2>2, <2>3, <2>4, <2>5 DEF FundInv, FundLocksOK
    <2> QED
      BY <2>4, <2>8, <2>9 DEF FundLocksOK
  <1>3. CASE tx[i].does = "refund"
    <2>1. /\ htlc' = [htlc EXCEPT ![tx[i].key] = "Refunded"]
          /\ tx[i].key \in Locks /\ htlc[tx[i].key] = "Active"
      BY <1>3 DEF Effect, Creates, CanSucceed, Is
    <2> QED
      BY <2>1, LockEnds
  <1>4. CASE ~Creates(i) /\ tx[i].does \notin {"rehash", "refund"}
    <2>1. UNCHANGED htlc
      BY <1>4 DEF Effect
    <2> QED
      BY <2>1, LocksLast
  <1> QED
    BY <1>1, <1>2, <1>3, <1>4

\* The invariant is inductive, one step of the proof per action.
LEMMA FundStep == FundInv /\ [FundingNext]_fundingVars => FundInv'
  <1> SUFFICES ASSUME FundInv, [FundingNext]_fundingVars PROVE FundInv'
    OBVIOUS
  <1>a. UNCHANGED fundingVars => FundInv'
    BY FundsLast, FundCallLasts DEF fundingVars, FundInv
  <1>b. NoKey \in LockKey /\ OwnHash \in Hashes
    BY DEF NoKey, LockKey, Hashes
  <1>1. CASE FundNativeLock \/ FundSwap \/ FundSwapGasless
    <2>0. /\ Send(LockTx) /\ UNCHANGED <<route, htlc, evm, onRecord>>
          /\ \/ /\ call' = [Idle EXCEPT !.at = "record", !.id = NewId]
                /\ route = "native" => EnsureNativeFundingFailed
             \/ call' = [Idle EXCEPT !.at = "relayed", !.id = NewId] /\ route # "native"
             \/ UNCHANGED call
      BY <1>1 DEF FundNativeLock, FundSwap, FundSwapGasless, Starts
    <2>1. /\ FundTxsOK' /\ TxsOnly /\ UnsentLast
          /\ \A n : n = NewId => n \in DOMAIN tx' /\ tx'[n].nonce = n /\ n \notin DOMAIN tx
      BY <1>b, <2>0, FundTxJoins DEF LockTx
    <2>2. FundLocksOK' /\ FundRecordOK'
      BY <2>0, <2>1, LocksLast, RecordLasts
    <2>3. CASE UNCHANGED call
      BY <2>0, <2>1, <2>2, <2>3, FundCallLasts DEF FundInv
    <2>4. CASE call' = [Idle EXCEPT !.at = "relayed", !.id = NewId] /\ route # "native"
      <3>1. call' = [at |-> "relayed", id |-> NewId, to |-> OwnHash, key |-> NoKey, op |-> 0]
        BY <2>4 DEF Idle
      <3>a. /\ call'.at = "relayed" /\ call'.key \in LockKey /\ call'.to \in Hashes
            /\ call' = [at |-> call'.at, id |-> call'.id, to |-> call'.to, key |-> call'.key,
                   op |-> call'.op]
        BY <1>b, <3>1
      <3>2. FundCallOK'
        BY <2>0, <2>4, <3>a DEF FundCallOK
      <3> QED
        BY <2>1, <2>2, <3>2 DEF FundInv
    <2>5. CASE /\ call' = [Idle EXCEPT !.at = "record", !.id = NewId]
               /\ route = "native" => EnsureNativeFundingFailed
      <3>1. call' = [at |-> "record", id |-> NewId, to |-> OwnHash, key |-> NoKey, op |-> 0]
        BY <2>5 DEF Idle
      <3>2. ASSUME route = "native", NEW j \in DOMAIN tx, MayLock(j), tx[j].nonce \in onRecord
            PROVE  FALSE
        <4>1. evm.fundTx # 0 /\ evm.fundTx \in DOMAIN tx /\ tx[evm.fundTx].nonce = tx[j].nonce
          BY <3>2 DEF FundInv, FundRecordOK
        <4>2. ProvablyFailed(evm.fundTx)
          <5>1. EvmSourceLeg.fundTxids = <<evm.fundTx>>
            BY <4>1 DEF EvmSourceLeg
          <5>2. evm.fundTx \in ToSet(EvmSourceLeg.fundTxids)
            BY <5>1 DEF ToSet
          <5> QED
            BY <2>5, <3>2, <5>2 DEF EnsureNativeFundingFailed
        <4>3. Mined[evm.fundTx] = j
          <5>1. /\ Mined[evm.fundTx] \in DOMAIN tx /\ tx[Mined[evm.fundTx]].nonce = tx[j].nonce
                /\ tx[Mined[evm.fundTx]].state # "replaced"
            BY <4>1, MinedStands DEF FundInv
          <5> QED
            BY <3>2, <5>1 DEF MayLock, FundInv, FundTxsOK
        <4>4. ~Creates(j)
          BY <3>2, <4>2, <4>3
             DEF ProvablyFailed, HasReceipt, Succeeded, ProvesNoLock, SwapCreated, MayLock
        <4> QED
          BY <3>2, <4>4 DEF MayLock
      <3>3. FundCallOK'
        BY <1>b, <2>0, <2>1, <3>1, <3>2 DEF FundCallOK, TxsOnly
      <3> QED
        BY <2>1, <2>2, <3>3 DEF FundInv
    <2> QED
      BY <2>0, <2>3, <2>4, <2>5
  <1>2. CASE RecordSent
    <2>1. UNCHANGED <<route, tx, htlc>> /\ RecordEvmFunding(call.id) /\ call.at \in {"record", "relayed"}
      BY <1>2 DEF RecordSent
    <2>2. \A j : MayLock(j)' <=> MayLock(j)
      BY <2>1 DEF MayLock, Creates
    <2>3. route = "native" =>
             /\ call.at = "record" /\ call.id \in DOMAIN tx /\ tx[call.id].nonce = call.id
             /\ \A j \in DOMAIN tx : ~(MayLock(j) /\ tx[j].nonce \in onRecord)
      BY <2>1 DEF FundInv, FundCallOK
    <2>4. FundRecordOK'
      BY <2>1, <2>3, FundsOnRecord
    <2>5. onRecord' \subseteq onRecord \cup {call.id}
      BY <2>1 DEF RecordEvmFunding
    <2>6. CASE call' = [call EXCEPT !.at = "wait"]
      <3>1. call' = [at |-> "wait", id |-> call.id, to |-> call.to, key |-> call.key, op |-> call.op]
        BY <2>6 DEF FundInv, FundCallOK
      <3>2. /\ call'.at = "wait" /\ call'.id = call.id /\ call'.key \in LockKey /\ call'.to \in Hashes
            /\ call' = [at |-> call'.at, id |-> call'.id, to |-> call'.to, key |-> call'.key,
                   op |-> call'.op]
        BY <3>1 DEF FundInv, FundCallOK
      <3>3. route = "native" =>
               \A j \in DOMAIN tx : MayLock(j) /\ tx[j].nonce \in onRecord' =>
                   tx[j].nonce = tx[call.id].nonce
        BY <2>3, <2>5
      <3>4. FundCallOK'
        BY <2>1, <2>2, <2>3, <3>2, <3>3 DEF FundCallOK
      <3> QED
        BY <2>1, <2>4, <3>4, FundsLast DEF FundInv
    <2>7. CASE Ends
      BY <2>1, <2>4, <2>7, FundsLast, FundCallEnds DEF FundInv
    <2> QED
      BY <1>2, <2>6, <2>7 DEF RecordSent, Goes
  <1>3. CASE AwaitFunding
    <2> DEFINE i == call.id
               m == Mined[i]
    <2>1. UNCHANGED <<route, tx, htlc>> /\ Ends /\ call.at = "wait" /\ HasReceipt(i)
      BY <1>3 DEF AwaitFunding, At
    <2>2. route = "native" =>
             /\ i \in DOMAIN tx
             /\ \A j \in DOMAIN tx : MayLock(j) /\ tx[j].nonce \in onRecord => tx[j].nonce = tx[i].nonce
      BY <2>1 DEF FundInv, FundCallOK
    <2>3. route = "native" =>
             m \in DOMAIN tx /\ tx[m].nonce = tx[i].nonce /\ tx[m].state # "replaced"
      BY <2>2, MinedStands DEF FundInv
    <2>4. CASE UNCHANGED <<evm, onRecord>>
      BY <2>1, <2>4, FundsLast, FundCallEnds DEF FundInv
    <2>5. CASE RecordEvmFunding(m)
      <3>1. FundRecordOK'
        BY <2>1, <2>2, <2>3, <2>5, FundsOnRecord
      <3> QED
        BY <2>1, <3>1, FundsLast, FundCallEnds DEF FundInv
    <2>6. CASE ForgetEvmFunding(i) /\ ~MayLock(m) /\ route = "native"
      <3>1. \A j \in DOMAIN tx : ~(MayLock(j) /\ tx[j].nonce \in onRecord)
        <4> SUFFICES ASSUME NEW j \in DOMAIN tx, MayLock(j), tx[j].nonce \in onRecord PROVE FALSE
          OBVIOUS
        <4>1. tx[j].nonce = tx[m].nonce /\ tx[j].state # "replaced"
          BY <2>2, <2>3, <2>6 DEF MayLock
        <4>2. j = m
          BY <2>3, <2>6, <4>1 DEF FundInv, FundTxsOK
        <4> QED
          BY <2>6, <4>2
      <3>2. onRecord' = onRecord /\ (evm' = [evm EXCEPT !.fundTx = 0] \/ evm' = evm)
        BY <2>6 DEF ForgetEvmFunding
      <3>3. /\ evm'.fundTx \in {0, evm.fundTx}
            /\ evm' = [fundTx |-> evm'.fundTx, rehashes |-> evm'.rehashes]
        BY <3>2 DEF FundInv, FundRecordOK
      <3>4. \A j : MayLock(j)' <=> MayLock(j)
        BY <2>1 DEF MayLock, Creates
      <3>5. FundRecordOK'
        BY <2>1, <3>1, <3>2, <3>3, <3>4 DEF FundInv, FundRecordOK
      <3> QED
        BY <2>1, <3>5, FundsLast, FundCallEnds DEF FundInv
    <2>7. \/ UNCHANGED <<evm, onRecord>>
          \/ RecordEvmFunding(m)
          \/ ForgetEvmFunding(i) /\ ~MayLock(m) /\ route = "native"
      <3>1. ~Succeeded(i) => ~MayLock(m)
        BY <2>1 DEF Succeeded, HasReceipt, MayLock
      <3>2. ProvesNoLock(i) => ~MayLock(m)
        BY DEF ProvesNoLock, SwapCreated, MayLock
      <3> QED
        BY <1>3, <3>1, <3>2 DEF AwaitFunding, ForgetsFailed
    <2> QED
      BY <2>4, <2>5, <2>6, <2>7
  <1>4. CASE WaitFails \/ AwaitRefund \/ Crash
    <2>1. UNCHANGED <<route, tx, htlc, evm, onRecord>> /\ Ends
      BY <1>4 DEF WaitFails, AwaitRefund, Crash
    <2> QED
      BY <2>1, FundsLast, FundCallEnds DEF FundInv
  <1>5. CASE RetryWithSigner
    <2>1. UNCHANGED <<route, htlc, evm, onRecord>>
      BY <1>5 DEF RetryWithSigner
    <2>2. PICK move \in Movable :
             /\ Send(RehashTx(move, "pending", FALSE))
             /\ call' = [Idle EXCEPT !.at = "recordRehash", !.id = NewId, !.key = move.key,
                    !.to = move.to]
      BY <1>5 DEF RetryWithSigner, Starts
    <2>3. move.key \in LockKey /\ move.to \in Hashes
      BY MovableKey
    <2>4. FundTxsOK' /\ TxsOnly /\ UnsentLast
      BY <2>1, <2>2, <2>3, FundTxJoins DEF RehashTx
    <2>5. call' = [at |-> "recordRehash", id |-> NewId, to |-> move.to, key |-> move.key, op |-> 0]
      BY <2>2 DEF Idle
    <2>6. FundCallOK'
      BY <2>3, <2>5, FundCallMoves
    <2> QED
      BY <2>1, <2>4, <2>6, LocksLast, RecordLasts DEF FundInv
  <1>6. CASE \/ RecordRehash \/ AwaitRehash \/ RetrySponsored
             \/ PrepareFails \/ RehashOpSubmitted \/ RehashOpIncluded
    <2>1. UNCHANGED <<route, tx, htlc, onRecord>>
      BY <1>6
         DEF RecordRehash, AwaitRehash, RetrySponsored, PrepareFails, RehashOpSubmitted,
             RehashOpIncluded
    <2>2. \E rehashes : evm' = [evm EXCEPT !.rehashes = rehashes] \/ evm' = evm
      <3>1. CASE RecordRehash
        BY <3>1 DEF RecordRehash, WithRehash
      <3>2. CASE AwaitRehash
        BY <3>2 DEF AwaitRehash, UpdateEvmRehash, WithRehash
      <3>3. CASE RetrySponsored
        BY <3>3 DEF RetrySponsored, WithRehash
      <3>4. CASE PrepareFails
        BY <3>4 DEF PrepareFails, DropPendingRehash
      <3>5. CASE RehashOpSubmitted
        BY <3>5 DEF RehashOpSubmitted, UpdateEvmRehash, WithRehash
      <3>6. CASE RehashOpIncluded
        BY <3>6 DEF RehashOpIncluded, UpdateEvmRehash, WithRehash
      <3> QED
        BY <1>6, <3>1, <3>2, <3>3, <3>4, <3>5, <3>6
    <2>3. FundRecordOK'
      BY <2>1, <2>2, FundsLast, RehashesOnly
    <2>4. FundCallOK'
      <3>1. CASE RetrySponsored
        <4>1. PICK move \in Movable :
                 call' = [Idle EXCEPT !.at = "prepare", !.key = move.key, !.to = move.to]
          BY <3>1 DEF RetrySponsored, Starts
        <4>2. call' = [at |-> "prepare", id |-> 0, to |-> move.to, key |-> move.key, op |-> 0]
          BY <4>1 DEF Idle
        <4> QED
          BY <4>2, MovableKey, FundCallMoves
      <3>2. ASSUME NEW step \in {"waitRehash", "waitOp"}, Goes(step)
            PROVE  FundCallOK'
        <4>1. call' = [at |-> step, id |-> call.id, to |-> call.to, key |-> call.key, op |-> call.op]
          BY <3>2 DEF Goes, FundInv, FundCallOK
        <4> QED
          BY <4>1, FundCallMoves DEF FundInv, FundCallOK
      <3>3. CASE RecordRehash
        BY <3>2, <3>3, FundCallEnds DEF RecordRehash
      <3>4. CASE AwaitRehash
        BY <3>4, FundCallEnds DEF AwaitRehash
      <3>5. CASE PrepareFails
        BY <3>5, FundCallEnds DEF PrepareFails
      <3>6. CASE RehashOpSubmitted
        BY <3>2, <3>6 DEF RehashOpSubmitted
      <3>7. CASE RehashOpIncluded
        BY <3>7, FundCallEnds DEF RehashOpIncluded
      <3> QED
        BY <1>6, <3>1, <3>3, <3>4, <3>5, <3>6, <3>7
    <2> QED
      BY <2>1, <2>3, <2>4, FundsLast DEF FundInv
  <1>7. CASE SignRehashOp
    <2>1. Send(RehashTx(call, "unsent", TRUE)) /\ UNCHANGED <<route, htlc, onRecord>>
      BY <1>7 DEF SignRehashOp
    <2>2. call.key \in LockKey /\ call.to \in Hashes
      BY DEF FundInv, FundCallOK
    <2>3. /\ FundTxsOK' /\ TxsOnly /\ UnsentLast
          /\ \A n : n = NewId => n \in DOMAIN tx' /\ tx'[n].does = "rehash" /\ tx'[n].state = "unsent"
      BY <2>1, <2>2, FundTxJoins DEF RehashTx
    <2>4. \E rehashes : evm' = [evm EXCEPT !.rehashes = rehashes] \/ evm' = evm
      BY <1>7 DEF SignRehashOp, UpdateEvmRehash, WithRehash
    <2>5. PICK o \in {call.op, NewId} :
             call' = [at |-> "sendOp", id |-> NewId, to |-> call.to, key |-> call.key, op |-> o]
      <3>1. CASE call' = [call EXCEPT !.at = "sendOp", !.id = NewId, !.op = NewId]
        BY <3>1 DEF FundInv, FundCallOK
      <3>2. CASE call' = [call EXCEPT !.at = "sendOp", !.id = NewId]
        BY <3>2 DEF FundInv, FundCallOK
      <3> QED
        BY <1>7, <3>1, <3>2 DEF SignRehashOp
    <2>6. FundCallOK'
      BY <2>2, <2>3, <2>5 DEF FundCallOK
    <2> QED
      BY <2>1, <2>3, <2>4, <2>6, LocksLast, RehashesOnly DEF FundInv
  <1>8. CASE SendRehashOp
    <2>1. /\ call.id \in DOMAIN tx /\ tx[call.id].does = "rehash" /\ tx[call.id].state = "unsent"
          /\ UNCHANGED <<route, htlc, evm, onRecord>>
      BY <1>8 DEF SendRehashOp, At, FundInv, FundCallOK
    <2>2. FundTxsOK' /\ TxsOnly
      BY <1>8, <2>1, FundTxTurns, FundsLast DEF SendRehashOp
    <2>3. CASE Goes("submitted")
      <3>1. call' = [at |-> "submitted", id |-> call.id, to |-> call.to, key |-> call.key,
                op |-> call.op]
        BY <2>3 DEF Goes, FundInv, FundCallOK
      <3>2. FundCallOK'
        BY <3>1, FundCallMoves DEF FundInv, FundCallOK
      <3> QED
        BY <2>1, <2>2, <3>2, LocksLast, RecordLasts DEF FundInv
    <2>4. CASE Ends
      BY <2>1, <2>2, <2>4, FundCallEnds, LocksLast, RecordLasts DEF FundInv
    <2> QED
      BY <1>8, <2>3, <2>4 DEF SendRehashOp
  <1>9. ASSUME NEW key \in LockKey, Send(RefundTx(key)), UNCHANGED <<route, htlc>>,
               call' = [Idle EXCEPT !.at = "waitRefund", !.id = NewId],
               \/ UNCHANGED <<evm, onRecord>>
               \/ /\ evm.fundTx = 0
                  /\ \E i \in ServerTxids : i = key.origin /\ i \in DOMAIN tx /\ RecordEvmFunding(i)
        PROVE  FundInv'
    <2>1. FundTxsOK' /\ TxsOnly /\ UnsentLast
      BY <1>9, <1>b, FundTxJoins DEF RefundTx
    <2>2. FundCallOK'
      <3>1. call' = [at |-> "waitRefund", id |-> NewId, to |-> OwnHash, key |-> NoKey, op |-> 0]
        BY <1>9 DEF Idle
      <3> QED
        BY <1>b, <3>1, FundCallMoves
    <2>3. FundRecordOK'
      <3>1. CASE UNCHANGED <<evm, onRecord>>
        BY <1>9, <2>1, <3>1, RecordLasts
      <3>2. ASSUME evm.fundTx = 0, NEW i \in DOMAIN tx, evm' = [evm EXCEPT !.fundTx = i],
                   onRecord' = onRecord \cup {i}
            PROVE  FundRecordOK'
        <4>1. evm'.fundTx = i /\ evm' = [fundTx |-> evm'.fundTx, rehashes |-> evm'.rehashes]
          BY <3>2 DEF FundInv, FundRecordOK
        <4>2. ASSUME route = "native"
              PROVE  /\ i # 0 /\ i \in DOMAIN tx' /\ onRecord' \subseteq DOMAIN tx'
                     /\ \A j \in DOMAIN tx' :
                           MayLock(j)' /\ tx'[j].nonce \in onRecord' => tx'[j].nonce = tx'[i].nonce
          <5>1. \A j \in DOMAIN tx' : ~(MayLock(j)' /\ tx'[j].nonce \in onRecord)
            BY <2>1, <3>2, <4>2 DEF TxsOnly, FundInv, FundRecordOK
          <5>2. \A j \in DOMAIN tx' : tx'[j].nonce = i => tx'[i].nonce = i
            BY <2>1 DEF FundTxsOK
          <5>3. i # 0
            <6>1. DOMAIN tx = 1..Len(tx)
              BY DEF FundInv, FundTxsOK
            <6> QED
              BY <6>1
          <5> QED
            BY <2>1, <3>2, <4>2, <5>1, <5>2, <5>3 DEF TxsOnly, FundInv, FundRecordOK
        <4> QED
          BY <1>9, <4>1, <4>2 DEF FundRecordOK
      <3> QED
        BY <1>9, <3>1, <3>2 DEF RecordEvmFunding
    <2> QED
      BY <1>9, <2>1, <2>2, <2>3, LocksLast DEF FundInv
  <1>10. CASE RefundEvm \/ CollabRefundEvm
    <2>1. UNCHANGED <<route, htlc>> /\ call' = [Idle EXCEPT !.at = "waitRefund", !.id = NewId]
      BY <1>10 DEF RefundEvm, CollabRefundEvm, Starts
    <2>2. CASE CollabRefundEvm
      BY <1>9, <2>1, <2>2, LockIsKey DEF CollabRefundEvm
    <2>3. CASE RefundEvm
      <3>1. PICK s \in ServerTxids :
               \/ /\ BuildEvmSourceRefund(s).is = "lock"
                  /\ Send(RefundTx(BuildEvmSourceRefund(s).key))
                  /\ IF evm.fundTx = 0 /\ BuildEvmSourceRefund(s).key.origin = s
                     THEN RecordEvmFunding(s) ELSE UNCHANGED <<evm, onRecord>>
               \/ \E key \in BindServerRefund(s) : Send(RefundTx(key)) /\ UNCHANGED <<evm, onRecord>>
        BY <2>3 DEF RefundEvm
      <3>2. CASE /\ BuildEvmSourceRefund(s).is = "lock"
                 /\ Send(RefundTx(BuildEvmSourceRefund(s).key))
                 /\ IF evm.fundTx = 0 /\ BuildEvmSourceRefund(s).key.origin = s
                    THEN RecordEvmFunding(s) ELSE UNCHANGED <<evm, onRecord>>
        <4> DEFINE key == BuildEvmSourceRefund(s).key
        <4>1. key \in LockKey
          BY <3>2, RefundKey
        <4>2. key.origin = s => s \in DOMAIN tx
          BY <3>2, RefundKey
        <4> HIDE DEF key
        <4>3. /\ Send(RefundTx(key))
              /\ IF evm.fundTx = 0 /\ key.origin = s
                 THEN RecordEvmFunding(s) ELSE UNCHANGED <<evm, onRecord>>
          BY <3>2 DEF key
        <4> QED
          BY <1>9, <2>1, <4>1, <4>2, <4>3
      <3>3. ASSUME NEW key \in BindServerRefund(s), Send(RefundTx(key)), UNCHANGED <<evm, onRecord>>
            PROVE  FundInv'
        <4>1. key \in LockKey
          BY <3>3 DEF BindServerRefund, FundInv, FundLocksOK
        <4> QED
          BY <1>9, <2>1, <3>3, <4>1
      <3> QED
        BY <3>1, <3>2, <3>3
    <2> QED
      BY <1>10, <2>2, <2>3
  <1>11. ASSUME NEW i \in Sent, Mine(i)
         PROVE  FundInv'
    <2>1. i \in DOMAIN tx
      BY DEF Sent, FundInv, FundTxsOK
    <2>2. UNCHANGED <<route, evm, call, onRecord>> /\ tx[i].state = "pending"
      BY <1>11 DEF Mine
    <2>3. CASE tx' = [tx EXCEPT ![i].state = "reverted"] /\ UNCHANGED htlc
      BY <2>1, <2>2, <2>3, FundTxTurns, LocksLast, RecordLasts, FundCallLasts DEF FundInv
    <2>4. CASE CanSucceed(i) /\ htlc' = Effect(i) /\ tx' = [tx EXCEPT ![i].state = "success"]
      <3>1. /\ FundTxsOK' /\ TxsOnly /\ UnsentLast /\ tx'[i].state = "success"
            /\ DOMAIN tx' = DOMAIN tx /\ \A j \in DOMAIN tx : Creates(j)' <=> Creates(j)
        BY <2>1, <2>2, <2>4, FundTxTurns
      <3>2. FundLocksOK'
        BY <2>1, <2>2, <2>4, <3>1, FundEffect
      <3> QED
        BY <2>2, <3>1, <3>2, RecordLasts, FundCallLasts DEF FundInv
    <2> QED
      BY <1>11, <2>3, <2>4 DEF Mine
  <1>12. ASSUME NEW i \in Sent, Replace(i)
         PROVE  FundInv'
    <2>1. i \in DOMAIN tx
      BY DEF Sent, FundInv, FundTxsOK
    <2>2. UNCHANGED <<route, htlc, evm, call, onRecord>>
      BY <1>12 DEF Replace
    <2> QED
      BY <1>12, <2>1, <2>2, FundTxReplaced, LocksLast, RecordLasts, FundCallLasts DEF FundInv
  <1>13. ASSUME NEW key \in Locks, ServerClaims(key)
         PROVE  FundInv'
    <2>1. /\ UNCHANGED <<route, tx, evm, call, onRecord>> /\ htlc[key] = "Active"
          /\ htlc' = [htlc EXCEPT ![key] = "Redeemed"]
      BY <1>13 DEF ServerClaims, Is
    <2>2. FundTxsOK' /\ TxsOnly /\ UnsentLast
      <3>1. TxsOnly /\ UnsentLast
        BY <2>1 DEF TxsOnly, UnsentLast, MayLock, Creates
      <3> QED
        BY <2>1, <3>1 DEF FundInv, FundTxsOK, Creates
    <2>3. FundLocksOK'
      BY <2>1, <2>2, LockEnds
    <2> QED
      BY <2>1, <2>2, <2>3, RecordLasts, FundCallLasts DEF FundInv
  <1> QED
    BY <1>a, <1>1, <1>2, <1>3, <1>4, <1>5, <1>6, <1>7, <1>8, <1>10, <1>11, <1>12, <1>13
       DEF FundingNext, ClientStep, ChainStep

\* Before the first call there is nothing to relate.
LEMMA FundInit == FundingInit => FundInv
  <1> SUFFICES ASSUME FundingInit PROVE FundInv
    OBVIOUS
  <1>1. tx = <<>> /\ htlc = <<>> /\ evm = [fundTx |-> 0, rehashes |-> <<>>] /\ onRecord = {}
        /\ call = [at |-> "idle", id |-> 0, to |-> OwnHash, key |-> NoKey, op |-> 0]
    BY DEF FundingInit, Idle
  <1>2. FundTxsOK
    BY <1>1 DEF FundTxsOK
  <1>3. FundLocksOK
    BY <1>1 DEF FundLocksOK, Locks
  <1>4. FundRecordOK
    BY <1>1 DEF FundRecordOK
  <1>5. FundCallOK
    BY <1>1 DEF FundCallOK, NoKey, LockKey, Hashes
  <1> QED
    BY <1>2, <1>3, <1>4, <1>5 DEF FundInv

\* No EVM funding locks twice unless the first left no record, and the client calls the
\* deposit settled only when no lock of the swap is open, whatever was replaced, reverted,
\* rehashed or refunded (client.ts fundSwap, fundSwapGasless, #ensureNativeFundingFailed,
\* #buildEvmSourceRefund).
THEOREM FundingRecords == FundingSpec => [](FundedTwiceOnlyUnrecorded /\ SettledIsFinal)
  <1>1. FundInv => FundedTwiceOnlyUnrecorded /\ SettledIsFinal
    BY FundedOnce, FundSettled
  <1> QED
    BY FundInit, <1>1, FundStep, PTL DEF FundingSpec

-----------------------------------------------------------------------------
(* The moves of a lock, on the chain and on record.                        *)

\* A transaction that moved a lock, and to which.
Moves(r) == r \in DOMAIN tx /\ tx[r].does = "rehash" /\ tx[r].state = "success"
MovedTo(r, k) == Moves(r) /\ Moved(r) = k

\* The moves of a deposit that led to the lock k are made in the order they were sent.
Before(k, s) ==
    /\ Moves(s) /\ tx[s].key.origin = k.origin
    /\ \E r \in DOMAIN tx : MovedTo(r, k) /\ s <= r

\* Transactions under a nonce move the same lock to the same hash; the wallet cannot
\* replace a UserOp; and a move is of a lock that was there when it was signed.
RehashTxsOK ==
    /\ \A i, j \in DOMAIN tx :
          tx[i].nonce = tx[j].nonce =>
             /\ tx[i].to = tx[j].to
             /\ tx[i].does = "rehash" /\ tx[j].does = "rehash" => tx[i].key = tx[j].key
    /\ \A i \in DOMAIN tx : tx[i].does = "rehash" =>
          /\ tx[i].key \in Locks /\ tx[i].to \in Invoices
          /\ \A s \in DOMAIN tx : MovedTo(s, tx[i].key) => s < i
    /\ \A i \in DOMAIN tx : tx[i].userOp => tx[i].state # "replaced"

\* Every lock is the one its deposit created or was moved to, by one move; a lock that was
\* moved on was so by one.
MovesOK ==
    /\ \A r \in DOMAIN tx : Moves(r) => tx[r].key \in Locks /\ htlc[tx[r].key] = "Rehashed" /\ Moved(r) \in Locks
    /\ \A k \in Locks : k.hash # OwnHash => \E r \in DOMAIN tx : MovedTo(r, k)
    /\ \A k \in Locks : htlc[k] = "Rehashed" => \E r \in DOMAIN tx : Moves(r) /\ tx[r].key = k
    /\ \A r, s \in DOMAIN tx :
          Moves(r) /\ Moves(s) /\ (tx[r].key = tx[s].key \/ Moved(r) = Moved(s)) => r = s

\* The moves of a deposit form one chain: what was sent before a move led to the lock it
\* moves, and everything led to the lock that is left.
ChainOK ==
    /\ \A r, t \in DOMAIN tx :
          Moves(r) /\ Moves(t) /\ tx[t].key.origin = tx[r].key.origin /\ t < r => Before(tx[r].key, t)
    /\ \A k \in Locks : \A t \in DOMAIN tx :
          htlc[k] # "Rehashed" /\ Moves(t) /\ tx[t].key.origin = k.origin => Before(k, t)

CreatedOK ==
    \A i \in DOMAIN tx :
        Creates(i) /\ tx[i].state = "success" => [hash |-> OwnHash, origin |-> i] \in Locks

LocksInv == RehashTxsOK /\ MovesOK /\ ChainOK /\ CreatedOK

\* What a transaction is does not change once it is sent.
TxsKeep ==
    /\ DOMAIN tx \subseteq DOMAIN tx'
    /\ \A j \in DOMAIN tx :
          /\ tx'[j].does = tx[j].does /\ tx'[j].key = tx[j].key /\ tx'[j].to = tx[j].to
          /\ tx'[j].nonce = tx[j].nonce /\ tx'[j].userOp = tx[j].userOp

\* No lock is moved.
NothingMoves == \A r : Moves(r)' <=> Moves(r)

\* The moves of a step that moves nothing.
LEMMA MovesLast ==
  ASSUME TxsKeep, NothingMoves
  PROVE  /\ \A r : Moves(r) => tx'[r].key = tx[r].key /\ Moved(r)' = Moved(r)
         /\ \A r, k : MovedTo(r, k)' <=> MovedTo(r, k)
         /\ \A k, s : Before(k, s)' <=> Before(k, s)
  <1>1. \A r : Moves(r) => r \in DOMAIN tx /\ r \in DOMAIN tx'
    BY DEF Moves, TxsKeep
  <1>2. \A r : Moves(r) => tx'[r].key = tx[r].key /\ Moved(r)' = Moved(r)
    BY <1>1 DEF TxsKeep, Moved
  <1>3. \A r, k : MovedTo(r, k)' <=> MovedTo(r, k)
    BY <1>2 DEF MovedTo, NothingMoves
  <1>4. \A k, s : Before(k, s)' <=> Before(k, s)
    <2> SUFFICES ASSUME NEW k, NEW s PROVE Before(k, s)' <=> Before(k, s)
      OBVIOUS
    <2>1. \A r : MovedTo(r, k) => r \in DOMAIN tx /\ r \in DOMAIN tx'
      BY <1>1 DEF MovedTo
    <2> QED
      BY <1>2, <1>3, <2>1 DEF Before, NothingMoves
  <1> QED
    BY <1>2, <1>3, <1>4

\* The chains of a step that moves nothing, whatever it locks, claims or refunds.
LEMMA ChainsLast ==
  ASSUME MovesOK, ChainOK, TxsKeep, NothingMoves, Locks \subseteq Locks',
         \A k \in Locks : htlc'[k] = "Rehashed" <=> htlc[k] = "Rehashed",
         \A k \in Locks' \ Locks :
            /\ k.hash = OwnHash /\ htlc'[k] # "Rehashed"
            /\ \A t : Moves(t) => tx[t].key.origin # k.origin
  PROVE  MovesOK' /\ ChainOK'
  <1>a. \A r : Moves(r) => r \in DOMAIN tx /\ r \in DOMAIN tx' /\ tx'[r].key = tx[r].key
                           /\ Moved(r)' = Moved(r) /\ Moves(r)'
    BY MovesLast DEF Moves, TxsKeep, NothingMoves
  <1>b. \A r : Moves(r)' => Moves(r)
    BY DEF NothingMoves
  <1>c. \A k \in Locks' : k \in Locks \/ k \in Locks' \ Locks
    OBVIOUS
  <1>1. \A r \in DOMAIN tx' : Moves(r)' =>
           tx'[r].key \in Locks' /\ htlc'[tx'[r].key] = "Rehashed" /\ Moved(r)' \in Locks'
    BY <1>a, <1>b DEF MovesOK
  <1>2. \A k \in Locks' : k.hash # OwnHash => \E r \in DOMAIN tx' : MovedTo(r, k)'
    BY <1>a, MovesLast DEF MovesOK, MovedTo
  <1>3. \A k \in Locks' : htlc'[k] = "Rehashed" => \E r \in DOMAIN tx' : Moves(r)' /\ tx'[r].key = k
    BY <1>a DEF MovesOK
  <1>4. \A r, s \in DOMAIN tx' :
           Moves(r)' /\ Moves(s)' /\ (tx'[r].key = tx'[s].key \/ Moved(r)' = Moved(s)') => r = s
    BY <1>a, <1>b DEF MovesOK
  <1>5. \A r, t \in DOMAIN tx' :
           Moves(r)' /\ Moves(t)' /\ tx'[t].key.origin = tx'[r].key.origin /\ t < r
              => Before(tx[r].key, t)'
    <2> SUFFICES ASSUME NEW r \in DOMAIN tx', NEW t \in DOMAIN tx', Moves(r)', Moves(t)',
                        tx'[t].key.origin = tx'[r].key.origin, t < r
                 PROVE  Before(tx[r].key, t)'
      OBVIOUS
    <2>1. /\ Moves(r) /\ Moves(t) /\ r \in DOMAIN tx /\ t \in DOMAIN tx /\ tx'[r].key = tx[r].key
          /\ tx'[t].key = tx[t].key
      BY <1>a, <1>b
    <2>2. Before(tx[r].key, t)
      BY <2>1 DEF ChainOK
    <2> DEFINE k == tx[r].key
    <2>3. k' = k
      BY <2>1
    <2>4. Before(k, t)'
      <3>1. \A l : Before(l, t) => Before(l, t)'
        BY MovesLast
      <3> QED
        BY <2>2, <2>3, <3>1 DEF Before
    <2> QED
      BY <2>4
  <1>6. \A k \in Locks' : \A t \in DOMAIN tx' :
           htlc'[k] # "Rehashed" /\ Moves(t)' /\ tx'[t].key.origin = k.origin => Before(k, t)'
    BY <1>a, <1>b, <1>c, MovesLast DEF ChainOK
  <1>7. MovesOK'
    BY <1>1, <1>2, <1>3, <1>4 DEF MovesOK
  <1>8. ChainOK'
    BY <1>5, <1>6 DEF ChainOK
  <1> QED
    BY <1>7, <1>8

\* Nothing succeeds.
NothingLands ==
    \A j \in DOMAIN tx' : tx'[j].state = "success" => j \in DOMAIN tx /\ tx[j].state = "success"

\* A transaction that joins the others under a nonce of its own.
LEMMA RehashJoins ==
  ASSUME FundInv, RehashTxsOK, NEW does \in {"create", "rehash", "refund"}, NEW key \in LockKey,
         NEW to \in Hashes, NEW state \in {"unsent", "pending"}, NEW userOp \in BOOLEAN,
         Send(Tx(does, key, to, state, userOp)), UNCHANGED htlc,
         does = "rehash" => key \in Locks /\ to \in Invoices
  PROVE  /\ TxsKeep /\ NothingMoves /\ NothingLands /\ RehashTxsOK'
         /\ \A j \in DOMAIN tx : tx'[j] = tx[j]
         /\ NewId \in Nat \ {0} /\ NewId \in DOMAIN tx' /\ NewId \notin DOMAIN tx
         /\ \A j \in DOMAIN tx' : j \in DOMAIN tx \/ j = NewId
         /\ tx'[NewId].does = does /\ tx'[NewId].key = key /\ tx'[NewId].to = to
         /\ tx'[NewId].state = state /\ tx'[NewId].userOp = userOp /\ tx'[NewId].nonce = NewId
         /\ \A s \in DOMAIN tx : s < NewId
  <1> DEFINE new == Tx(does, key, to, state, userOp)
  <1>1. Len(tx) \in Nat /\ DOMAIN tx = 1..Len(tx) /\ tx \in Seq(FundTx)
    BY DEF FundInv, FundTxsOK
  <1>2. /\ new.does = does /\ new.key = key /\ new.to = to /\ new.state = state /\ new.nonce = NewId
        /\ new.userOp = userOp
    BY DEF Tx
  <1>3. tx' = Append(tx, new)
    BY DEF Send
  <1> HIDE DEF new
  <1>4. /\ DOMAIN tx' = 1..(Len(tx) + 1) /\ \A j \in DOMAIN tx : tx'[j] = tx[j]
        /\ tx'[Len(tx) + 1] = new
    BY <1>1, <1>3
  <1>5. /\ NewId \in Nat \ {0} /\ NewId \in DOMAIN tx' /\ NewId \notin DOMAIN tx
        /\ \A j \in DOMAIN tx' : j \in DOMAIN tx \/ j = NewId
        /\ \A s \in DOMAIN tx : s < NewId /\ s \in DOMAIN tx'
        /\ tx'[NewId] = new
    BY <1>1, <1>4 DEF NewId
  <1> HIDE DEF NewId
  <1>6. TxsKeep
    BY <1>4, <1>5 DEF TxsKeep
  <1>7. NothingLands
    BY <1>2, <1>4, <1>5 DEF NothingLands
  <1>8. NothingMoves
    <2>1. \A r : Moves(r) => Moves(r)'
      BY <1>4, <1>5 DEF Moves
    <2>2. \A r : Moves(r)' => Moves(r)
      BY <1>2, <1>4, <1>5 DEF Moves
    <2> QED
      BY <2>1, <2>2 DEF NothingMoves
  <1>9. \A j \in DOMAIN tx : tx[j].nonce \in DOMAIN tx /\ tx[j].nonce # NewId
    BY <1>5 DEF FundInv, FundTxsOK
  <1>10. ASSUME NEW i \in DOMAIN tx', NEW j \in DOMAIN tx', tx'[i].nonce = tx'[j].nonce
         PROVE  /\ tx'[i].to = tx'[j].to
                /\ tx'[i].does = "rehash" /\ tx'[j].does = "rehash" => tx'[i].key = tx'[j].key
    <2>1. CASE i \in DOMAIN tx /\ j \in DOMAIN tx
      BY <1>4, <1>10, <2>1 DEF RehashTxsOK
    <2>2. CASE i = NewId \/ j = NewId
      <3>1. i = j
        BY <1>2, <1>4, <1>5, <1>9, <1>10, <2>2
      <3> QED
        BY <3>1
    <2> QED
      BY <1>5, <2>1, <2>2
  <1>11. ASSUME NEW i \in DOMAIN tx', tx'[i].does = "rehash"
         PROVE  /\ tx'[i].key \in Locks' /\ tx'[i].to \in Invoices
                /\ \A s \in DOMAIN tx' : MovedTo(s, tx[i].key)' => s < i
    <2>0. Locks' = Locks
      BY DEF Locks
    <2>1. CASE i \in DOMAIN tx
      <3>1. tx'[i] = tx[i]
        BY <1>4, <2>1
      <3>2. /\ tx[i].key \in Locks /\ tx[i].to \in Invoices
            /\ \A s \in DOMAIN tx : MovedTo(s, tx[i].key) => s < i
        BY <1>11, <2>1, <3>1 DEF RehashTxsOK
      <3>3. ASSUME NEW s, MovedTo(s, tx[i].key)' PROVE s < i
        <4>1. MovedTo(s, tx[i].key)
          BY <1>6, <1>8, <3>1, <3>3, MovesLast DEF MovedTo
        <4> QED
          BY <3>2, <4>1 DEF MovedTo, Moves
      <3> QED
        BY <2>0, <3>1, <3>2, <3>3
    <2>2. CASE i = NewId
      <3>1. \A s : Moves(s)' => s < i
        BY <1>5, <1>8, <2>2 DEF NothingMoves, Moves
      <3>2. \A s : MovedTo(s, tx[i].key)' => s < i
        BY <3>1 DEF MovedTo
      <3> QED
        BY <1>2, <1>5, <1>11, <2>0, <2>2, <3>2
    <2> QED
      BY <1>5, <2>1, <2>2
  <1>12. \A i \in DOMAIN tx' : tx'[i].userOp => tx'[i].state # "replaced"
    BY <1>2, <1>4, <1>5 DEF RehashTxsOK
  <1>13. RehashTxsOK'
    BY <1>10, <1>11, <1>12 DEF RehashTxsOK
  <1> QED
    BY <1>2, <1>4, <1>5, <1>6, <1>7, <1>8, <1>13

\* A transaction that is sent or reverts, or succeeds.
LEMMA RehashTurns ==
  ASSUME FundInv, NEW i \in DOMAIN tx, NEW state \in {"pending", "success", "reverted"},
         tx[i].state # "success", tx' = [tx EXCEPT ![i].state = state]
  PROVE  /\ TxsKeep /\ DOMAIN tx' = DOMAIN tx /\ tx'[i].state = state
         /\ \A j \in DOMAIN tx : j # i => tx'[j] = tx[j]
         /\ state # "success" => NothingLands
         /\ state # "success" \/ tx[i].does # "rehash" => NothingMoves
  <1>1. tx \in Seq(FundTx) /\ tx[i] \in FundTx /\ DOMAIN tx = 1..Len(tx)
    BY DEF FundInv, FundTxsOK
  <1> DEFINE turned == [tx[i] EXCEPT !.state = state]
  <1>2. /\ turned.does = tx[i].does /\ turned.key = tx[i].key /\ turned.to = tx[i].to
        /\ turned.nonce = tx[i].nonce /\ turned.userOp = tx[i].userOp /\ turned.state = state
    BY <1>1 DEF FundTx
  <1>3. tx' = [tx EXCEPT ![i] = turned]
    BY <1>1
  <1> HIDE DEF turned
  <1>4. DOMAIN tx' = DOMAIN tx /\ tx'[i] = turned /\ \A j \in DOMAIN tx : j # i => tx'[j] = tx[j]
    BY <1>1, <1>3
  <1>5. TxsKeep
    BY <1>2, <1>4 DEF TxsKeep
  <1>6. state # "success" => NothingLands
    BY <1>2, <1>4 DEF NothingLands
  <1>7. state # "success" \/ tx[i].does # "rehash" => NothingMoves
    <2>1. \A r : r # i => (Moves(r)' <=> Moves(r))
      BY <1>4 DEF Moves
    <2>2. ~Moves(i) /\ (state # "success" \/ tx[i].does # "rehash" => ~Moves(i)')
      BY <1>2, <1>4 DEF Moves
    <2> QED
      BY <2>1, <2>2 DEF NothingMoves
  <1> QED
    BY <1>2, <1>4, <1>5, <1>6, <1>7

\* What is signed stays what it is: the moves of a lock that is there are not changed by one
\* that lands.
LEMMA RehashTxsLast ==
  ASSUME RehashTxsOK, TxsKeep, DOMAIN tx' = DOMAIN tx, Locks \subseteq Locks',
         \A j \in DOMAIN tx : tx'[j].state = "replaced" => tx[j].state = "replaced",
         \A k \in Locks : \A s : MovedTo(s, k)' => MovedTo(s, k)
  PROVE  RehashTxsOK'
  <1>1. \A i, j \in DOMAIN tx' :
           tx'[i].nonce = tx'[j].nonce =>
              /\ tx'[i].to = tx'[j].to
              /\ tx'[i].does = "rehash" /\ tx'[j].does = "rehash" => tx'[i].key = tx'[j].key
    BY DEF RehashTxsOK, TxsKeep
  <1>2. ASSUME NEW i \in DOMAIN tx', tx'[i].does = "rehash"
        PROVE  /\ tx'[i].key \in Locks' /\ tx'[i].to \in Invoices
               /\ \A s \in DOMAIN tx' : MovedTo(s, tx[i].key)' => s < i
    <2>1. /\ tx'[i].key = tx[i].key /\ tx'[i].to = tx[i].to /\ tx[i].does = "rehash" /\ i \in DOMAIN tx
      BY <1>2 DEF TxsKeep
    <2>2. /\ tx[i].key \in Locks /\ tx[i].to \in Invoices
          /\ \A s \in DOMAIN tx : MovedTo(s, tx[i].key) => s < i
      BY <2>1 DEF RehashTxsOK
    <2>3. ASSUME NEW s \in DOMAIN tx', MovedTo(s, tx[i].key)' PROVE s < i
      <3>1. MovedTo(s, tx[i].key)
        BY <2>1, <2>2, <2>3 DEF MovedTo
      <3> QED
        BY <2>2, <3>1
    <2> QED
      BY <2>1, <2>2, <2>3
  <1>3. \A i \in DOMAIN tx' : tx'[i].userOp => tx'[i].state # "replaced"
    BY DEF RehashTxsOK, TxsKeep
  <1> QED
    BY <1>1, <1>2, <1>3 DEF RehashTxsOK

\* A transaction that another replaces: the same move, or none.
LEMMA RehashReplaced ==
  ASSUME FundInv, RehashTxsOK, NEW i \in DOMAIN tx, Replace(i)
  PROVE  /\ TxsKeep /\ NothingMoves /\ NothingLands /\ RehashTxsOK'
         /\ \A j \in DOMAIN tx' : j \notin DOMAIN tx => tx'[j].userOp = FALSE
  <1>1. /\ tx \in Seq(FundTx) /\ tx[i] \in FundTx /\ DOMAIN tx = 1..Len(tx) /\ Len(tx) \in Nat
        /\ tx[i].state = "pending" /\ ~tx[i].userOp /\ Locks' = Locks
    BY DEF FundInv, FundTxsOK, Replace, Locks
  <1>2. PICK does \in {tx[i].does, "cancel"} \cup (IF Creates(i) THEN {"wrapped"} ELSE {}) :
           tx' = Append([tx EXCEPT ![i].state = "replaced"],
                        [tx[i] EXCEPT !.does = does, !.key = IF does = "cancel" THEN NoKey ELSE tx[i].key])
    BY DEF Replace
  <1> DEFINE old == [tx[i] EXCEPT !.state = "replaced"]
             new == [tx[i] EXCEPT !.does = does, !.key = IF does = "cancel" THEN NoKey ELSE tx[i].key]
             marked == [tx EXCEPT ![i] = old]
             last == Len(tx) + 1
  <1>3. /\ old.does = tx[i].does /\ old.key = tx[i].key /\ old.to = tx[i].to
        /\ old.nonce = tx[i].nonce /\ old.userOp = tx[i].userOp /\ old.state = "replaced"
    BY <1>1 DEF FundTx
  <1>4. /\ new.to = tx[i].to /\ new.nonce = tx[i].nonce /\ new.userOp = tx[i].userOp
        /\ new.state = "pending" /\ new.does = does /\ (does # "cancel" => new.key = tx[i].key)
    BY <1>1 DEF FundTx
  <1>4a. does = "rehash" => tx[i].does = "rehash"
    BY <1>2
  <1>5. tx' = Append(marked, new)
    BY <1>1, <1>2
  <1> HIDE DEF old, new
  <1>6. /\ marked[i] = old /\ \A j \in DOMAIN tx : j # i => marked[j] = tx[j]
        /\ Len(marked) = Len(tx)
        /\ DOMAIN marked = DOMAIN tx
        /\ \E S : marked \in Seq(S)
    <2> DEFINE S == FundTx \cup {old}
    <2>1. marked \in Seq(S) /\ Len(marked) = Len(tx)
      BY <1>1
    <2> HIDE DEF S
    <2> QED
      BY <1>1, <2>1
  <1> HIDE DEF marked
  <1>7. /\ DOMAIN tx' = 1..last /\ \A j \in DOMAIN tx : tx'[j] = marked[j]
        /\ tx'[last] = new
    BY <1>1, <1>5, <1>6
  <1>8. /\ \A j \in DOMAIN tx' : j \in DOMAIN tx \/ j = last
        /\ DOMAIN tx \subseteq DOMAIN tx' /\ last \in DOMAIN tx' /\ last \notin DOMAIN tx
        /\ \A j \in DOMAIN tx : j < last
    BY <1>1, <1>7
  <1> HIDE DEF last
  <1>9. TxsKeep
    BY <1>3, <1>6, <1>7, <1>8 DEF TxsKeep
  <1>10. NothingLands
    BY <1>3, <1>4, <1>6, <1>7, <1>8 DEF NothingLands
  <1>11. NothingMoves
    <2>1. \A r : r # i /\ r # last => (Moves(r)' <=> Moves(r))
      BY <1>6, <1>7, <1>8 DEF Moves
    <2>2. ~Moves(i) /\ ~Moves(i)'
      BY <1>1, <1>3, <1>6, <1>7 DEF Moves
    <2>3. \A r : r = last => ~Moves(r) /\ ~Moves(r)'
      BY <1>4, <1>7, <1>8 DEF Moves
    <2> QED
      BY <2>1, <2>2, <2>3 DEF NothingMoves
  <1>12. \A j \in DOMAIN tx' : \E h \in DOMAIN tx :
            /\ h <= j /\ tx'[j].nonce = tx[h].nonce /\ tx'[j].to = tx[h].to
            /\ tx'[j].does = "rehash" => tx[h].does = "rehash" /\ tx'[j].key = tx[h].key
    <2>1. ASSUME NEW j \in DOMAIN tx
          PROVE  /\ j <= j /\ tx'[j].nonce = tx[j].nonce /\ tx'[j].to = tx[j].to
                 /\ tx'[j].does = tx[j].does /\ tx'[j].key = tx[j].key
      BY <1>1, <1>9 DEF TxsKeep
    <2>2. i <= last
      BY <1>1 DEF last
    <2> QED
      BY <1>4, <1>4a, <1>7, <1>8, <2>1, <2>2
  <1>13. ASSUME NEW j \in DOMAIN tx', NEW k \in DOMAIN tx', tx'[j].nonce = tx'[k].nonce
         PROVE  /\ tx'[j].to = tx'[k].to
                /\ tx'[j].does = "rehash" /\ tx'[k].does = "rehash" => tx'[j].key = tx'[k].key
    BY <1>12, <1>13 DEF RehashTxsOK
  <1>14. ASSUME NEW j \in DOMAIN tx', tx'[j].does = "rehash"
         PROVE  /\ tx'[j].key \in Locks' /\ tx'[j].to \in Invoices
                /\ \A s \in DOMAIN tx' : MovedTo(s, tx[j].key)' => s < j
    <2>1. PICK h \in DOMAIN tx : /\ h <= j /\ tx'[j].to = tx[h].to /\ tx[h].does = "rehash"
                                 /\ tx'[j].key = tx[h].key
      BY <1>12, <1>14
    <2>2. /\ tx[h].key \in Locks /\ tx[h].to \in Invoices
          /\ \A s \in DOMAIN tx : MovedTo(s, tx[h].key) => s < h
      BY <2>1 DEF RehashTxsOK
    <2>3. ASSUME NEW s, MovedTo(s, tx[j].key)' PROVE s < j
      <3>1. MovedTo(s, tx[h].key)
        <4>1. Moves(s) /\ Moved(s)' = tx'[j].key
          BY <1>11, <2>3 DEF MovedTo, NothingMoves
        <4>2. Moved(s)' = Moved(s)
          BY <1>9, <1>11, <4>1, MovesLast
        <4> QED
          BY <2>1, <4>1, <4>2 DEF MovedTo
      <3>2. s \in DOMAIN tx /\ s < h
        BY <2>2, <3>1 DEF MovedTo, Moves
      <3>3. s \in Nat /\ h \in Nat /\ j \in Nat
        BY <1>1, <1>7, <3>2 DEF last
      <3> QED
        BY <2>1, <3>2, <3>3
    <2> QED
      BY <1>1, <2>1, <2>2, <2>3
  <1>15. \A j \in DOMAIN tx' : tx'[j].userOp => tx'[j].state # "replaced"
    BY <1>1, <1>4, <1>6, <1>7, <1>8, <1>9 DEF RehashTxsOK, TxsKeep
  <1>16. RehashTxsOK'
    BY <1>13, <1>14, <1>15 DEF RehashTxsOK
  <1> QED
    BY <1>1, <1>4, <1>7, <1>8, <1>9, <1>10, <1>11, <1>16

\* The moves that led to a lock stay what they were.
BeforeLasts == \A k \in Locks : \A s : Before(k, s)' <=> Before(k, s)

\* A move that lands is the last of its deposit's: it moves the lock that was left.
LEMMA RehashLands ==
  ASSUME FundInv, LocksInv, NEW i \in DOMAIN tx, tx[i].state = "pending", tx[i].does = "rehash",
         CanSucceed(i), htlc' = Effect(i), tx' = [tx EXCEPT ![i].state = "success"], FundLocksOK'
  PROVE  LocksInv' /\ BeforeLasts /\ TxsKeep /\ Locks \subseteq Locks'
  <1> DEFINE from == tx[i].key
             to == Moved(i)
  <1>1. /\ TxsKeep /\ DOMAIN tx' = DOMAIN tx /\ tx'[i].state = "success"
        /\ \A j \in DOMAIN tx : j # i => tx'[j] = tx[j]
    BY RehashTurns
  <1>2. /\ from \in Locks /\ htlc[from] = "Active" /\ to \notin Locks /\ from \in LockKey
        /\ tx[i].to \in Invoices
    BY DEF CanSucceed, Is, LocksInv, RehashTxsOK, FundInv, FundLocksOK
  <1>3. to.hash = tx[i].to /\ to.origin = from.origin /\ to.hash # OwnHash
    BY <1>2, FundingAssumption DEF Moved, LockKey
  <1>4. /\ Locks' = Locks \cup {to} /\ htlc'[to] = "Active" /\ htlc'[from] = "Rehashed"
        /\ \A k \in Locks : k # from => htlc'[k] = htlc[k]
    <2>1. ~Creates(i)
      BY DEF Creates
    <2> DEFINE moved == [htlc EXCEPT ![from] = "Rehashed"]
    <2>2. htlc' = Opened(to, moved)
      BY <2>1 DEF Effect
    <2>3. DOMAIN moved = Locks /\ moved[from] = "Rehashed" /\ \A k \in Locks : k # from => moved[k] = htlc[k]
      BY <1>2 DEF FundInv, FundLocksOK, Locks
    <2> HIDE DEF moved, to
    <2>4. htlc' = [k \in Locks \cup {to} |-> IF k = to THEN "Active" ELSE moved[k]]
      BY <2>2, <2>3 DEF Opened
    <2>5. Locks' = Locks \cup {to}
      BY <2>4 DEF Locks
    <2> QED
      BY <1>2, <2>3, <2>4, <2>5
  <1>5. ~Moves(i) /\ Moves(i)' /\ \A r : r # i => (Moves(r)' <=> Moves(r))
    BY <1>1 DEF Moves, TxsKeep
  <1>6. \A r : r \in DOMAIN tx => tx'[r].key = tx[r].key /\ Moved(r)' = Moved(r)
    BY <1>1 DEF TxsKeep, Moved
  <1>7. \A r : Moves(r) => r \in DOMAIN tx /\ r # i /\ tx[r].key \in Locks /\ htlc[tx[r].key] = "Rehashed"
                           /\ Moved(r) \in Locks /\ tx[r].key # from /\ Moved(r) # to
    BY <1>2, <1>5 DEF Moves, LocksInv, MovesOK
  <1>8. Moved(i)' = to /\ tx'[i].key = from /\ MovedTo(i, to)'
    BY <1>5, <1>6 DEF MovedTo
  <1> HIDE DEF from, to
  <1>9. ASSUME NEW k \in Locks, NEW r
        PROVE  MovedTo(r, k)' <=> MovedTo(r, k)
    <2>1. CASE r = i
      BY <1>2, <1>5, <1>8, <2>1 DEF MovedTo
    <2>2. CASE r # i
      BY <1>5, <1>6, <1>7, <2>2 DEF MovedTo, Moves
    <2> QED
      BY <2>1, <2>2
  <1>10. ASSUME NEW s, Moves(s), tx[s].key.origin = from.origin
         PROVE  Before(from, s) /\ s < i
    <2>1. Before(from, s)
      BY <1>2, <1>7, <1>10 DEF LocksInv, ChainOK
    <2>2. PICK r \in DOMAIN tx : MovedTo(r, from) /\ s <= r
      BY <2>1 DEF Before
    <2>3. r < i
      BY <2>2 DEF LocksInv, RehashTxsOK, from
    <2>4. s \in Nat /\ r \in Nat /\ i \in Nat
      <3>1. DOMAIN tx = 1..Len(tx)
        BY DEF FundInv, FundTxsOK
      <3> QED
        BY <1>7, <1>10, <3>1
    <2> QED
      BY <2>1, <2>2, <2>3, <2>4
  <1>11. ASSUME NEW k \in Locks, NEW s
         PROVE  Before(k, s)' <=> Before(k, s)
    <2>1. CASE s # i
      BY <1>1, <1>5, <1>6, <1>9, <2>1 DEF Before, Moves
    <2>2. CASE s = i
      <3>1. ~Before(k, s)
        BY <1>5, <2>2 DEF Before
      <3>2. ASSUME Before(k, s)' PROVE FALSE
        <4>1. k.origin = from.origin
          BY <1>8, <2>2, <3>2 DEF Before
        <4>2. PICK r \in DOMAIN tx : MovedTo(r, k) /\ i <= r
          BY <1>1, <1>9, <2>2, <3>2 DEF Before
        <4>3. Moves(r) /\ tx[r].key.origin = k.origin
          <5>1. tx[r].key \in LockKey
            BY <1>7, <4>2 DEF MovedTo, FundInv, FundLocksOK
          <5> QED
            BY <4>2, <5>1 DEF MovedTo, Moved, LockKey
        <4>4. r < i
          BY <1>10, <4>1, <4>3
        <4>5. r \in Nat /\ i \in Nat
          <5>1. DOMAIN tx = 1..Len(tx)
            BY DEF FundInv, FundTxsOK
          <5> QED
            BY <5>1
        <4> QED
          BY <4>2, <4>4, <4>5
      <3> QED
        BY <3>1, <3>2
    <2> QED
      BY <2>1, <2>2
  <1>12. RehashTxsOK'
    <2>1. \A j \in DOMAIN tx : tx'[j].state = "replaced" => tx[j].state = "replaced"
      BY <1>1
    <2> QED
      BY <1>1, <1>4, <1>9, <2>1, RehashTxsLast DEF LocksInv
  <1>13. MovesOK'
    <2>1. \A r \in DOMAIN tx' : Moves(r)' =>
              tx'[r].key \in Locks' /\ htlc'[tx'[r].key] = "Rehashed" /\ Moved(r)' \in Locks'
      <3> SUFFICES ASSUME NEW r \in DOMAIN tx', Moves(r)'
                   PROVE  tx'[r].key \in Locks' /\ htlc'[tx'[r].key] = "Rehashed" /\ Moved(r)' \in Locks'
        OBVIOUS
      <3>1. CASE r = i
        BY <1>2, <1>4, <1>8, <3>1
      <3>2. CASE r # i
        BY <1>1, <1>4, <1>5, <1>6, <1>7, <3>2
      <3> QED
        BY <3>1, <3>2
    <2>2. \A k \in Locks' : k.hash # OwnHash => \E r \in DOMAIN tx' : MovedTo(r, k)'
      <3>1. \A k \in Locks : k.hash # OwnHash => \E r \in DOMAIN tx' : MovedTo(r, k)'
        BY <1>1, <1>9 DEF LocksInv, MovesOK
      <3>3. \A k \in Locks' : k \in Locks \/ k = to
        BY <1>4
      <3> SUFFICES ASSUME NEW k \in Locks', k.hash # OwnHash PROVE \E r \in DOMAIN tx' : MovedTo(r, k)'
        OBVIOUS
      <3>4. CASE k = to
        <4>1. MovedTo(i, k)'
          BY <1>8, <3>4 DEF MovedTo
        <4> QED
          BY <1>1, <4>1
      <3> QED
        BY <3>1, <3>3, <3>4
    <2>3. \A k \in Locks' : htlc'[k] = "Rehashed" => \E r \in DOMAIN tx' : Moves(r)' /\ tx'[r].key = k
      <3> SUFFICES ASSUME NEW k \in Locks', htlc'[k] = "Rehashed"
                   PROVE  \E r \in DOMAIN tx' : Moves(r)' /\ tx'[r].key = k
        OBVIOUS
      <3>1. CASE k = from
        BY <1>1, <1>5, <1>8, <3>1
      <3>2. CASE k # from
        <4>1. k \in Locks /\ htlc[k] = "Rehashed"
          BY <1>4, <3>2
        <4>2. PICK r \in DOMAIN tx : Moves(r) /\ tx[r].key = k
          BY <4>1 DEF LocksInv, MovesOK
        <4> QED
          BY <1>1, <1>5, <1>6, <1>7, <4>2
      <3> QED
        BY <3>1, <3>2
    <2>4. \A r, s \in DOMAIN tx' :
             Moves(r)' /\ Moves(s)' /\ (tx'[r].key = tx'[s].key \/ Moved(r)' = Moved(s)') => r = s
      <3> SUFFICES ASSUME NEW r \in DOMAIN tx', NEW s \in DOMAIN tx', Moves(r)', Moves(s)',
                          tx'[r].key = tx'[s].key \/ Moved(r)' = Moved(s)'
                   PROVE  r = s
        OBVIOUS
      <3>a. ASSUME NEW j \in DOMAIN tx', j # i, Moves(j)'
            PROVE  tx'[j].key # tx'[i].key /\ Moved(j)' # Moved(i)'
        <4>1. Moves(j) /\ j \in DOMAIN tx
          BY <1>1, <1>5, <3>a
        <4> QED
          BY <1>6, <1>7, <1>8, <4>1
      <3>1. CASE r = i \/ s = i
        <4>1. CASE r = i
          BY <3>a, <4>1
        <4>2. CASE s = i
          BY <3>a, <4>2
        <4> QED
          BY <3>1, <4>1, <4>2
      <3>2. CASE r # i /\ s # i
        BY <1>1, <1>5, <1>6, <3>2 DEF LocksInv, MovesOK
      <3> QED
        BY <3>1, <3>2
    <2> QED
      BY <2>1, <2>2, <2>3, <2>4 DEF MovesOK
  <1>14. ChainOK'
    <2>1. ASSUME NEW r \in DOMAIN tx', NEW t \in DOMAIN tx', Moves(r)', Moves(t)',
                 tx'[t].key.origin = tx'[r].key.origin, t < r
          PROVE  Before(tx[r].key, t)'
      <3> DEFINE k == tx[r].key
      <3>1. k' = k /\ r \in DOMAIN tx /\ t \in DOMAIN tx /\ tx'[t].key = tx[t].key
        BY <1>1, <1>6
      <3>2. k \in Locks /\ k.origin = tx[t].key.origin
        BY <1>2, <1>5, <1>7, <2>1, <3>1 DEF from
      <3>3. Before(k, t)
        <4>1. CASE r = i
          <5>1. t # i
            <6>1. DOMAIN tx = 1..Len(tx)
              BY DEF FundInv, FundTxsOK
            <6> QED
              BY <2>1, <3>1, <4>1, <6>1
          <5> QED
            BY <1>5, <1>10, <2>1, <3>2, <4>1, <5>1 DEF from
        <4>2. CASE r # i
          <5>1. t # i
            <6>1. t = i => r < i
              BY <1>5, <1>10, <2>1, <3>2, <4>2 DEF from
            <6>2. DOMAIN tx = 1..Len(tx)
              BY DEF FundInv, FundTxsOK
            <6> QED
              BY <2>1, <3>1, <6>1, <6>2
          <5> QED
            BY <1>5, <2>1, <3>1, <3>2, <4>2, <5>1 DEF LocksInv, ChainOK
        <4> QED
          BY <4>1, <4>2
      <3>4. Before(k, t)'
        <4>1. \A l \in Locks : Before(l, t) => Before(l, t)'
          BY <1>11
        <4> HIDE DEF k
        <4> QED
          BY <3>1, <3>2, <3>3, <4>1 DEF Before
      <3> QED
        BY <3>4
    <2>2. ASSUME NEW k \in Locks', NEW t \in DOMAIN tx', htlc'[k] # "Rehashed", Moves(t)',
                 tx'[t].key.origin = k.origin
          PROVE  Before(k, t)'
      <3>1. t \in DOMAIN tx /\ tx'[t].key = tx[t].key
        BY <1>1, <1>6
      <3>2. CASE k = to
        <4>1. t <= i
          <5>1. DOMAIN tx = 1..Len(tx)
            BY DEF FundInv, FundTxsOK
          <5>2. t # i => t < i
            BY <1>3, <1>5, <1>10, <2>2, <3>1, <3>2
          <5> QED
            BY <3>1, <5>1, <5>2
        <4>2. i \in DOMAIN tx' /\ MovedTo(i, k)'
          BY <1>1, <1>8, <3>2 DEF MovedTo
        <4> QED
          BY <2>2, <4>1, <4>2 DEF Before
      <3>3. CASE k # to
        <4>1. k \in Locks /\ k # from /\ htlc[k] # "Rehashed"
          BY <1>4, <2>2, <3>3
        <4>2. k.origin # from.origin
          BY <1>2, <4>1 DEF FundInv, FundLocksOK
        <4>3. t # i
          BY <1>8, <2>2, <4>2
        <4>4. Before(k, t)
          BY <1>5, <2>2, <3>1, <4>1, <4>3 DEF LocksInv, ChainOK
        <4> QED
          BY <1>11, <4>1, <4>4
      <3> QED
        BY <3>2, <3>3
    <2> QED
      BY <2>1, <2>2 DEF ChainOK
  <1>15. CreatedOK'
    <2>1. ASSUME NEW j \in DOMAIN tx', Creates(j)', tx'[j].state = "success"
          PROVE  [hash |-> OwnHash, origin |-> j] \in Locks
      <3>1. j # i
        BY <1>1, <2>1 DEF Creates, TxsKeep
      <3> QED
        BY <1>1, <2>1, <3>1 DEF LocksInv, CreatedOK, Creates
    <2> QED
      BY <1>4, <2>1 DEF CreatedOK
  <1> QED
    BY <1>1, <1>4, <1>11, <1>12, <1>13, <1>14, <1>15 DEF LocksInv, BeforeLasts

\* Nothing lands and no lock changes.
LEMMA LocksUntouched ==
  ASSUME LocksInv, TxsKeep, NothingMoves, NothingLands, RehashTxsOK', UNCHANGED htlc
  PROVE  LocksInv' /\ BeforeLasts /\ Locks \subseteq Locks'
  <1>1. Locks' = Locks
    BY DEF Locks
  <1>2. MovesOK' /\ ChainOK'
    BY <1>1, ChainsLast DEF LocksInv
  <1>3. CreatedOK'
    BY <1>1 DEF LocksInv, CreatedOK, Creates, NothingLands, TxsKeep
  <1> QED
    BY <1>1, <1>2, <1>3, MovesLast DEF LocksInv, BeforeLasts

\* A lock ends, by a claim of the server or a refund.
LEMMA LocksEnd ==
  ASSUME FundInv, LocksInv, TxsKeep, NothingMoves, DOMAIN tx' = DOMAIN tx, NEW key \in Locks,
         htlc[key] = "Active", NEW state \in {"Redeemed", "Refunded"},
         htlc' = [htlc EXCEPT ![key] = state],
         \A j \in DOMAIN tx : tx'[j].state = "replaced" => tx[j].state = "replaced",
         \A j \in DOMAIN tx : Creates(j) /\ tx'[j].state = "success" => tx[j].state = "success"
  PROVE  LocksInv' /\ BeforeLasts /\ Locks \subseteq Locks'
  <1>1. /\ Locks' = Locks /\ htlc'[key] = state
        /\ \A k \in Locks : k # key => htlc'[k] = htlc[k]
    BY DEF Locks, FundInv, FundLocksOK
  <1>2. MovesOK' /\ ChainOK'
    BY <1>1, ChainsLast DEF LocksInv
  <1>3. CreatedOK'
    BY <1>1 DEF LocksInv, CreatedOK, Creates, TxsKeep
  <1>4. RehashTxsOK'
    BY <1>1, MovesLast, RehashTxsLast DEF LocksInv
  <1> QED
    BY <1>1, <1>2, <1>3, <1>4, MovesLast DEF LocksInv, BeforeLasts

\* A deposit opens the lock it created.
LEMMA LocksOpen ==
  ASSUME FundInv, LocksInv, TxsKeep, NothingMoves, DOMAIN tx' = DOMAIN tx, NEW i \in DOMAIN tx,
         Creates(i), tx[i].state = "pending", htlc' = Effect(i),
         \A j \in DOMAIN tx : j # i => tx'[j] = tx[j],
         \A j \in DOMAIN tx : tx'[j].state = "replaced" => tx[j].state = "replaced"
  PROVE  LocksInv' /\ BeforeLasts /\ Locks \subseteq Locks'
  <1> DEFINE new == [hash |-> OwnHash, origin |-> i]
  <1>1. new.hash = OwnHash /\ new.origin = i
    OBVIOUS
  <1> HIDE DEF new
  <1>2. /\ Locks' = Locks \cup {new} /\ new \notin Locks /\ htlc'[new] = "Active"
        /\ \A k \in Locks : htlc'[k] = htlc[k]
    <2>1. new \notin Locks
      BY <1>1 DEF FundInv, FundLocksOK
    <2>2. htlc' = [k \in Locks \cup {new} |-> IF k = new THEN "Active" ELSE htlc[k]]
      <3>1. htlc' = Opened(new, htlc)
        BY DEF Effect, new, Creates
      <3> QED
        BY <3>1 DEF Opened, Locks
    <2>3. Locks' = Locks \cup {new}
      BY <2>2 DEF Locks
    <2> QED
      BY <2>1, <2>2, <2>3
  <1>3. \A t : Moves(t) => tx[t].key.origin # i
    <2> SUFFICES ASSUME NEW t, Moves(t), tx[t].key.origin = i PROVE FALSE
      OBVIOUS
    <2>1. t \in DOMAIN tx /\ tx[t].key \in Locks
      BY DEF Moves, LocksInv, MovesOK
    <2>2. tx[i].state = "success"
      BY <2>1 DEF FundInv, FundLocksOK
    <2> QED
      BY <2>2
  <1>4. MovesOK' /\ ChainOK'
    BY <1>1, <1>2, <1>3, ChainsLast DEF LocksInv
  <1>5. CreatedOK'
    <2> SUFFICES ASSUME NEW j \in DOMAIN tx', Creates(j)', tx'[j].state = "success"
                 PROVE  [hash |-> OwnHash, origin |-> j] \in Locks'
      BY DEF CreatedOK
    <2>1. CASE j = i
      BY <1>2, <2>1 DEF new
    <2>2. CASE j # i
      <3>1. [hash |-> OwnHash, origin |-> j] \in Locks
        BY <2>2 DEF LocksInv, CreatedOK, Creates
      <3> QED
        BY <1>2, <3>1
    <2> QED
      BY <2>1, <2>2
  <1>6. RehashTxsOK'
    BY <1>2, MovesLast, RehashTxsLast DEF LocksInv
  <1> QED
    BY <1>2, <1>4, <1>5, <1>6, MovesLast DEF LocksInv, BeforeLasts

\* What a step leaves of the moves: what was sent is what it was, and the chain that led to
\* a lock stays.
LocksGo == LocksInv' /\ BeforeLasts /\ TxsKeep /\ Locks \subseteq Locks'

\* A step that sends nothing and changes no lock.
LEMMA LocksStand ==
  ASSUME LocksInv, UNCHANGED <<tx, htlc>>
  PROVE  LocksGo
  <1>1. TxsKeep /\ NothingMoves /\ NothingLands
    BY DEF TxsKeep, NothingMoves, NothingLands, Moves
  <1>2. Locks' = Locks /\ DOMAIN tx' = DOMAIN tx
    BY DEF Locks
  <1>3. RehashTxsOK'
    BY <1>1, <1>2, MovesLast, RehashTxsLast DEF LocksInv
  <1> QED
    BY <1>1, <1>3, LocksUntouched DEF LocksGo

\* Every step goes on with the chains of moves.
LEMMA LocksStep ==
  ASSUME FundInv, FundInv', LocksInv, [FundingNext]_fundingVars,
         call.at = "prepare" => call.key \in Locks /\ call.to \in Invoices
  PROVE  LocksGo
  <1>a. FundTxsOK /\ DOMAIN tx = 1..Len(tx) /\ NoKey \in LockKey /\ OwnHash \in Hashes
    BY DEF FundInv, FundTxsOK, NoKey, LockKey, Hashes
  <1>1. CASE UNCHANGED <<tx, htlc>>
    BY <1>1, LocksStand
  <1>2. ASSUME NEW does \in {"create", "rehash", "refund"}, NEW key \in LockKey,
               NEW to \in Hashes, NEW state \in {"unsent", "pending"}, NEW userOp \in BOOLEAN,
               Send(Tx(does, key, to, state, userOp)), UNCHANGED htlc,
               does = "rehash" => key \in Locks /\ to \in Invoices
        PROVE  LocksGo
    BY <1>2, RehashJoins, LocksUntouched DEF LocksGo, LocksInv
  <1>3. ASSUME NEW move \in Movable
        PROVE  move.key \in Locks /\ move.key \in LockKey /\ move.to \in Invoices /\ move.to \in Hashes
    BY MovableLock, LockIsKey DEF Is, Hashes
  <1>4. CASE FundNativeLock \/ FundSwap \/ FundSwapGasless
    <2>1. Send(LockTx) /\ UNCHANGED htlc
      BY <1>4 DEF FundNativeLock, FundSwap, FundSwapGasless
    <2> QED
      BY <1>2, <1>a, <2>1 DEF LockTx
  <1>5. CASE RetryWithSigner
    <2>1. PICK move \in Movable : Send(RehashTx(move, "pending", FALSE))
      BY <1>5 DEF RetryWithSigner
    <2>2. UNCHANGED htlc
      BY <1>5 DEF RetryWithSigner
    <2> QED
      BY <1>2, <1>3, <2>1, <2>2 DEF RehashTx
  <1>6. CASE SignRehashOp
    <2>1. Send(RehashTx(call, "unsent", TRUE)) /\ UNCHANGED htlc /\ call.at = "prepare"
      BY <1>6 DEF SignRehashOp, At
    <2>2. call.key \in LockKey /\ call.to \in Hashes
      BY DEF FundInv, FundCallOK
    <2> QED
      BY <1>2, <2>1, <2>2 DEF RehashTx
  <1>7. CASE RefundEvm \/ CollabRefundEvm
    <2>1. PICK key : Send(RefundTx(key)) /\ key \in LockKey
      <3>1. CASE CollabRefundEvm
        BY <3>1, LockIsKey DEF CollabRefundEvm
      <3>2. CASE RefundEvm
        <4>1. PICK s \in ServerTxids :
                 \/ /\ BuildEvmSourceRefund(s).is = "lock"
                    /\ Send(RefundTx(BuildEvmSourceRefund(s).key))
                 \/ \E key \in BindServerRefund(s) : Send(RefundTx(key))
          BY <3>2 DEF RefundEvm
        <4>2. \A key \in BindServerRefund(s) : key \in LockKey
          BY DEF BindServerRefund, FundInv, FundLocksOK
        <4> QED
          BY <4>1, <4>2, RefundKey
      <3> QED
        BY <1>7, <3>1, <3>2
    <2>2. UNCHANGED htlc
      BY <1>7 DEF RefundEvm, CollabRefundEvm
    <2> QED
      BY <1>2, <1>a, <2>1, <2>2 DEF RefundTx
  <1>8. CASE SendRehashOp
    <2>1. call.id \in DOMAIN tx /\ tx[call.id].state = "unsent" /\ UNCHANGED htlc
      BY <1>8 DEF SendRehashOp, At, FundInv, FundCallOK
    <2>2. CASE tx' = [tx EXCEPT ![call.id].state = "pending"]
      <3>1. /\ TxsKeep /\ DOMAIN tx' = DOMAIN tx /\ NothingLands /\ NothingMoves
            /\ tx'[call.id].state = "pending" /\ \A j \in DOMAIN tx : j # call.id => tx'[j] = tx[j]
        BY <2>1, <2>2, RehashTurns
      <3>2. RehashTxsOK'
        BY <2>1, <3>1, MovesLast, RehashTxsLast DEF LocksInv, Locks
      <3> QED
        BY <2>1, <3>1, <3>2, LocksUntouched DEF LocksGo
    <2> QED
      BY <1>1, <1>8, <2>1, <2>2 DEF SendRehashOp
  <1>9. ASSUME NEW i \in Sent, Mine(i)
        PROVE  LocksGo
    <2>1. i \in DOMAIN tx /\ tx[i].state = "pending" /\ FundLocksOK'
      BY <1>9, <1>a DEF Sent, Mine, FundInv
    <2>2. CASE tx' = [tx EXCEPT ![i].state = "reverted"] /\ UNCHANGED htlc
      <3>1. /\ TxsKeep /\ DOMAIN tx' = DOMAIN tx /\ NothingLands /\ NothingMoves
            /\ tx'[i].state = "reverted" /\ \A j \in DOMAIN tx : j # i => tx'[j] = tx[j]
        BY <2>1, <2>2, RehashTurns
      <3>2. RehashTxsOK'
        BY <2>2, <3>1, MovesLast, RehashTxsLast DEF LocksInv, Locks
      <3> QED
        BY <2>2, <3>1, <3>2, LocksUntouched DEF LocksGo
    <2>3. CASE CanSucceed(i) /\ htlc' = Effect(i) /\ tx' = [tx EXCEPT ![i].state = "success"]
      <3>1. CASE tx[i].does = "rehash"
        BY <2>1, <2>3, <3>1, RehashLands DEF LocksGo
      <3>2. CASE tx[i].does # "rehash"
        <4>1. /\ TxsKeep /\ DOMAIN tx' = DOMAIN tx /\ NothingMoves /\ tx'[i].state = "success"
              /\ \A j \in DOMAIN tx : j # i => tx'[j] = tx[j]
          BY <2>1, <2>3, <3>2, RehashTurns
        <4>2. \A j \in DOMAIN tx : tx'[j].state = "replaced" => tx[j].state = "replaced"
          BY <4>1
        <4>3. CASE Creates(i)
          BY <2>1, <2>3, <4>1, <4>2, <4>3, LocksOpen DEF LocksGo
        <4>4. CASE tx[i].does = "refund"
          <5>1. ~Creates(i) /\ tx[i].key \in Locks /\ htlc[tx[i].key] = "Active"
                /\ htlc' = [htlc EXCEPT ![tx[i].key] = "Refunded"]
            BY <2>3, <4>4 DEF CanSucceed, Is, Effect, Creates
          <5>2. \A j \in DOMAIN tx : Creates(j) /\ tx'[j].state = "success" => tx[j].state = "success"
            BY <4>1, <5>1
          <5> QED
            BY <4>1, <4>2, <5>1, <5>2, LocksEnd DEF LocksGo
        <4>5. CASE ~Creates(i) /\ tx[i].does # "refund"
          <5>1. UNCHANGED htlc
            BY <2>3, <3>2, <4>5 DEF Effect
          <5>2. RehashTxsOK' /\ MovesOK' /\ ChainOK' /\ Locks' = Locks
            BY <4>1, <4>2, <5>1, MovesLast, RehashTxsLast, ChainsLast DEF LocksInv, Locks
          <5>3. CreatedOK'
            BY <4>1, <4>5, <5>2 DEF LocksInv, CreatedOK, Creates, TxsKeep
          <5> QED
            BY <4>1, <5>2, <5>3, MovesLast DEF LocksInv, BeforeLasts, LocksGo
        <4> QED
          BY <4>3, <4>4, <4>5
      <3> QED
        BY <3>1, <3>2
    <2> QED
      BY <1>9, <2>2, <2>3 DEF Mine
  <1>10. ASSUME NEW i \in Sent, Replace(i)
         PROVE  LocksGo
    <2>1. i \in DOMAIN tx /\ UNCHANGED htlc
      BY <1>10, <1>a DEF Sent, Replace
    <2> QED
      BY <1>10, <2>1, RehashReplaced, LocksUntouched DEF LocksGo, LocksInv
  <1>11. ASSUME NEW key \in Locks, ServerClaims(key)
         PROVE  LocksGo
    <2>1. UNCHANGED tx /\ htlc[key] = "Active" /\ htlc' = [htlc EXCEPT ![key] = "Redeemed"]
      BY <1>11 DEF ServerClaims, Is
    <2>2. TxsKeep /\ NothingMoves
      BY <2>1 DEF TxsKeep, NothingMoves, Moves
    <2> QED
      BY <2>1, <2>2, LocksEnd DEF LocksGo
  <1>12. CASE \/ RecordSent \/ AwaitFunding \/ WaitFails \/ RecordRehash \/ AwaitRehash \/ RetrySponsored
              \/ PrepareFails \/ RehashOpSubmitted \/ RehashOpIncluded \/ AwaitRefund \/ Crash
    <2>1. UNCHANGED <<tx, htlc>>
      BY <1>12 DEF RecordSent, AwaitFunding, WaitFails, RecordRehash, AwaitRehash, RetrySponsored,
                   PrepareFails, RehashOpSubmitted, RehashOpIncluded, AwaitRefund, Crash
    <2> QED
      BY <1>1, <2>1
  <1>13. CASE UNCHANGED fundingVars
    BY <1>1, <1>13 DEF fundingVars
  <1> QED
    BY <1>4, <1>5, <1>6, <1>7, <1>8, <1>9, <1>10, <1>11, <1>12, <1>13
       DEF FundingNext, ClientStep, ChainStep

\* A rehash record as it is stored, and the transactions it names.
Entry == [txid : Nat, op : Nat, from : Hashes, to : Hashes]
Owners(e) == {e.txid, e.op} \ {0}

\* A record that leads to a move, and a move that one of the first records leads to.
Leads(e, s) == IF e.txid = 0 THEN e.op = s ELSE tx[e.txid].nonce = tx[s].nonce
Covered(s, last) == \E m \in 1..last : Leads(evm.rehashes[m], s)

\* A record says of the transactions it names what they do, and comes after the records of
\* the moves that led to the lock they move.
EntryOK(n) ==
    /\ evm.rehashes[n].op # 0 =>
          /\ evm.rehashes[n].op \in DOMAIN tx /\ tx[evm.rehashes[n].op].userOp
          /\ evm.rehashes[n].txid \in {0, evm.rehashes[n].op}
    /\ \A i \in Owners(evm.rehashes[n]) :
          /\ i \in DOMAIN tx /\ tx[i].does = "rehash"
          /\ tx[i].to = evm.rehashes[n].to /\ tx[i].key.hash = evm.rehashes[n].from
          /\ \A s \in DOMAIN tx : Before(tx[i].key, s) => Covered(s, n - 1)

RecordsOK ==
    /\ evm.rehashes \in Seq(Entry)
    /\ evm.rehashes # <<>> => evm.rehashes[1].from = OwnHash
    /\ \A n \in DOMAIN evm.rehashes : EntryOK(n)

\* What is on record goes on leading to what it led to.
CoverLasts ==
    \A s \in DOMAIN tx : \A last \in 0..Len(evm.rehashes) :
        last <= Len(evm'.rehashes) => (Covered(s, last) => Covered(s, last)')

\* The greatest of some places.
LEMMA GreatestOf ==
  ASSUME NEW n \in Nat, NEW places \in SUBSET (1..n), places # {}
  PROVE  Max(places) \in places /\ \A y \in places : y <= Max(places)
  <1> DEFINE bounds == {m \in Nat : \A y \in places : y <= m}
  <1>1. n \in bounds /\ bounds \subseteq Nat
    OBVIOUS
  <1>2. PICK m \in bounds : \A k \in bounds : ~(<<k, m>> \in OpToRel(<, Nat))
    BY <1>1, WFMin, NatLessThanWellFounded
  <1>3. m \in Nat /\ \A y \in places : y <= m
    BY <1>2
  <1>4. m \in places
    <2> SUFFICES ASSUME m \notin places PROVE FALSE
      OBVIOUS
    <2>1. m # 0
      <3>1. PICK y \in places : TRUE
        OBVIOUS
      <3> QED
        BY <1>3, <3>1
    <2>2. m - 1 \in bounds
      BY <1>3, <2>1
    <2>3. <<m - 1, m>> \in OpToRel(<, Nat)
      BY <1>3, <2>1 DEF OpToRel
    <2> HIDE DEF bounds
    <2> QED
      BY <1>2, <2>2, <2>3
  <1>5. \A x \in places : (\A y \in places : x >= y) => x = m
    BY <1>3, <1>4
  <1>6. \A y \in places : m >= y
    BY <1>3
  <1>7. Max(places) = m
    BY <1>4, <1>5, <1>6 DEF Max
  <1> QED
    BY <1>3, <1>4, <1>7

\* A record that is there is one of the client's.
LEMMA EntryIs ==
  ASSUME RecordsOK, NEW n \in DOMAIN evm.rehashes
  PROVE  /\ evm.rehashes[n] \in Entry /\ n \in 1..Len(evm.rehashes) /\ Len(evm.rehashes) \in Nat
         /\ EntryOK(n)
  BY DEF RecordsOK

\* What a record leads to does not change while the record does not.
LEMMA LeadsLast ==
  ASSUME RecordsOK, TxsKeep, NEW n \in DOMAIN evm.rehashes, n \in DOMAIN evm'.rehashes,
         evm'.rehashes[n] = evm.rehashes[n], NEW s \in DOMAIN tx, Leads(evm.rehashes[n], s)
  PROVE  Leads(evm.rehashes[n], s)'
  <1> DEFINE e == evm.rehashes[n]
  <1>1. e' = e
    OBVIOUS
  <1>2. e \in Entry /\ (e.txid # 0 => e.txid \in DOMAIN tx)
    BY EntryIs DEF EntryOK, Owners
  <1>3. IF e.txid = 0 THEN e.op = s ELSE tx[e.txid].nonce = tx[s].nonce
    BY DEF Leads
  <1> HIDE DEF e
  <1>4. IF e.txid = 0 THEN e.op = s ELSE tx'[e.txid].nonce = tx'[s].nonce
    BY <1>2, <1>3 DEF TxsKeep
  <1>5. IF e'.txid = 0 THEN e'.op = s ELSE tx'[e'.txid].nonce = tx'[s].nonce
    BY <1>1, <1>4
  <1> QED
    BY <1>5 DEF Leads, e

\* A record that does not change stays what it is.
LEMMA EntryStays ==
  ASSUME RecordsOK, RehashTxsOK, TxsKeep, BeforeLasts, CoverLasts,
         NEW n \in DOMAIN evm.rehashes, n \in DOMAIN evm'.rehashes, Len(evm'.rehashes) \in Nat,
         DOMAIN evm'.rehashes = 1..Len(evm'.rehashes),
         evm'.rehashes[n] = evm.rehashes[n]
  PROVE  EntryOK(n)'
  <1> DEFINE e == evm.rehashes[n]
             f == evm'.rehashes[n]
  <1>1. /\ n \in 1..Len(evm.rehashes) /\ n \in 1..Len(evm'.rehashes) /\ n - 1 \in 0..Len(evm.rehashes)
        /\ n - 1 <= Len(evm'.rehashes)
    BY EntryIs
  <1>2. f = e
    OBVIOUS
  <1>3. /\ e.op # 0 => e.op \in DOMAIN tx /\ tx[e.op].userOp /\ e.txid \in {0, e.op}
        /\ \A i \in Owners(e) :
              /\ i \in DOMAIN tx /\ tx[i].does = "rehash"
              /\ tx[i].to = e.to /\ tx[i].key.hash = e.from
              /\ \A s \in DOMAIN tx : Before(tx[i].key, s) => Covered(s, n - 1)
    BY EntryIs DEF EntryOK
  <1> HIDE DEF e, f
  <1>4. f.op # 0 => f.op \in DOMAIN tx' /\ tx'[f.op].userOp /\ f.txid \in {0, f.op}
    BY <1>2, <1>3 DEF TxsKeep
  <1>5. ASSUME NEW i \in Owners(f)
        PROVE  /\ i \in DOMAIN tx' /\ tx'[i].does = "rehash"
               /\ tx'[i].to = f.to /\ tx'[i].key.hash = f.from
               /\ \A s \in DOMAIN tx' : Before(tx[i].key, s)' => Covered(s, n - 1)'
    <2>1. /\ i \in DOMAIN tx /\ tx[i].does = "rehash" /\ tx[i].to = e.to /\ tx[i].key.hash = e.from
          /\ \A s \in DOMAIN tx : Before(tx[i].key, s) => Covered(s, n - 1)
      BY <1>2, <1>3
    <2>2. tx'[i].key = tx[i].key /\ tx[i].key \in Locks
      BY <2>1 DEF TxsKeep, RehashTxsOK
    <2>3. ASSUME NEW s \in DOMAIN tx', Before(tx[i].key, s)'
          PROVE  Covered(s, n - 1)'
      <3>1. Before(tx[i].key, s)
        <4> DEFINE k == tx[i].key
        <4>1. \A l \in Locks : Before(l, s)' => Before(l, s)
          BY DEF BeforeLasts
        <4>2. k' = k /\ k \in Locks /\ Before(k, s)'
          BY <2>2, <2>3
        <4> HIDE DEF k
        <4>3. Before(k, s)
          BY <4>1, <4>2 DEF Before
        <4> QED
          BY <4>3 DEF k
      <3>2. s \in DOMAIN tx
        BY <3>1 DEF Before, Moves
      <3> QED
        BY <1>1, <2>1, <3>1, <3>2 DEF CoverLasts
    <2> QED
      BY <1>2, <2>1, <2>2, <2>3 DEF TxsKeep
  <1>6. (n - 1)' = n - 1
    OBVIOUS
  <1> QED
    BY <1>4, <1>5, <1>6 DEF EntryOK, f

\* Records that a step does not touch.
LEMMA RecordsStand ==
  ASSUME RecordsOK, RehashTxsOK, TxsKeep, BeforeLasts, evm'.rehashes = evm.rehashes
  PROVE  RecordsOK' /\ CoverLasts
  <1>1. Len(evm.rehashes) \in Nat /\ DOMAIN evm.rehashes = 1..Len(evm.rehashes)
    BY DEF RecordsOK
  <1>2. CoverLasts
    <2> SUFFICES ASSUME NEW s \in DOMAIN tx, NEW last \in 0..Len(evm.rehashes), Covered(s, last)
                 PROVE  Covered(s, last)'
      BY DEF CoverLasts
    <2>1. PICK m \in 1..last : Leads(evm.rehashes[m], s)
      BY DEF Covered
    <2>2. m \in DOMAIN evm.rehashes
      BY <1>1
    <2>3. Leads(evm.rehashes[m], s)'
      BY <2>1, <2>2, LeadsLast
    <2> QED
      BY <2>3 DEF Covered
  <1>3. \A n \in DOMAIN evm'.rehashes : EntryOK(n)'
    BY <1>1, <1>2, EntryStays
  <1> QED
    BY <1>2, <1>3 DEF RecordsOK

\* A record that is added, of transactions that move a lock every move before which is on record.
LEMMA RecordsGrow ==
  ASSUME RecordsOK, RehashTxsOK, TxsKeep, BeforeLasts, NEW e \in Entry, NEW k \in Locks,
         evm'.rehashes = Append(evm.rehashes, e),
         evm.rehashes = <<>> => e.from = OwnHash,
         e.op # 0 => e.op \in DOMAIN tx' /\ tx'[e.op].userOp /\ e.txid \in {0, e.op},
         \A i \in Owners(e) : i \in DOMAIN tx' /\ tx'[i].does = "rehash" /\ tx'[i].to = e.to
                              /\ tx'[i].key = k /\ k.hash = e.from,
         \A s \in DOMAIN tx : Before(k, s) => Covered(s, Len(evm.rehashes))
  PROVE  /\ RecordsOK' /\ CoverLasts
         /\ Len(evm'.rehashes) = Len(evm.rehashes) + 1
         /\ \A n \in DOMAIN evm.rehashes : evm'.rehashes[n] = evm.rehashes[n]
         /\ evm'.rehashes[Len(evm.rehashes) + 1] = e /\ evm'.rehashes # <<>>
  <1> DEFINE N == Len(evm.rehashes)
  <1>1. N \in Nat /\ DOMAIN evm.rehashes = 1..N /\ evm.rehashes \in Seq(Entry)
    BY DEF RecordsOK
  <1>2. /\ evm'.rehashes \in Seq(Entry) /\ Len(evm'.rehashes) = N + 1
        /\ DOMAIN evm'.rehashes = 1..(N + 1)
        /\ \A n \in 1..N : evm'.rehashes[n] = evm.rehashes[n]
        /\ evm'.rehashes[N + 1] = e
    BY <1>1
  <1> HIDE DEF N
  <1>3. CoverLasts
    <2> SUFFICES ASSUME NEW s \in DOMAIN tx, NEW last \in 0..N, Covered(s, last)
                 PROVE  Covered(s, last)'
      BY DEF CoverLasts, N
    <2>1. PICK m \in 1..last : Leads(evm.rehashes[m], s)
      BY DEF Covered
    <2>2. m \in 1..N /\ m \in 1..(N + 1)
      BY <1>1
    <2>3. Leads(evm.rehashes[m], s)'
      BY <1>1, <1>2, <2>1, <2>2, LeadsLast
    <2> QED
      BY <2>3 DEF Covered
  <1>4. \A n \in 1..N : EntryOK(n)'
    <2> SUFFICES ASSUME NEW n \in 1..N PROVE EntryOK(n)'
      OBVIOUS
    <2>1. n \in 1..(N + 1)
      BY <1>1
    <2> QED
      BY <1>1, <1>2, <1>3, <2>1, EntryStays
  <1>5. ASSUME NEW n, n = N + 1 PROVE EntryOK(n)'
    <2>1. evm'.rehashes[n] = e
      BY <1>2, <1>5
    <2>2. ASSUME NEW i \in Owners(e), NEW s \in DOMAIN tx', Before(tx[i].key, s)'
          PROVE  Covered(s, n - 1)'
      <3>1. Before(k, s)
        <4>1. \A l \in Locks : Before(l, s)' => Before(l, s)
          BY DEF BeforeLasts
        <4>2. tx'[i].key = k
          OBVIOUS
        <4>3. Before(k, s)'
          BY <2>2, <4>2 DEF Before
        <4> QED
          BY <4>1, <4>3
      <3>2. s \in DOMAIN tx
        BY <3>1 DEF Before, Moves
      <3>3. Covered(s, N)
        BY <3>1, <3>2 DEF N
      <3>4. n - 1 = N /\ N \in 0..N /\ N <= Len(evm'.rehashes)
        BY <1>1, <1>2, <1>5
      <3>5. \A last \in 0..N : last <= Len(evm'.rehashes) => (Covered(s, last) => Covered(s, last)')
        BY <1>3, <3>2 DEF CoverLasts, N
      <3>6. Covered(s, n - 1) => Covered(s, n - 1)'
        BY <3>4, <3>5
      <3> QED
        BY <3>3, <3>4, <3>6
    <2>3. \A i \in Owners(evm'.rehashes[n]) :
             /\ i \in DOMAIN tx' /\ tx'[i].does = "rehash"
             /\ tx'[i].to = evm'.rehashes[n].to /\ tx'[i].key.hash = evm'.rehashes[n].from
             /\ \A s \in DOMAIN tx' : Before(tx[i].key, s)' => Covered(s, n - 1)'
      BY <2>1, <2>2
    <2>4. evm'.rehashes[n].op # 0 =>
             /\ evm'.rehashes[n].op \in DOMAIN tx' /\ tx'[evm'.rehashes[n].op].userOp
             /\ evm'.rehashes[n].txid \in {0, evm'.rehashes[n].op}
      BY <2>1
    <2> QED
      BY <2>3, <2>4 DEF EntryOK
  <1>6. \A n \in DOMAIN evm'.rehashes : EntryOK(n)'
    <2>1. \A n \in 1..(N + 1) : n \in 1..N \/ n = N + 1
      BY <1>1
    <2> QED
      BY <1>2, <1>4, <1>5, <2>1
  <1>7. evm'.rehashes[1].from = OwnHash /\ evm'.rehashes # <<>>
    <2>1. CASE N = 0
      <3>1. evm.rehashes = <<>>
        BY <1>1, <2>1 DEF N
      <3> QED
        BY <1>1, <1>2, <2>1, <3>1
    <2>2. CASE N # 0
      <3>1. 1 \in 1..N /\ evm.rehashes # <<>>
        BY <1>1, <2>2 DEF N
      <3> QED
        BY <1>1, <1>2, <3>1 DEF RecordsOK
    <2> QED
      BY <2>1, <2>2
  <1> QED
    BY <1>1, <1>2, <1>3, <1>6, <1>7 DEF RecordsOK, N

\* A record that another supersedes, of transactions of the same move: what it led to, it
\* leads to.
LEMMA RecordsReplace ==
  ASSUME RecordsOK, RehashTxsOK, TxsKeep, BeforeLasts, NEW n \in DOMAIN evm.rehashes,
         NEW e \in Entry, NEW k \in Locks,
         evm'.rehashes = [evm.rehashes EXCEPT ![n] = e],
         e.from = evm.rehashes[n].from,
         e.op # 0 => e.op \in DOMAIN tx' /\ tx'[e.op].userOp /\ e.txid \in {0, e.op},
         \A i \in Owners(e) : i \in DOMAIN tx' /\ tx'[i].does = "rehash" /\ tx'[i].to = e.to
                              /\ tx'[i].key = k /\ k.hash = e.from,
         \A s \in DOMAIN tx : Before(k, s) => Covered(s, n - 1),
         \A s \in DOMAIN tx : Leads(evm.rehashes[n], s) =>
            IF e.txid = 0 THEN e.op = s ELSE tx'[e.txid].nonce = tx'[s].nonce
  PROVE  /\ RecordsOK' /\ CoverLasts
         /\ Len(evm'.rehashes) = Len(evm.rehashes) /\ DOMAIN evm'.rehashes = DOMAIN evm.rehashes
         /\ \A m \in DOMAIN evm.rehashes : m # n => evm'.rehashes[m] = evm.rehashes[m]
         /\ evm'.rehashes[n] = e
  <1> DEFINE N == Len(evm.rehashes)
  <1>1. N \in Nat /\ DOMAIN evm.rehashes = 1..N /\ evm.rehashes \in Seq(Entry) /\ n \in 1..N
    BY DEF RecordsOK
  <1>2. /\ evm'.rehashes \in Seq(Entry) /\ Len(evm'.rehashes) = N
        /\ DOMAIN evm'.rehashes = 1..N
        /\ \A m \in 1..N : m # n => evm'.rehashes[m] = evm.rehashes[m]
        /\ evm'.rehashes[n] = e
    BY <1>1
  <1> HIDE DEF N
  <1>3. ASSUME NEW s \in DOMAIN tx, NEW m \in 1..N, Leads(evm.rehashes[m], s)
        PROVE  Leads(evm.rehashes[m], s)'
    <2>1. CASE m # n
      BY <1>1, <1>2, <1>3, <2>1, LeadsLast
    <2>2. CASE m = n
      <3>1. m' = m /\ s' = s /\ evm'.rehashes[m] = e
        BY <1>2, <2>2
      <3>2. IF e.txid = 0 THEN e.op = s ELSE tx'[e.txid].nonce = tx'[s].nonce
        BY <1>3, <2>2
      <3> QED
        BY <3>1, <3>2 DEF Leads
    <2> QED
      BY <2>1, <2>2
  <1>4. CoverLasts
    <2> SUFFICES ASSUME NEW s \in DOMAIN tx, NEW last \in 0..N, Covered(s, last)
                 PROVE  Covered(s, last)'
      BY DEF CoverLasts, N
    <2>1. PICK m \in 1..last : Leads(evm.rehashes[m], s)
      BY DEF Covered
    <2>2. m \in 1..N
      BY <1>1
    <2>3. Leads(evm.rehashes[m], s)'
      BY <1>3, <2>1, <2>2
    <2> QED
      BY <2>3 DEF Covered
  <1>5. \A m \in 1..N : m # n => EntryOK(m)'
    BY <1>1, <1>2, <1>4, EntryStays
  <1>6. EntryOK(n)'
    <2>2. ASSUME NEW i \in Owners(e), NEW s \in DOMAIN tx', Before(tx[i].key, s)'
          PROVE  Covered(s, n - 1)'
      <3>1. Before(k, s)
        <4>1. \A l \in Locks : Before(l, s)' => Before(l, s)
          BY DEF BeforeLasts
        <4>2. tx'[i].key = k
          OBVIOUS
        <4>3. Before(k, s)'
          BY <2>2, <4>2 DEF Before
        <4> QED
          BY <4>1, <4>3
      <3>2. s \in DOMAIN tx
        BY <3>1 DEF Before, Moves
      <3>3. Covered(s, n - 1)
        BY <3>1, <3>2
      <3>4. n - 1 \in 0..N /\ n - 1 <= Len(evm'.rehashes)
        BY <1>1, <1>2
      <3>5. \A last \in 0..N : last <= Len(evm'.rehashes) => (Covered(s, last) => Covered(s, last)')
        BY <1>4, <3>2 DEF CoverLasts, N
      <3>6. Covered(s, n - 1) => Covered(s, n - 1)'
        BY <3>4, <3>5
      <3> QED
        BY <3>3, <3>6
    <2>3. \A i \in Owners(evm'.rehashes[n]) :
             /\ i \in DOMAIN tx' /\ tx'[i].does = "rehash"
             /\ tx'[i].to = evm'.rehashes[n].to /\ tx'[i].key.hash = evm'.rehashes[n].from
             /\ \A s \in DOMAIN tx' : Before(tx[i].key, s)' => Covered(s, n - 1)'
      BY <1>2, <2>2
    <2>4. evm'.rehashes[n].op # 0 =>
             /\ evm'.rehashes[n].op \in DOMAIN tx' /\ tx'[evm'.rehashes[n].op].userOp
             /\ evm'.rehashes[n].txid \in {0, evm'.rehashes[n].op}
      BY <1>2
    <2> QED
      BY <2>3, <2>4 DEF EntryOK
  <1>7. evm'.rehashes[1].from = OwnHash
    <2>1. 1 \in 1..N /\ evm.rehashes # <<>>
      BY <1>1
    <2>2. evm.rehashes[1].from = OwnHash
      BY <2>1 DEF RecordsOK
    <2> QED
      BY <1>2, <2>1, <2>2
  <1>8. \A m \in DOMAIN evm'.rehashes : EntryOK(m)'
    BY <1>2, <1>5, <1>6
  <1>9. RecordsOK'
    BY <1>2, <1>7, <1>8 DEF RecordsOK
  <1> QED
    BY <1>1, <1>2, <1>4, <1>9 DEF N

\* The last record goes.
LEMMA RecordsDrop ==
  ASSUME RecordsOK, RehashTxsOK, TxsKeep, BeforeLasts, Len(evm.rehashes) # 0,
         evm'.rehashes = RemoveAt(evm.rehashes, Len(evm.rehashes))
  PROVE  /\ RecordsOK' /\ CoverLasts
         /\ Len(evm'.rehashes) = Len(evm.rehashes) - 1
         /\ \A m \in DOMAIN evm'.rehashes : m \in DOMAIN evm.rehashes /\ evm'.rehashes[m] = evm.rehashes[m]
  <1> DEFINE N == Len(evm.rehashes)
  <1>1. N \in Nat \ {0} /\ DOMAIN evm.rehashes = 1..N /\ evm.rehashes \in Seq(Entry)
    BY DEF RecordsOK
  <1>2. /\ evm'.rehashes \in Seq(Entry) /\ Len(evm'.rehashes) = N - 1
        /\ DOMAIN evm'.rehashes = 1..(N - 1)
        /\ \A m \in 1..(N - 1) : evm'.rehashes[m] = evm.rehashes[m]
    <2> DEFINE kept == SubSeq(evm.rehashes, 1, N - 1)
               rest == SubSeq(evm.rehashes, N + 1, N)
    <2>1. /\ kept \in Seq(Entry) /\ Len(kept) = N - 1 /\ DOMAIN kept = 1..(N - 1)
          /\ \A m \in 1..(N - 1) : kept[m] = evm.rehashes[m]
      BY <1>1
    <2>2. rest \in Seq(Entry) /\ Len(rest) = 0
      BY <1>1
    <2>3. evm'.rehashes = kept \o rest
      BY DEF RemoveAt
    <2> HIDE DEF kept, rest
    <2> QED
      BY <1>1, <2>1, <2>2, <2>3
  <1> HIDE DEF N
  <1>3. \A m \in 1..(N - 1) : m \in 1..N
    BY <1>1
  <1>4. CoverLasts
    <2> SUFFICES ASSUME NEW s \in DOMAIN tx, NEW last \in 0..N, last <= N - 1, Covered(s, last)
                 PROVE  Covered(s, last)'
      BY <1>2 DEF CoverLasts, N
    <2>1. PICK m \in 1..last : Leads(evm.rehashes[m], s)
      BY DEF Covered
    <2>2. m \in 1..(N - 1)
      BY <1>1
    <2>3. Leads(evm.rehashes[m], s)'
      BY <1>1, <1>2, <1>3, <2>1, <2>2, LeadsLast
    <2> QED
      BY <2>3 DEF Covered
  <1>5. \A m \in 1..(N - 1) : EntryOK(m)'
    BY <1>1, <1>2, <1>3, <1>4, EntryStays
  <1>6. evm'.rehashes # <<>> => evm'.rehashes[1].from = OwnHash
    <2> SUFFICES ASSUME evm'.rehashes # <<>> PROVE evm'.rehashes[1].from = OwnHash
      OBVIOUS
    <2>1. 1 \in 1..(N - 1) /\ evm.rehashes # <<>>
      BY <1>1, <1>2
    <2> QED
      BY <1>2, <2>1 DEF RecordsOK
  <1> QED
    BY <1>1, <1>2, <1>3, <1>4, <1>5, <1>6 DEF RecordsOK, N

\* The record that an update supersedes is the last that matches, if one does.
LEMMA LastMatches ==
  ASSUME NEW rehashes, Len(rehashes) \in Nat, NEW Matching, Matching \subseteq 1..Len(rehashes),
         NEW found, found = IF Matching # {} THEN Max(Matching) ELSE 0
  PROVE  /\ found \in Matching \/ (found = 0 /\ Matching = {})
         /\ \A m \in Matching : m <= found
  <1>1. CASE Matching = {}
    BY <1>1
  <1>2. CASE Matching # {}
    BY <1>2, GreatestOf
  <1> QED
    BY <1>1, <1>2

\* Where a call moves a lock: with the wallet's transaction, or with a UserOp before and after
\* the record is sure to say so.
Preparing == call.at \in {"prepare", "sendOp", "submitted"}
Signing == call.at \in {"sendOp", "submitted", "waitOp"}
ByWallet == call.at \in {"recordRehash", "waitRehash"}

\* The records but the one a running call made first.
KeptLen == IF Preparing THEN Len(evm.rehashes) - 1 ELSE Len(evm.rehashes)

IsOp(i) == i \in DOMAIN tx /\ tx[i].does = "rehash" /\ tx[i].userOp
MayLand(i) == IsOp(i) /\ tx[i].state # "unsent"

\* A call that moves a lock moves one every move before which is on record, and the last
\* record is its own until its UserOp is known to be on its way.
RehashCallOK ==
    /\ route # "relay" => ~Preparing /\ ~Signing /\ \A i \in DOMAIN tx : ~IsOp(i)
    /\ ByWallet => route # "relay"
    /\ ByWallet \/ Signing =>
          /\ call.id \in DOMAIN tx /\ tx[call.id].does = "rehash"
          /\ tx[call.id].key = call.key /\ tx[call.id].to = call.to
          /\ tx[call.id].userOp <=> Signing
    /\ ByWallet \/ Preparing \/ Signing =>
          /\ call.key \in Locks /\ call.to \in Invoices
          /\ \A s \in DOMAIN tx : Before(call.key, s) => Covered(s, KeptLen)
          /\ evm.rehashes = <<>> => call.at = "recordRehash" /\ call.key.hash = OwnHash
    /\ call.at = "prepare" => call.op = 0 /\ call.id = 0
    /\ Signing => call.op \in {0, call.id}
    /\ Preparing =>
          LET entry == evm.rehashes[Len(evm.rehashes)] IN
          /\ entry.txid = 0 /\ entry.to = call.to /\ entry.from = call.key.hash
          /\ entry.op \in {0, call.op}

\* A record that names the UserOp, or the pending record of the same move.
Remembers(n, i) == evm.rehashes[n].to = tx[i].to /\ evm.rehashes[n].op \in {0, i}

\* What may land is on record, if it is not the running call's.
RememberedOK ==
    \A i \in DOMAIN tx :
        MayLand(i) /\ ~(Preparing /\ i = call.id) => \E n \in 1..KeptLen : Remembers(n, i)

\* The chain moves on, or nothing of a rehash does.
LEMMA RehashStands ==
  ASSUME RecordsOK, RehashCallOK, RememberedOK, LocksGo, CoverLasts, UNCHANGED <<route, call>>,
         evm'.rehashes = evm.rehashes, \A i \in DOMAIN tx' : IsOp(i)' => IsOp(i),
         \A i \in DOMAIN tx' : MayLand(i)' => MayLand(i)
  PROVE  RehashCallOK' /\ RememberedOK'
  <1>1. /\ Preparing' = Preparing /\ Signing' = Signing /\ ByWallet' = ByWallet /\ KeptLen' = KeptLen
        /\ Len(evm.rehashes) \in Nat
    BY DEF Preparing, Signing, ByWallet, KeptLen, RecordsOK
  <1>2. /\ TxsKeep /\ Locks \subseteq Locks' /\ \A k \in Locks : \A s : Before(k, s)' <=> Before(k, s)
    BY DEF LocksGo, BeforeLasts
  <1>3. ASSUME ByWallet \/ Preparing \/ Signing
        PROVE  /\ call.key \in Locks' /\ call.to \in Invoices
               /\ \A s \in DOMAIN tx' : Before(call.key, s)' => Covered(s, KeptLen)'
               /\ evm.rehashes = <<>> => call.at = "recordRehash" /\ call.key.hash = OwnHash
    <2>1. /\ call.key \in Locks /\ call.to \in Invoices
          /\ \A s \in DOMAIN tx : Before(call.key, s) => Covered(s, KeptLen)
          /\ evm.rehashes = <<>> => call.at = "recordRehash" /\ call.key.hash = OwnHash
      BY <1>3 DEF RehashCallOK
    <2>2. KeptLen \in 0..Len(evm.rehashes) /\ KeptLen <= Len(evm'.rehashes)
      <3>1. Preparing => Len(evm.rehashes) # 0
        <4> SUFFICES ASSUME Preparing, Len(evm.rehashes) = 0 PROVE FALSE
          OBVIOUS
        <4>1. evm.rehashes = <<>>
          BY DEF RecordsOK
        <4> QED
          BY <2>1, <4>1 DEF Preparing
      <3> QED
        BY <1>1, <3>1 DEF KeptLen
    <2>3. ASSUME NEW s \in DOMAIN tx', Before(call.key, s)' PROVE Covered(s, KeptLen)'
      <3>1. Before(call.key, s)
        <4> DEFINE k == call.key
        <4>1. k' = k /\ k \in Locks /\ Before(k, s)'
          BY <2>1, <2>3
        <4> HIDE DEF k
        <4>2. \A l \in Locks : Before(l, s)' => Before(l, s)
          BY <1>2
        <4>3. Before(k, s)
          BY <4>1, <4>2 DEF Before
        <4> QED
          BY <4>3 DEF k
      <3>2. s \in DOMAIN tx
        BY <3>1 DEF Before, Moves
      <3>3. Covered(s, KeptLen)
        BY <2>1, <3>1, <3>2
      <3>4. \A last \in 0..Len(evm.rehashes) :
               last <= Len(evm'.rehashes) => (Covered(s, last) => Covered(s, last)')
        BY <3>2 DEF CoverLasts
      <3> DEFINE kept == KeptLen
      <3>5. kept' = kept /\ kept \in 0..Len(evm.rehashes) /\ kept <= Len(evm'.rehashes) /\ Covered(s, kept)
        BY <1>1, <2>2, <3>3
      <3> HIDE DEF kept
      <3>6. Covered(s, kept)'
        BY <3>4, <3>5 DEF Covered
      <3> QED
        BY <3>6 DEF kept
    <2> QED
      BY <1>2, <2>1, <2>3
  <1>4. ByWallet \/ Signing =>
          /\ call.id \in DOMAIN tx' /\ tx'[call.id].does = "rehash"
          /\ tx'[call.id].key = call.key /\ tx'[call.id].to = call.to
          /\ tx'[call.id].userOp <=> Signing
    BY <1>2 DEF RehashCallOK, TxsKeep
  <1>5. RehashCallOK'
    <2>1. /\ route # "relay" => ~Preparing /\ ~Signing /\ \A i \in DOMAIN tx' : ~IsOp(i)'
          /\ ByWallet => route # "relay"
          /\ call.at = "prepare" => call.op = 0 /\ call.id = 0
          /\ Signing => call.op \in {0, call.id}
      BY DEF RehashCallOK, IsOp
    <2>2. Preparing =>
          LET entry == evm.rehashes[Len(evm.rehashes)] IN
          /\ entry.txid = 0 /\ entry.to = call.to /\ entry.from = call.key.hash
          /\ entry.op \in {0, call.op}
      BY DEF RehashCallOK
    <2> QED
      BY <1>1, <1>3, <1>4, <2>1, <2>2 DEF RehashCallOK
  <1>6. RememberedOK'
    <2> SUFFICES ASSUME NEW i \in DOMAIN tx', MayLand(i)', ~(Preparing /\ i = call.id)
                 PROVE  \E n \in 1..KeptLen : Remembers(n, i)'
      BY <1>1 DEF RememberedOK
    <2>1. MayLand(i) /\ i \in DOMAIN tx
      BY DEF MayLand, IsOp
    <2>2. PICK n \in 1..KeptLen : Remembers(n, i)
      BY <2>1 DEF RememberedOK
    <2>3. tx'[i].to = tx[i].to
      BY <1>2, <2>1 DEF TxsKeep
    <2> QED
      BY <2>2, <2>3 DEF Remembers
  <1> QED
    BY <1>5, <1>6

\* A call that moves no lock: what the one before it sent is on record.
LEMMA RehashEnds ==
  ASSUME FundTxsOK, RecordsOK, RehashCallOK, RememberedOK, LocksGo, UNCHANGED route,
         evm'.rehashes = evm.rehashes, ~Preparing', ~Signing', ~ByWallet',
         \A i \in DOMAIN tx' : IsOp(i)' => IsOp(i),
         \A i \in DOMAIN tx' : MayLand(i)' => MayLand(i) \/ (call.at = "sendOp" /\ i = call.id)
  PROVE  RehashCallOK' /\ RememberedOK'
  <1>1. RehashCallOK'
    BY DEF RehashCallOK, IsOp, Preparing
  <1>2. KeptLen' = Len(evm.rehashes) /\ Len(evm.rehashes) \in Nat
    BY DEF KeptLen, RecordsOK
  <1>3. RememberedOK'
    <2> SUFFICES ASSUME NEW i \in DOMAIN tx', MayLand(i)'
                 PROVE  \E n \in 1..Len(evm.rehashes) : Remembers(n, i)'
      BY <1>2 DEF RememberedOK
    <2>1. i \in DOMAIN tx /\ IsOp(i) /\ tx'[i].to = tx[i].to
      BY DEF MayLand, IsOp, LocksGo, TxsKeep
    <2>2. \E n \in 1..Len(evm.rehashes) : Remembers(n, i)
      <3>1. CASE Preparing /\ i = call.id
        <4>1. call.at # "prepare"
          <5>1. call.at = "prepare" => i = 0
            BY <3>1 DEF RehashCallOK
          <5>2. 0 \notin DOMAIN tx
            BY DEF FundTxsOK
          <5> QED
            BY <2>1, <5>1, <5>2
        <4>2. Signing
          BY <3>1, <4>1 DEF Preparing, Signing
        <4>3. evm.rehashes # <<>>
          BY <3>1 DEF RehashCallOK, Preparing
        <4>4. Len(evm.rehashes) \in 1..Len(evm.rehashes)
          BY <1>2, <4>3 DEF RecordsOK
        <4>5. Remembers(Len(evm.rehashes), i)
          BY <3>1, <4>2 DEF RehashCallOK, Remembers
        <4> QED
          BY <4>4, <4>5
      <3>2. CASE ~(Preparing /\ i = call.id) /\ MayLand(i)
        <4>1. PICK n \in 1..KeptLen : Remembers(n, i)
          BY <2>1, <3>2 DEF RememberedOK
        <4>2. n \in 1..Len(evm.rehashes)
          BY <1>2, <4>1 DEF KeptLen
        <4> QED
          BY <4>1, <4>2
      <3>3. CASE ~(Preparing /\ i = call.id) /\ ~MayLand(i)
        <4> QED
          BY <3>3 DEF Preparing
      <3> QED
        BY <3>1, <3>2, <3>3
    <2> QED
      BY <2>1, <2>2 DEF Remembers
  <1> QED
    BY <1>1, <1>3

\* The greatest of finitely many places is there.
LEMMA MaxOfPlaces ==
  ASSUME NEW n \in Nat, NEW s, s \subseteq 1..n, n \in s
  PROVE  Max(s) = n
  <1>1. \A y \in s : n >= y
    OBVIOUS
  <1>2. \A x \in s : (\A y \in s : x >= y) => x = n
    OBVIOUS
  <1> QED
    BY <1>1, <1>2 DEF Max

\* rehashedTerms follows the records one by one (the loop a fold stands for).
LEMMA WalkGoes ==
  ASSUME NEW key, NEW rehashes, NEW N \in Nat, DOMAIN rehashes = 1..N
  PROVE  \E walk :
            /\ walk[0] = key
            /\ \A n \in 1..N : walk[n] = FollowRehash(walk[n - 1], rehashes[n])
            /\ walk[N] = RehashedTerms(key, rehashes)
  <1> DEFINE Step(f, s) == IF s = {} THEN key ELSE FollowRehash(f[s \ {Max(s)}], rehashes[Max(s)])
             Follows(f, n) == f = [s \in SUBSET (1..n) |-> Step(f, s)]
             iter == CHOOSE f : Follows(f, N)
  <1>1. RehashedTerms(key, rehashes) = iter[1..N]
    <2>1. RehashedTerms(key, rehashes) =
             LET it[s \in SUBSET (DOMAIN rehashes)] ==
                    IF s = {} THEN key ELSE FollowRehash(it[s \ {Max(s)}], rehashes[Max(s)])
             IN  it[DOMAIN rehashes]
      BY Zenon DEF RehashedTerms, FoldLeft, MapThenFoldSet
    <2> QED
      BY <2>1
  <1>2. ASSUME NEW n \in Nat PROVE \E f : Follows(f, n)
    <2> DEFINE bad == {m \in Nat : ~\E f : Follows(f, m)}
    <2> SUFFICES ASSUME bad # {} PROVE FALSE
      OBVIOUS
    <2>1. PICK m \in bad : \A k \in bad : ~(<<k, m>> \in OpToRel(<, Nat))
      BY WFMin, NatLessThanWellFounded, bad \subseteq Nat
    <2>2. m # 0
      <3> DEFINE g == [s \in SUBSET (1..0) |-> key]
      <3>1. \A s \in SUBSET (1..0) : Step(g, s) = key
        OBVIOUS
      <3>2. Follows(g, 0)
        BY <3>1
      <3> HIDE DEF g, Follows
      <3> QED
        BY <2>1, <3>2
    <2>3. m \in Nat /\ m - 1 \in Nat /\ m - 1 < m
      <3>1. m \in Nat
        BY <2>1
      <3> QED
        BY <2>2, <3>1
    <2>4. PICK f : Follows(f, m - 1)
      <3>1. <<m - 1, m>> \in OpToRel(<, Nat)
        BY <2>3 DEF OpToRel
      <3> HIDE DEF Follows
      <3> QED
        BY <2>1, <2>3, <3>1
    <2> DEFINE g == [s \in SUBSET (1..m) |-> IF m \in s THEN FollowRehash(f[s \ {m}], rehashes[m]) ELSE f[s]]
    <2>5. ASSUME NEW s \in SUBSET (1..m) PROVE g[s] = Step(g, s)
      <3>1. CASE m \in s
        <4>1. Max(s) = m
          BY <2>3, <3>1, MaxOfPlaces
        <4>2. s \ {m} \in SUBSET (1..m) /\ m \notin s \ {m}
          OBVIOUS
        <4>3. g[s \ {m}] = f[s \ {m}]
          BY <4>2
        <4>4. g[s] = FollowRehash(f[s \ {m}], rehashes[m])
          BY <3>1
        <4> HIDE DEF g
        <4> QED
          BY <3>1, <4>1, <4>3, <4>4
      <3>2. CASE m \notin s
        <4>1. s \in SUBSET (1..(m - 1))
          BY <2>3, <3>2
        <4>2. f[s] = Step(f, s)
          BY <2>4, <4>1
        <4>3. g[s] = f[s]
          BY <3>2
        <4>4. s \ {Max(s)} \in SUBSET (1..m) /\ m \notin s \ {Max(s)}
          BY <3>2
        <4>5. g[s \ {Max(s)}] = f[s \ {Max(s)}]
          BY <4>4
        <4> HIDE DEF g
        <4> QED
          BY <4>2, <4>3, <4>5
      <3> QED
        BY <3>1, <3>2
    <2>6. Follows(g, m)
      <3>1. g = [s \in SUBSET (1..m) |-> g[s]]
        OBVIOUS
      <3> HIDE DEF g, Step
      <3> QED
        BY <2>5, <3>1
    <2> HIDE DEF g, Follows
    <2> QED
      BY <2>1, <2>6
  <1>3. Follows(iter, N)
    <2> HIDE DEF Follows
    <2> QED
      BY <1>2
  <1> DEFINE walk == [n \in 0..N |-> iter[1..n]]
  <1>4. walk[0] = key
    <2>1. iter[{}] = key
      BY <1>3
    <2>2. 1..0 = {} /\ 0 \in 0..N
      OBVIOUS
    <2> HIDE DEF iter
    <2> QED
      BY <2>1, <2>2
  <1>5. ASSUME NEW n \in 1..N PROVE walk[n] = FollowRehash(walk[n - 1], rehashes[n])
    <2>1. 1..n \in SUBSET (1..N) /\ n \in 1..n /\ 1..n # {} /\ (1..n) \ {n} = 1..(n - 1)
      <3>1. n \in Nat /\ 1 <= n /\ n <= N
        OBVIOUS
      <3>2. \A x \in 1..n : x \in 1..N /\ (x = n \/ x \in 1..(n - 1))
        BY <3>1
      <3>3. \A x \in 1..(n - 1) : x \in 1..n /\ x # n
        BY <3>1
      <3>4. (1..n) \ {n} = 1..(n - 1)
        <4> DEFINE A == 1..n
                   B == 1..(n - 1)
        <4>1. \A x \in A : x = n \/ x \in B
          BY <3>2
        <4>2. \A x \in B : x \in A /\ x # n
          BY <3>3
        <4> HIDE DEF A, B
        <4>3. A \ {n} = B
          BY <4>1, <4>2
        <4> QED
          BY <4>3 DEF A, B
      <3> QED
        BY <3>1, <3>2, <3>4
    <2>2. Max(1..n) = n
      BY MaxOfPlaces, n \in Nat, n \in 1..n
    <2>3. iter[1..n] = Step(iter, 1..n)
      BY <1>3, <2>1
    <2>4. n \in 0..N /\ n - 1 \in 0..N
      OBVIOUS
    <2> HIDE DEF iter
    <2>5. walk[n] = iter[1..n] /\ walk[n - 1] = iter[1..(n - 1)]
      BY <2>4
    <2> QED
      BY <2>1, <2>2, <2>3, <2>5
  <1>6. walk[N] = RehashedTerms(key, rehashes)
    <2> HIDE DEF iter
    <2> QED
      BY <1>1
  <1> HIDE DEF walk
  <1> QED
    BY <1>4, <1>5, <1>6

\* What stands under the nonce of a UserOp is the UserOp.
LEMMA OpStands ==
  ASSUME FundTxsOK, RehashTxsOK, NEW i \in DOMAIN tx, tx[i].userOp
  PROVE  Mined[i] = i
  BY MinedStands DEF FundTxsOK, RehashTxsOK

\* The transaction a record is followed to, and the one that stands for it.
LEMMA FollowedIs ==
  ASSUME FundTxsOK, RehashTxsOK, RecordsOK, NEW n \in DOMAIN evm.rehashes,
         NEW i, i = FollowedTx(evm.rehashes[n]), i # 0
  PROVE  /\ i \in Owners(evm.rehashes[n]) /\ i \in DOMAIN tx
         /\ Mined[i] \in DOMAIN tx /\ tx[Mined[i]].nonce = tx[i].nonce /\ tx[Mined[i]].state # "replaced"
         /\ Leads(evm.rehashes[n], Mined[i])
         /\ \A s \in DOMAIN tx : Leads(evm.rehashes[n], s) /\ tx[s].state # "replaced" => s = Mined[i]
  <1> DEFINE e == evm.rehashes[n]
  <1>1. e \in Entry /\ EntryOK(n)
    BY EntryIs
  <1>2. i = IF e.txid = 0 THEN PendingRehashTx(e) ELSE e.txid
    BY DEF FollowedTx
  <1>3. PendingRehashTx(e) \in {0, e.op}
    BY DEF PendingRehashTx
  <1>4. i \in Owners(e) /\ (e.txid = 0 => i = e.op) /\ (e.txid # 0 => i = e.txid)
    <2> HIDE DEF e
    <2> QED
      BY <1>2, <1>3 DEF Owners
  <1>5. i \in DOMAIN tx
    BY <1>1, <1>4 DEF EntryOK
  <1>6. Mined[i] \in DOMAIN tx /\ tx[Mined[i]].nonce = tx[i].nonce /\ tx[Mined[i]].state # "replaced"
    BY <1>5, MinedStands
  <1>7. e.txid = 0 => Mined[i] = i
    <2>1. e.txid = 0 => tx[i].userOp
      BY <1>1, <1>4 DEF EntryOK
    <2> QED
      BY <1>5, <2>1, OpStands
  <1> HIDE DEF e
  <1>8. Leads(e, Mined[i])
    BY <1>4, <1>6, <1>7 DEF Leads
  <1>9. ASSUME NEW s \in DOMAIN tx, Leads(e, s), tx[s].state # "replaced"
        PROVE  s = Mined[i]
    <2>1. CASE e.txid = 0
      BY <1>4, <1>7, <1>9, <2>1 DEF Leads
    <2>2. CASE e.txid # 0
      <3>1. tx[s].nonce = tx[Mined[i]].nonce
        BY <1>4, <1>6, <1>9, <2>2 DEF Leads
      <3> QED
        BY <1>6, <1>9, <3>1 DEF FundTxsOK
    <2> QED
      BY <2>1, <2>2
  <1> QED
    BY <1>4, <1>5, <1>6, <1>8, <1>9 DEF e

\* What one record does to the terms.
LEMMA RecordFollowed ==
  ASSUME FundTxsOK, RehashTxsOK, RecordsOK, NEW n \in DOMAIN evm.rehashes, NEW terms,
         terms # NoKey, FollowRehash(terms, evm.rehashes[n]) # NoKey,
         NEW i, i = FollowedTx(evm.rehashes[n])
  PROVE  \/ /\ FollowRehash(terms, evm.rehashes[n]) = terms
            /\ \/ i = 0
               \/ tx[Mined[i]].state # "success" \/ tx[Mined[i]].does # "rehash" \/ tx[Mined[i]].key # terms
         \/ /\ i # 0 /\ Moves(Mined[i]) /\ tx[Mined[i]].key = terms
            /\ FollowRehash(terms, evm.rehashes[n]) = Moved(Mined[i])
  <1> DEFINE e == evm.rehashes[n]
             next == FollowRehash(terms, e)
  <1>1. next = IF terms = NoKey \/ i = 0 THEN terms
               ELSE IF ~HasReceipt(i) THEN NoKey
               ELSE IF ~Succeeded(i) \/ SwapRehashed(i, terms) = {} THEN terms
               ELSE IF SwapRehashed(i, terms) = {e.to} THEN [terms EXCEPT !.hash = e.to]
               ELSE NoKey
    BY DEF FollowRehash
  <1> HIDE DEF e, next
  <1>2. CASE i = 0
    BY <1>1, <1>2 DEF e, next
  <1>3. CASE i # 0
    <2>1. HasReceipt(i)
      BY <1>1, <1>3 DEF next, e
    <2>2. Mined[i] \in DOMAIN tx
      BY <1>3, FollowedIs
    <2>3. CASE ~Succeeded(i)
      <3>1. tx[Mined[i]].state # "success"
        BY <2>1, <2>3 DEF Succeeded
      <3> QED
        BY <1>1, <1>3, <2>1, <2>3, <3>1 DEF next, e
    <2>4. CASE Succeeded(i) /\ SwapRehashed(i, terms) = {}
      <3>1. tx[Mined[i]].does # "rehash" \/ tx[Mined[i]].key # terms
        BY <2>4 DEF SwapRehashed
      <3> QED
        BY <1>1, <1>3, <2>1, <2>4, <3>1 DEF next, e
    <2>5. CASE Succeeded(i) /\ SwapRehashed(i, terms) # {}
      <3>1. tx[Mined[i]].does = "rehash" /\ tx[Mined[i]].key = terms /\ tx[Mined[i]].state = "success"
            /\ SwapRehashed(i, terms) = {tx[Mined[i]].to}
        BY <2>5 DEF SwapRehashed, Succeeded
      <3>2. next = [terms EXCEPT !.hash = e.to] /\ e.to = tx[Mined[i]].to
        BY <1>1, <1>3, <2>1, <2>5, <3>1 DEF next, e
      <3>3. next = Moved(Mined[i])
        BY <3>1, <3>2 DEF Moved
      <3> QED
        BY <1>3, <2>2, <3>1, <3>3 DEF next, e, Moves
    <2> QED
      BY <2>3, <2>4, <2>5
  <1> QED
    BY <1>2, <1>3

\* The locks a move is from and to.
LEMMA MoveIs ==
  ASSUME FundInv, LocksInv, NEW r, Moves(r)
  PROVE  /\ tx[r].to \in Invoices /\ tx[r].key \in Locks /\ tx[r].key \in LockKey /\ tx[r].to # OwnHash
         /\ Moved(r).hash = tx[r].to /\ Moved(r).origin = tx[r].key.origin /\ Moved(r) \in Locks
         /\ r \in DOMAIN tx /\ tx[r].state # "replaced"
  <1>1. /\ tx[r].to \in Invoices /\ tx[r].key \in Locks /\ tx[r].key \in LockKey /\ r \in DOMAIN tx
        /\ Moved(r) \in Locks /\ tx[r].state # "replaced"
    BY DEF Moves, LocksInv, RehashTxsOK, MovesOK, FundInv, FundLocksOK
  <1> QED
    BY <1>1, FundingAssumption DEF Moved, LockKey

\* A lock a deposit created was not moved to.
LEMMA CreatedIsFirst ==
  ASSUME FundInv, LocksInv, NEW k, k.hash = OwnHash
  PROVE  \A s : ~Before(k, s)
  <1> SUFFICES ASSUME NEW r, MovedTo(r, k) PROVE FALSE
    BY DEF Before
  <1> QED
    BY MoveIs DEF MovedTo

\* One record on the client's walk: where it goes on, every move that led there is on record.
LEMMA WalkOn ==
  ASSUME FundInv, LocksInv, RecordsOK, NEW n \in DOMAIN evm.rehashes, NEW terms \in Locks,
         terms # NoKey, \A s \in DOMAIN tx : Before(terms, s) => Covered(s, n - 1),
         FollowRehash(terms, evm.rehashes[n]) # NoKey
  PROVE  LET next == FollowRehash(terms, evm.rehashes[n]) IN
         /\ next \in Locks /\ next.origin = terms.origin
         /\ \A s \in DOMAIN tx : Before(next, s) => Covered(s, n)
  <1> DEFINE next == FollowRehash(terms, evm.rehashes[n])
             i == FollowedTx(evm.rehashes[n])
             r == Mined[i]
  <1>a. Len(evm.rehashes) \in Nat /\ n \in 1..Len(evm.rehashes) /\ DOMAIN tx = 1..Len(tx)
    BY DEF RecordsOK, FundInv, FundTxsOK
  <1>b. FundTxsOK /\ RehashTxsOK
    BY DEF FundInv, LocksInv
  <1>1. \/ next = terms
        \/ i # 0 /\ Moves(r) /\ tx[r].key = terms /\ next = Moved(r)
    BY <1>b, RecordFollowed
  <1>2. i # 0 => Leads(evm.rehashes[n], r)
    BY <1>b, FollowedIs
  <1>3. \A s : Covered(s, n - 1) => Covered(s, n)
    <2>1. \A m \in 1..(n - 1) : m \in 1..n
      BY <1>a
    <2> QED
      BY <2>1 DEF Covered
  <1> HIDE DEF next, i, r
  <1>4. CASE next = terms
    BY <1>3, <1>4 DEF next
  <1>5. CASE i # 0 /\ Moves(r) /\ tx[r].key = terms /\ next = Moved(r)
    <2>1. next \in Locks /\ next.origin = terms.origin /\ r \in DOMAIN tx
      BY <1>5, MoveIs
    <2>2. ASSUME NEW s \in DOMAIN tx, Before(next, s) PROVE Covered(s, n)
      <3>1. Moves(s) /\ tx[s].key.origin = terms.origin
        BY <2>1, <2>2 DEF Before
      <3>2. PICK t \in DOMAIN tx : MovedTo(t, next) /\ s <= t
        BY <2>2 DEF Before
      <3>3. t = r
        BY <1>5, <2>1, <3>2 DEF MovedTo, LocksInv, MovesOK
      <3>4. CASE s = r
        <4>1. n \in 1..n
          BY <1>a
        <4> QED
          BY <1>2, <1>5, <3>4, <4>1 DEF Covered
      <3>5. CASE s # r
        <4>1. s < r
          BY <1>a, <3>2, <3>3, <3>5
        <4>2. Before(terms, s)
          BY <1>5, <2>1, <3>1, <4>1 DEF LocksInv, ChainOK
        <4> QED
          BY <1>3, <4>2
      <3> QED
        BY <3>4, <3>5
    <2> QED
      BY <2>1, <2>2 DEF next
  <1> QED
    BY <1>1, <1>4, <1>5

\* The client's walk along the records from the lock a funding created, which ends where its
\* terms are: every move that led there is on record.
LEMMA WalkKnows ==
  ASSUME FundInv, LocksInv, RecordsOK, NEW created \in Locks, created.hash = OwnHash,
         RehashedTerms(created, evm.rehashes) # NoKey
  PROVE  LET terms == RehashedTerms(created, evm.rehashes) IN
         /\ terms \in Locks /\ terms.origin = created.origin
         /\ \A s \in DOMAIN tx : Before(terms, s) => Covered(s, Len(evm.rehashes))
         /\ evm.rehashes = <<>> => terms.hash = OwnHash
  <1> DEFINE N == Len(evm.rehashes)
  <1>1. N \in Nat /\ DOMAIN evm.rehashes = 1..N
    BY DEF RecordsOK
  <1>2. PICK walk :
           /\ walk[0] = created
           /\ \A n \in 1..N : walk[n] = FollowRehash(walk[n - 1], evm.rehashes[n])
           /\ walk[N] = RehashedTerms(created, evm.rehashes)
    BY <1>1, WalkGoes
  <1> DEFINE Known(n) == \/ walk[n] = NoKey
                         \/ /\ walk[n] \in Locks /\ walk[n].origin = created.origin
                            /\ \A s \in DOMAIN tx : Before(walk[n], s) => Covered(s, n)
             bad == {n \in 0..N : ~Known(n)}
  <1>3. Known(0)
    BY <1>2, CreatedIsFirst
  <1>4. ASSUME NEW n \in 1..N, Known(n - 1) PROVE Known(n)
    <2> DEFINE terms == walk[n - 1]
    <2>1. n \in DOMAIN evm.rehashes /\ walk[n] = FollowRehash(terms, evm.rehashes[n])
      BY <1>1, <1>2
    <2>2. CASE terms = NoKey
      BY <2>1, <2>2 DEF FollowRehash
    <2>3. CASE walk[n] = NoKey
      BY <2>3
    <2>4. CASE terms # NoKey /\ walk[n] # NoKey
      <3>1. /\ terms \in Locks /\ terms.origin = created.origin
            /\ \A s \in DOMAIN tx : Before(terms, s) => Covered(s, n - 1)
        BY <1>4, <2>4
      <3> HIDE DEF terms
      <3>2. LET next == FollowRehash(terms, evm.rehashes[n]) IN
            /\ next \in Locks /\ next.origin = terms.origin
            /\ \A s \in DOMAIN tx : Before(next, s) => Covered(s, n)
        BY <2>1, <2>4, <3>1, WalkOn
      <3> QED
        BY <2>1, <3>1, <3>2
    <2> QED
      BY <2>2, <2>3, <2>4
  <1>5. \A n \in 0..N : Known(n)
    <2> SUFFICES ASSUME bad # {} PROVE FALSE
      OBVIOUS
    <2>1. bad \subseteq Nat
      OBVIOUS
    <2>2. PICK n \in bad : \A m \in bad : ~(<<m, n>> \in OpToRel(<, Nat))
      BY <2>1, WFMin, NatLessThanWellFounded
    <2>3. n \in 0..N /\ ~Known(n)
      BY <2>2
    <2>4. n # 0
      BY <1>3, <2>3
    <2>5. n \in 1..N /\ n - 1 \in 0..N /\ n - 1 \in Nat /\ n - 1 < n /\ n \in Nat
      BY <1>1, <2>3, <2>4
    <2>6. n - 1 \notin bad
      <3>1. <<n - 1, n>> \in OpToRel(<, Nat)
        BY <2>5 DEF OpToRel
      <3> HIDE DEF bad
      <3> QED
        BY <2>2, <3>1
    <2>7. Known(n - 1)
      BY <2>5, <2>6
    <2> HIDE DEF Known, bad
    <2> QED
      BY <1>4, <2>3, <2>5, <2>7
  <1>6. evm.rehashes = <<>> => N = 0
    OBVIOUS
  <1>7. N \in 0..N
    BY <1>1
  <1> HIDE DEF N
  <1> QED
    BY <1>2, <1>5, <1>6, <1>7 DEF N

\* A lock that the client finds by its funding: one of the locks, and every move that led there
\* is on record.
LEMMA LockIsKnown ==
  ASSUME FundInv, LocksInv, RecordsOK, NEW i, LockFromFundingTx(i).is = "lock"
  PROVE  /\ LockFromFundingTx(i).key \in Locks
         /\ \A s \in DOMAIN tx : Before(LockFromFundingTx(i).key, s) => Covered(s, Len(evm.rehashes))
         /\ evm.rehashes = <<>> => LockFromFundingTx(i).key.hash = OwnHash
  <1> DEFINE created == CHOOSE key \in SwapCreated(i, EvmSourceLeg.hash) : TRUE
             terms == RehashedTerms(created, evm.rehashes)
  <1>1. /\ HasReceipt(i) /\ Succeeded(i) /\ SwapCreated(i, EvmSourceLeg.hash) # {}
        /\ LockFromFundingTx(i) = [is |-> IF terms = NoKey THEN "unreadable" ELSE "lock", key |-> terms]
    <2>1. Unavailable.is # "lock" /\ Unreadable.is # "lock"
      BY DEF Unavailable, Unreadable
    <2>2. EvmSourceLeg.rehashes = evm.rehashes
      BY DEF EvmSourceLeg
    <2> QED
      BY <2>1, <2>2 DEF LockFromFundingTx
  <1>2. terms # NoKey /\ LockFromFundingTx(i).key = terms
    <2> HIDE DEF terms
    <2> QED
      BY <1>1
  <1>3. created \in SwapCreated(i, EvmSourceLeg.hash)
    BY <1>1
  <1> HIDE DEF created
  <1>4. Creates(Mined[i]) /\ created = [hash |-> OwnHash, origin |-> Mined[i]]
    BY <1>3 DEF SwapCreated
  <1>5. i \in DOMAIN tx /\ tx[Mined[i]].state = "success"
    BY <1>1 DEF Succeeded, HasReceipt, Sent, FundInv, FundTxsOK
  <1>6. Mined[i] \in DOMAIN tx
    BY <1>5, MinedStands DEF FundInv
  <1>7. created \in Locks
    BY <1>4, <1>5, <1>6 DEF LocksInv, CreatedOK
  <1>8. created.hash = OwnHash
    BY <1>4
  <1>9. LET t == RehashedTerms(created, evm.rehashes) IN
        /\ t \in Locks
        /\ \A s \in DOMAIN tx : Before(t, s) => Covered(s, Len(evm.rehashes))
        /\ evm.rehashes = <<>> => t.hash = OwnHash
    BY <1>2, <1>7, <1>8, WalkKnows
  <1> QED
    BY <1>2, <1>9

\* What is on record of a lock that the client moves on.
LEMMA MovableKnown ==
  ASSUME FundInv, LocksInv, RecordsOK, NEW move \in Movable
  PROVE  /\ move.key \in Locks /\ move.to \in Invoices /\ move.key \in LockKey
         /\ \A s \in DOMAIN tx : Before(move.key, s) => Covered(s, Len(evm.rehashes))
         /\ evm.rehashes = <<>> => move.key.hash = OwnHash
  <1>1. PICK i : LockFromFundingTx(i).is = "lock" /\ move.key = LockFromFundingTx(i).key
    BY MovableLock
  <1>2. Is(move.key, "Active") /\ move.to \in Invoices
    BY MovableLock
  <1>3. /\ move.key \in Locks
        /\ \A s \in DOMAIN tx : Before(move.key, s) => Covered(s, Len(evm.rehashes))
        /\ evm.rehashes = <<>> => move.key.hash = OwnHash
    <2> DEFINE found == LockFromFundingTx(i).key
    <2>1. found \in Locks
          /\ (\A s \in DOMAIN tx : Before(found, s) => Covered(s, Len(evm.rehashes)))
          /\ (evm.rehashes = <<>> => found.hash = OwnHash)
      BY <1>1, LockIsKnown
    <2>2. move.key = found
      BY <1>1
    <2> HIDE DEF found
    <2> QED
      BY <2>1, <2>2 DEF Before
  <1> QED
    BY <1>2, <1>3, LockIsKey

\* What was on record of the moves before a lock still is.
LEMMA StillCovered ==
  ASSUME LocksGo, CoverLasts, NEW k \in Locks, NEW kept \in 0..Len(evm.rehashes),
         Len(evm.rehashes) \in Nat, kept <= Len(evm'.rehashes),
         \A s \in DOMAIN tx : Before(k, s) => Covered(s, kept),
         call'.key = k, KeptLen' \in Nat, kept <= KeptLen'
  PROVE  \A s \in DOMAIN tx' : Before(call.key, s)' => Covered(s, KeptLen)'
  <1> SUFFICES ASSUME NEW s \in DOMAIN tx', Before(call.key, s)' PROVE Covered(s, KeptLen)'
    OBVIOUS
  <1>1. Before(k, s)'
    BY DEF Before
  <1>2. Before(k, s)
    <2>1. \A l \in Locks : Before(l, s)' => Before(l, s)
      BY DEF LocksGo, BeforeLasts
    <2> QED
      BY <1>1, <2>1
  <1>3. s \in DOMAIN tx
    BY <1>2 DEF Before, Moves
  <1>4. Covered(s, kept)'
    <2>1. \A last \in 0..Len(evm.rehashes) :
             last <= Len(evm'.rehashes) => (Covered(s, last) => Covered(s, last)')
      BY <1>3 DEF CoverLasts
    <2> QED
      BY <1>2, <1>3, <2>1
  <1>5. PICK m \in 1..kept : Leads(evm.rehashes[m], s)'
    BY <1>4 DEF Covered
  <1>6. m \in 1..KeptLen'
    OBVIOUS
  <1> QED
    BY <1>5, <1>6 DEF Covered

\* Nothing more is sent by a UserOp, and none is sent now.
OpsStay ==
    /\ \A i \in DOMAIN tx' : IsOp(i)' => IsOp(i)
    /\ \A i \in DOMAIN tx' : MayLand(i)' => MayLand(i)

LEMMA SameOps ==
  ASSUME UNCHANGED tx
  PROVE  OpsStay
  BY DEF OpsStay, IsOp, MayLand

\* A client that signs for itself, and does not send UserOps.
LEMMA RecordedByWallet ==
  ASSUME RecordsOK', route' # "relay", ~Preparing', ~Signing', \A i \in DOMAIN tx' : ~IsOp(i)',
         ByWallet' => /\ call'.id \in DOMAIN tx' /\ tx'[call'.id].does = "rehash"
                      /\ tx'[call'.id].key = call'.key /\ tx'[call'.id].to = call'.to
                      /\ ~tx'[call'.id].userOp
                      /\ call'.key \in Locks' /\ call'.to \in Invoices
                      /\ \A s \in DOMAIN tx' : Before(call.key, s)' => Covered(s, KeptLen)'
                      /\ evm'.rehashes = <<>> => call'.at = "recordRehash" /\ call'.key.hash = OwnHash
  PROVE  RehashCallOK' /\ RememberedOK'
  <1>1. RememberedOK'
    BY DEF RememberedOK, MayLand
  <1>2. RehashCallOK'
    BY DEF RehashCallOK, Preparing
  <1> QED
    BY <1>1, <1>2

\* The wallet broadcasts a move.
LEMMA WalletMoves ==
  ASSUME FundInv, LocksInv, RecordsOK, RehashCallOK, LocksGo, RetryWithSigner
  PROVE  RecordsOK' /\ RehashCallOK' /\ RememberedOK'
  <1>1. PICK move \in Movable :
           /\ Send(RehashTx(move, "pending", FALSE))
           /\ call' = [Idle EXCEPT !.at = "recordRehash", !.id = NewId, !.key = move.key, !.to = move.to]
    BY DEF RetryWithSigner, Starts
  <1>2. route # "relay" /\ UNCHANGED <<route, htlc, evm>>
    BY DEF RetryWithSigner
  <1>3. call'.at = "recordRehash" /\ call'.id = NewId /\ call'.key = move.key /\ call'.to = move.to
    BY <1>1 DEF Idle
  <1>4. /\ move.key \in Locks /\ move.to \in Invoices /\ move.key \in LockKey /\ move.to \in Hashes
        /\ \A s \in DOMAIN tx : Before(move.key, s) => Covered(s, Len(evm.rehashes))
        /\ evm.rehashes = <<>> => move.key.hash = OwnHash
    BY MovableKnown DEF Hashes
  <1>5. /\ NewId \in DOMAIN tx' /\ \A j \in DOMAIN tx' : j \in DOMAIN tx \/ j = NewId
        /\ \A j \in DOMAIN tx : tx'[j] = tx[j]
        /\ tx'[NewId].does = "rehash" /\ tx'[NewId].key = move.key /\ tx'[NewId].to = move.to
        /\ tx'[NewId].userOp = FALSE
    BY <1>1, <1>2, <1>4, RehashJoins DEF RehashTx, LocksInv
  <1>6. RecordsOK' /\ CoverLasts /\ Len(evm.rehashes) \in Nat
    BY <1>2, RecordsStand DEF LocksGo, LocksInv, RecordsOK
  <1>7. /\ ~Preparing' /\ ~Signing' /\ KeptLen' = Len(evm.rehashes)
    BY <1>2, <1>3 DEF Preparing, Signing, KeptLen
  <1>8. \A s \in DOMAIN tx' : Before(call.key, s)' => Covered(s, KeptLen)'
    <2> DEFINE k == move.key
               kept == Len(evm.rehashes)
    <2>1. k \in Locks /\ kept \in 0..Len(evm.rehashes) /\ kept <= Len(evm'.rehashes)
          /\ (\A s \in DOMAIN tx : Before(k, s) => Covered(s, kept))
          /\ call'.key = k /\ KeptLen' \in Nat /\ kept <= KeptLen'
      BY <1>2, <1>3, <1>4, <1>6, <1>7
    <2> HIDE DEF k, kept
    <2> QED
      BY <1>6, <2>1, StillCovered
  <1>9. \A i \in DOMAIN tx' : ~IsOp(i)'
    BY <1>2, <1>5 DEF RehashCallOK, IsOp
  <1>10. call'.key \in Locks'
    BY <1>3, <1>4 DEF LocksGo
  <1> QED
    BY <1>2, <1>3, <1>4, <1>5, <1>6, <1>7, <1>8, <1>9, <1>10, RecordedByWallet

\* A record that is written, where it supersedes one or not.
LEMMA RecordsUpdate ==
  ASSUME FundInv, RecordsOK, RehashTxsOK, LocksGo, NEW e \in Entry, NEW k \in Locks,
         NEW n \in DOMAIN evm.rehashes \cup {0}, evm' = WithRehash(e, n),
         e.op # 0 => e.op \in DOMAIN tx' /\ tx'[e.op].userOp /\ e.txid \in {0, e.op},
         \A i \in Owners(e) : i \in DOMAIN tx' /\ tx'[i].does = "rehash" /\ tx'[i].to = e.to
                              /\ tx'[i].key = k /\ k.hash = e.from,
         n = 0 => /\ evm.rehashes = <<>> => e.from = OwnHash
                  /\ \A s \in DOMAIN tx : Before(k, s) => Covered(s, Len(evm.rehashes)),
         n # 0 => /\ e.from = evm.rehashes[n].from
                  /\ \A s \in DOMAIN tx : Before(k, s) => Covered(s, n - 1)
                  /\ \A s \in DOMAIN tx : Leads(evm.rehashes[n], s) =>
                        IF e.txid = 0 THEN e.op = s ELSE tx'[e.txid].nonce = tx'[s].nonce
  PROVE  /\ RecordsOK' /\ CoverLasts
         /\ Len(evm.rehashes) \in Nat /\ Len(evm'.rehashes) \in Nat
         /\ n = 0 => Len(evm'.rehashes) = Len(evm.rehashes) + 1
         /\ n # 0 => Len(evm'.rehashes) = Len(evm.rehashes) /\ evm'.rehashes[n] = e
         /\ n = 0 => evm'.rehashes[Len(evm.rehashes) + 1] = e
         /\ \A m \in 1..Len(evm.rehashes) : m # n => evm'.rehashes[m] = evm.rehashes[m]
         /\ evm'.rehashes # <<>>
  <1>1. /\ evm = [fundTx |-> evm.fundTx, rehashes |-> evm.rehashes]
        /\ evm.rehashes \in Seq(Entry) /\ Len(evm.rehashes) \in Nat
        /\ DOMAIN evm.rehashes = 1..Len(evm.rehashes) /\ 0 \notin DOMAIN evm.rehashes
    BY DEF FundInv, FundRecordOK, RecordsOK
  <1>2. TxsKeep /\ BeforeLasts
    BY DEF LocksGo
  <1>3. CASE n = 0
    <2>1. evm'.rehashes = Append(evm.rehashes, e)
      BY <1>1, <1>3 DEF WithRehash
    <2>2. /\ RecordsOK' /\ CoverLasts
          /\ Len(evm'.rehashes) = Len(evm.rehashes) + 1
          /\ \A m \in DOMAIN evm.rehashes : evm'.rehashes[m] = evm.rehashes[m]
          /\ evm'.rehashes[Len(evm.rehashes) + 1] = e /\ evm'.rehashes # <<>>
      BY <1>2, <1>3, <2>1, RecordsGrow
    <2> QED
      BY <1>1, <1>3, <2>2
  <1>4. CASE n # 0
    <2>1. evm'.rehashes = [evm.rehashes EXCEPT ![n] = e] /\ n \in DOMAIN evm.rehashes
      BY <1>1, <1>4 DEF WithRehash
    <2>2. /\ RecordsOK' /\ CoverLasts
          /\ Len(evm'.rehashes) = Len(evm.rehashes) /\ DOMAIN evm'.rehashes = DOMAIN evm.rehashes
          /\ \A m \in DOMAIN evm.rehashes : m # n => evm'.rehashes[m] = evm.rehashes[m]
          /\ evm'.rehashes[n] = e
      BY <1>2, <1>4, <2>1, RecordsReplace
    <2>3. evm'.rehashes # <<>>
      BY <1>1, <2>1, <2>2
    <2> QED
      BY <1>1, <1>4, <2>2, <2>3
  <1> QED
    BY <1>3, <1>4

\* The record of a move as a call writes it.
LEMMA RecordIs ==
  ASSUME FundInv, NEW txid \in Nat, NEW o \in Nat
  PROVE  /\ RehashRecord(txid, o) \in Entry
         /\ RehashRecord(txid, o).txid = txid /\ RehashRecord(txid, o).op = o
         /\ RehashRecord(txid, o).from = call.key.hash /\ RehashRecord(txid, o).to = call.to
         /\ Owners(RehashRecord(txid, o)) = {txid, o} \ {0}
  <1>1. call.key.hash \in Hashes /\ call.to \in Hashes
    BY DEF FundInv, FundCallOK, LockKey
  <1> QED
    BY <1>1 DEF RehashRecord, Entry, Owners

\* A wallet's broadcast goes on record.
LEMMA WalletRecords ==
  ASSUME FundInv, LocksInv, RecordsOK, RehashCallOK, RememberedOK, LocksGo, RecordRehash
  PROVE  RecordsOK' /\ RehashCallOK' /\ RememberedOK'
  <1>1. call.at = "recordRehash" /\ ByWallet /\ UNCHANGED <<route, tx, htlc>>
    BY DEF RecordRehash, At, ByWallet
  <1>2. FundTxsOK /\ RehashTxsOK
    BY DEF FundInv, LocksInv
  <1>3. CASE Ends /\ UNCHANGED evm
    <2>1. RecordsOK'
      BY <1>2, <1>3, RecordsStand DEF LocksGo
    <2>2. ~Preparing' /\ ~Signing' /\ ~ByWallet'
      BY <1>3 DEF Ends, Idle, Preparing, Signing, ByWallet
    <2> QED
      BY <1>1, <1>2, <1>3, <2>1, <2>2, SameOps, RehashEnds DEF OpsStay
  <1>4. CASE evm' = WithRehash(RehashRecord(call.id, 0), 0) /\ Goes("waitRehash")
    <2> DEFINE e == RehashRecord(call.id, 0)
               k == call.key
    <2>1. /\ call.id \in DOMAIN tx /\ tx[call.id].does = "rehash"
          /\ tx[call.id].key = k /\ tx[call.id].to = call.to /\ ~tx[call.id].userOp
          /\ k \in Locks /\ call.to \in Invoices /\ route # "relay"
          /\ \A s \in DOMAIN tx : Before(k, s) => Covered(s, Len(evm.rehashes))
          /\ evm.rehashes = <<>> => k.hash = OwnHash
          /\ \A i \in DOMAIN tx : ~IsOp(i)
      BY <1>1 DEF RehashCallOK, Signing, KeptLen, Preparing
    <2>2. call.id \in Nat
      BY <1>2, <2>1 DEF FundTxsOK
    <2>3. /\ e \in Entry /\ e.txid = call.id /\ e.op = 0 /\ e.from = k.hash /\ e.to = call.to
          /\ Owners(e) = {call.id, 0} \ {0}
      BY <2>2, RecordIs
    <2>4. evm' = WithRehash(e, 0)
      BY <1>4
    <2> HIDE DEF e, k
    <2>5. /\ RecordsOK' /\ CoverLasts /\ Len(evm.rehashes) \in Nat
          /\ Len(evm'.rehashes) = Len(evm.rehashes) + 1 /\ evm'.rehashes # <<>>
      <3> DEFINE n == 0
      <3>1. /\ n \in DOMAIN evm.rehashes \cup {0} /\ evm' = WithRehash(e, n) /\ n = 0
            /\ \A i \in Owners(e) : i \in DOMAIN tx' /\ tx'[i].does = "rehash" /\ tx'[i].to = e.to
                                    /\ tx'[i].key = k /\ k.hash = e.from
        BY <1>1, <2>1, <2>3, <2>4
      <3> HIDE DEF n
      <3> QED
        BY <1>2, <2>1, <2>3, <3>1, RecordsUpdate
    <2>6. /\ call'.at = "waitRehash" /\ call'.id = call.id /\ call'.key = k /\ call'.to = call.to
      BY <1>4 DEF Goes, FundInv, FundCallOK, k
    <2>7. ~Preparing' /\ ~Signing' /\ KeptLen' = Len(evm.rehashes) + 1
      BY <2>5, <2>6 DEF Preparing, Signing, KeptLen
    <2>8. \A s \in DOMAIN tx' : Before(call.key, s)' => Covered(s, KeptLen)'
      <3> DEFINE kept == Len(evm.rehashes)
      <3>1. kept \in 0..Len(evm.rehashes) /\ kept <= Len(evm'.rehashes)
            /\ (\A s \in DOMAIN tx : Before(k, s) => Covered(s, kept))
            /\ KeptLen' \in Nat /\ kept <= KeptLen'
        BY <2>1, <2>5, <2>7
      <3> HIDE DEF kept
      <3> QED
        BY <2>1, <2>5, <2>6, <3>1, StillCovered
    <2>9. call'.key \in Locks' /\ \A i \in DOMAIN tx' : ~IsOp(i)'
      BY <1>1, <2>1, <2>6 DEF LocksGo, IsOp
    <2> QED
      BY <1>1, <2>1, <2>5, <2>6, <2>7, <2>8, <2>9, RecordedByWallet
  <1> QED
    BY <1>3, <1>4 DEF RecordRehash

\* What the receipt says replaced a wallet's broadcast goes on record for it.
LEMMA WalletAwaits ==
  ASSUME FundInv, LocksInv, RecordsOK, RehashCallOK, RememberedOK, LocksGo, AwaitRehash
  PROVE  RecordsOK' /\ RehashCallOK' /\ RememberedOK'
  <1>1. call.at = "waitRehash" /\ ByWallet /\ UNCHANGED <<route, tx, htlc>> /\ Ends
    BY DEF AwaitRehash, At, ByWallet
  <1>2. FundTxsOK /\ RehashTxsOK
    BY DEF FundInv, LocksInv
  <1>3. ~Preparing' /\ ~Signing' /\ ~ByWallet'
    BY <1>1 DEF Ends, Idle, Preparing, Signing, ByWallet
  <1>4. CASE UNCHANGED evm
    <2>1. RecordsOK'
      BY <1>2, <1>4, RecordsStand DEF LocksGo
    <2> QED
      BY <1>1, <1>2, <1>3, <1>4, <2>1, SameOps, RehashEnds DEF OpsStay
  <1>5. ASSUME SameCall(call.id, Mined[call.id]),
               evm' = WithRehash(RehashRecord(Mined[call.id], 0), LastMatch(LAMBDA entry : entry.txid = call.id))
        PROVE  RecordsOK' /\ RehashCallOK' /\ RememberedOK'
    <2> DEFINE c == call.id
               j == Mined[c]
               e == RehashRecord(j, 0)
               k == call.key
               same == {m \in 1..Len(evm.rehashes) : evm.rehashes[m].txid = c}
               n == LastMatch(LAMBDA entry : entry.txid = c)
    <2>1. /\ c \in DOMAIN tx /\ tx[c].does = "rehash"
          /\ tx[c].key = k /\ tx[c].to = call.to /\ ~tx[c].userOp
          /\ k \in Locks /\ call.to \in Invoices /\ route # "relay"
          /\ \A s \in DOMAIN tx : Before(k, s) => Covered(s, Len(evm.rehashes))
          /\ evm.rehashes # <<>>
          /\ \A i \in DOMAIN tx : ~IsOp(i)
      BY <1>1 DEF RehashCallOK, Signing, KeptLen, Preparing
    <2>2. j \in DOMAIN tx /\ tx[j].nonce = tx[c].nonce
      BY <1>2, <2>1, MinedStands
    <2>3. tx[j].does = "rehash" /\ tx[j].key = k /\ tx[j].to = call.to
      BY <1>5, <2>1 DEF SameCall
    <2>4. /\ c \in Nat \ {0} /\ j \in Nat \ {0} /\ Len(evm.rehashes) \in Nat
          /\ DOMAIN evm.rehashes = 1..Len(evm.rehashes) /\ DOMAIN tx \subseteq Nat \ {0}
      <3>1. DOMAIN tx = 1..Len(tx)
        BY <1>2 DEF FundTxsOK
      <3>2. Len(evm.rehashes) \in Nat /\ DOMAIN evm.rehashes = 1..Len(evm.rehashes)
        BY DEF RecordsOK
      <3> HIDE DEF j, c
      <3> QED
        BY <2>1, <2>2, <3>1, <3>2
    <2>5. /\ e \in Entry /\ e.txid = j /\ e.op = 0 /\ e.from = k.hash /\ e.to = call.to
          /\ Owners(e) = {j, 0} \ {0}
      BY <2>4, RecordIs
    <2>6. n = IF same # {} THEN Max(same) ELSE 0
      BY DEF LastMatch, SelectLastInSeq
    <2>7. evm' = WithRehash(e, n)
      BY <1>5
    <2> HIDE DEF e, k, n, j
    <2>8. n \in same \/ n = 0
      <3> HIDE DEF same
      <3>1. same \subseteq 1..Len(evm.rehashes)
        BY DEF same
      <3> QED
        BY <2>4, <2>6, <3>1, LastMatches
    <2>9. ASSUME n # 0
          PROVE  /\ e.from = evm.rehashes[n].from
                 /\ \A s \in DOMAIN tx : Before(k, s) => Covered(s, n - 1)
                 /\ \A s \in DOMAIN tx : Leads(evm.rehashes[n], s) =>
                        IF e.txid = 0 THEN e.op = s ELSE tx'[e.txid].nonce = tx'[s].nonce
      <3> DEFINE f == evm.rehashes[n]
      <3>1. n \in DOMAIN evm.rehashes /\ f.txid = c
        BY <2>4, <2>8, <2>9
      <3>2. EntryOK(n) /\ c \in Owners(f)
        BY <2>4, <3>1, EntryIs DEF Owners
      <3>3. f.from = k.hash /\ \A s \in DOMAIN tx : Before(k, s) => Covered(s, n - 1)
        BY <2>1, <3>2 DEF EntryOK
      <3>4. ASSUME NEW s \in DOMAIN tx, Leads(f, s)
            PROVE  tx'[j].nonce = tx'[s].nonce
        <4> HIDE DEF f
        <4> QED
          BY <1>1, <2>2, <2>4, <3>1, <3>4 DEF Leads
      <3> QED
        BY <2>4, <2>5, <3>3, <3>4
    <2>10. RecordsOK'
      <3>1. /\ n \in DOMAIN evm.rehashes \cup {0}
            /\ \A i \in Owners(e) : i \in DOMAIN tx' /\ tx'[i].does = "rehash" /\ tx'[i].to = e.to
                                    /\ tx'[i].key = k /\ k.hash = e.from
        BY <1>1, <2>2, <2>3, <2>4, <2>5, <2>8
      <3> QED
        BY <1>2, <2>1, <2>5, <2>7, <2>9, <3>1, RecordsUpdate
    <2>11. \A i \in DOMAIN tx' : ~IsOp(i)'
      BY <1>1, <2>1 DEF IsOp
    <2> QED
      BY <1>1, <1>3, <2>1, <2>10, <2>11, RecordedByWallet
  <1> QED
    BY <1>4, <1>5 DEF AwaitRehash, UpdateEvmRehash

\* A UserOp stays on record while the records that are kept say the same of it.
LEMMA RememberedGoes ==
  ASSUME RememberedOK, TxsKeep,
         \A i \in DOMAIN tx' :
            MayLand(i)' /\ ~(Preparing' /\ i = call'.id) =>
               \/ MayLand(i) /\ ~(Preparing /\ i = call.id)
               \/ \E n \in 1..KeptLen' : Remembers(n, i)',
         \A m \in 1..KeptLen : m \in 1..KeptLen' /\ evm'.rehashes[m].to = evm.rehashes[m].to
                               /\ evm'.rehashes[m].op = evm.rehashes[m].op
  PROVE  RememberedOK'
  <1> SUFFICES ASSUME NEW i \in DOMAIN tx', MayLand(i)', ~(Preparing' /\ i = call'.id)
               PROVE  \E n \in 1..KeptLen' : Remembers(n, i)'
    BY DEF RememberedOK
  <1>1. CASE MayLand(i) /\ ~(Preparing /\ i = call.id)
    <2>1. i \in DOMAIN tx /\ tx'[i].to = tx[i].to
      BY <1>1 DEF MayLand, IsOp, TxsKeep
    <2>2. PICK n \in 1..KeptLen : Remembers(n, i)
      BY <1>1, <2>1 DEF RememberedOK
    <2>3. Remembers(n, i)'
      BY <2>1, <2>2 DEF Remembers
    <2> QED
      BY <2>2, <2>3
  <1> QED
    BY <1>1

\* A call that moves no lock.
LEMMA MovesNoLock ==
  ASSUME RehashCallOK, UNCHANGED route, ~Preparing', ~Signing', ~ByWallet',
         \A i \in DOMAIN tx' : IsOp(i)' => IsOp(i)
  PROVE  RehashCallOK'
  BY DEF RehashCallOK, IsOp, Preparing

\* A sponsored move goes on record before anything is sent.
LEMMA RelayRecords ==
  ASSUME FundInv, LocksInv, RecordsOK, RehashCallOK, RememberedOK, LocksGo, RetrySponsored
  PROVE  RecordsOK' /\ RehashCallOK' /\ RememberedOK'
  <1>1. PICK move \in Movable :
           /\ call' = [Idle EXCEPT !.at = "prepare", !.key = move.key, !.to = move.to]
           /\ evm' = WithRehash([txid |-> 0, op |-> 0, from |-> move.key.hash, to |-> move.to], 0)
    BY DEF RetrySponsored, Starts
  <1>2. route = "relay" /\ UNCHANGED <<route, tx, htlc>> /\ call = Idle
    BY DEF RetrySponsored, Calling
  <1>3. call'.at = "prepare" /\ call'.id = 0 /\ call'.op = 0 /\ call'.key = move.key /\ call'.to = move.to
    BY <1>1 DEF Idle
  <1>4. /\ move.key \in Locks /\ move.to \in Invoices /\ move.key \in LockKey /\ move.to \in Hashes
        /\ move.key.hash \in Hashes
        /\ \A s \in DOMAIN tx : Before(move.key, s) => Covered(s, Len(evm.rehashes))
        /\ evm.rehashes = <<>> => move.key.hash = OwnHash
    BY MovableKnown DEF Hashes, LockKey
  <1> DEFINE k == move.key
             e == [txid |-> 0, op |-> 0, from |-> k.hash, to |-> move.to]
             last == Len(evm.rehashes) + 1
             none == 0
  <1>5. /\ e \in Entry /\ e.txid = 0 /\ e.op = 0 /\ e.from = k.hash /\ e.to = move.to
        /\ Owners(e) = {} /\ none = 0 /\ none \in DOMAIN evm.rehashes \cup {0}
        /\ evm' = WithRehash(e, none)
    BY <1>1, <1>4 DEF Entry, Owners
  <1>6. FundTxsOK /\ RehashTxsOK
    BY DEF FundInv, LocksInv
  <1>7. k \in Locks /\ call'.key = k /\ (evm.rehashes = <<>> => k.hash = OwnHash)
        /\ \A s \in DOMAIN tx : Before(k, s) => Covered(s, Len(evm.rehashes))
    BY <1>3, <1>4
  <1> HIDE DEF k, e, none
  <1>8. /\ RecordsOK' /\ CoverLasts /\ Len(evm.rehashes) \in Nat
        /\ Len(evm'.rehashes) = last /\ evm'.rehashes[last] = e
        /\ \A m \in 1..Len(evm.rehashes) : evm'.rehashes[m] = evm.rehashes[m]
        /\ evm'.rehashes # <<>>
    <2>1. \A m \in 1..Len(evm.rehashes) : m # none
      BY <1>5
    <2> QED
      BY <1>5, <1>6, <1>7, <2>1, RecordsUpdate
  <1>9. Preparing' /\ ~Signing' /\ ~ByWallet' /\ KeptLen' = Len(evm.rehashes)
    BY <1>3, <1>8 DEF Preparing, Signing, ByWallet, KeptLen
  <1>10. \A s \in DOMAIN tx' : Before(call.key, s)' => Covered(s, KeptLen)'
    <2> DEFINE kept == Len(evm.rehashes)
    <2>1. kept \in 0..Len(evm.rehashes) /\ kept <= Len(evm'.rehashes)
          /\ (\A s \in DOMAIN tx : Before(k, s) => Covered(s, kept))
          /\ KeptLen' \in Nat /\ kept <= KeptLen'
      BY <1>7, <1>8, <1>9
    <2> HIDE DEF kept
    <2> QED
      BY <1>7, <1>8, <2>1, StillCovered
  <1>11. evm'.rehashes[Len(evm'.rehashes)] = e
    BY <1>8
  <1>12. RehashCallOK'
    <2>1. call'.key \in Locks' /\ call'.to \in Invoices
      BY <1>3, <1>4 DEF LocksGo
    <2>2. LET entry == evm'.rehashes[Len(evm'.rehashes)] IN
          /\ entry.txid = 0 /\ entry.to = call'.to /\ entry.from = call'.key.hash
          /\ entry.op \in {0, call'.op}
      BY <1>3, <1>5, <1>7, <1>11
    <2> QED
      BY <1>2, <1>3, <1>8, <1>9, <1>10, <2>1, <2>2 DEF RehashCallOK
  <1>13. RememberedOK'
    <2>1. ~Preparing /\ KeptLen = Len(evm.rehashes)
      BY <1>2 DEF Idle, Preparing, KeptLen
    <2>2. \A i \in DOMAIN tx' : MayLand(i)' => MayLand(i)
      BY <1>2 DEF MayLand, IsOp
    <2> QED
      BY <1>8, <1>9, <2>1, <2>2, RememberedGoes DEF LocksGo
  <1> QED
    BY <1>8, <1>12, <1>13

\* The last record is the pending one of a call that prepares its UserOp.
LEMMA PendingIsLast ==
  ASSUME FundTxsOK, RecordsOK, RehashCallOK, Preparing, call.op = 0
  PROVE  /\ LastMatch(IsThisPending) = Len(evm.rehashes)
         /\ Len(evm.rehashes) \in Nat \ {0}
         /\ IsThisPending(evm.rehashes[Len(evm.rehashes)])
  <1> DEFINE N == Len(evm.rehashes)
             pending == {m \in 1..Len(evm.rehashes) : IsThisPending(evm.rehashes[m])}
             found == LastMatch(IsThisPending)
  <1>1. N \in Nat /\ evm.rehashes # <<>>
    BY DEF RecordsOK, RehashCallOK, Preparing
  <1>2. N # 0
    BY <1>1 DEF RecordsOK
  <1>3. IsThisPending(evm.rehashes[N])
    BY DEF RehashCallOK, IsThisPending
  <1>4. N \in pending /\ pending \subseteq 1..N
    BY <1>1, <1>2, <1>3
  <1>5. found = IF pending # {} THEN Max(pending) ELSE 0
    BY DEF LastMatch, SelectLastInSeq
  <1> HIDE DEF pending, found
  <1>6. found \in pending /\ \A m \in pending : m <= found
    <2>1. Len(evm.rehashes) \in Nat /\ pending \subseteq 1..Len(evm.rehashes)
      BY <1>1, <1>4
    <2>2. /\ found \in pending \/ (found = 0 /\ pending = {})
          /\ \A m \in pending : m <= found
      BY <1>5, <2>1, LastMatches
    <2> QED
      BY <1>4, <2>2
  <1>7. found = N
    BY <1>1, <1>4, <1>6
  <1> QED
    BY <1>1, <1>2, <1>3, <1>7 DEF found

\* A UserOp that could not be prepared takes its record with it, or leaves it pending.
LEMMA RelayGivesUp ==
  ASSUME FundInv, LocksInv, RecordsOK, RehashCallOK, RememberedOK, LocksGo, PrepareFails
  PROVE  RecordsOK' /\ RehashCallOK' /\ RememberedOK'
  <1>1. call.at = "prepare" /\ Preparing /\ UNCHANGED <<route, tx, htlc>> /\ Ends
    BY DEF PrepareFails, At, Preparing
  <1>2. FundTxsOK /\ RehashTxsOK
    BY DEF FundInv, LocksInv
  <1>3. ~Preparing' /\ ~Signing' /\ ~ByWallet'
    BY <1>1 DEF Ends, Idle, Preparing, Signing, ByWallet
  <1>4. CASE UNCHANGED evm
    <2>1. RecordsOK'
      BY <1>2, <1>4, RecordsStand DEF LocksGo
    <2> QED
      BY <1>1, <1>2, <1>3, <1>4, <2>1, SameOps, RehashEnds DEF OpsStay
  <1>5. CASE evm' = [evm EXCEPT !.rehashes = RemoveAt(@, LastMatch(IsThisPending))]
    <2>1. call.op = 0 /\ call.id = 0
      BY <1>1 DEF RehashCallOK
    <2>2. LastMatch(IsThisPending) = Len(evm.rehashes) /\ Len(evm.rehashes) \in Nat \ {0}
      BY <1>1, <1>2, <2>1, PendingIsLast
    <2>3. evm'.rehashes = RemoveAt(evm.rehashes, Len(evm.rehashes))
      BY <1>5, <2>2 DEF FundInv, FundRecordOK
    <2>4. /\ RecordsOK' /\ CoverLasts
          /\ Len(evm'.rehashes) = Len(evm.rehashes) - 1
          /\ \A m \in DOMAIN evm'.rehashes : m \in DOMAIN evm.rehashes /\ evm'.rehashes[m] = evm.rehashes[m]
      BY <1>2, <2>2, <2>3, RecordsDrop DEF LocksGo
    <2>5. KeptLen = Len(evm.rehashes) - 1 /\ KeptLen' = KeptLen /\ DOMAIN evm'.rehashes = 1..KeptLen'
      BY <1>1, <1>3, <2>4 DEF KeptLen, RecordsOK
    <2>6. RehashCallOK'
      BY <1>1, <1>3, MovesNoLock DEF IsOp
    <2>7. RememberedOK'
      <3>1. \A i \in DOMAIN tx' : MayLand(i)' => MayLand(i) /\ i # call.id
        <4>1. 0 \notin DOMAIN tx
          BY <1>2 DEF FundTxsOK
        <4> QED
          BY <1>1, <2>1, <4>1 DEF MayLand, IsOp
      <3> QED
        BY <2>4, <2>5, <3>1, RememberedGoes DEF LocksGo
    <2> QED
      BY <2>4, <2>6, <2>7
  <1> QED
    BY <1>4, <1>5 DEF PrepareFails, DropPendingRehash

\* A call whose UserOp is signed.
LEMMA CallByOp ==
  ASSUME LocksGo, CoverLasts, RecordsOK', Len(evm.rehashes) \in Nat, route' = "relay",
         call'.at \in {"sendOp", "submitted", "waitOp"},
         call'.id \in DOMAIN tx', tx'[call'.id].does = "rehash", tx'[call'.id].key = call'.key,
         tx'[call'.id].to = call'.to, tx'[call'.id].userOp,
         NEW k \in Locks, call'.key = k, call'.to \in Invoices, call'.op \in {0, call'.id},
         NEW kept \in 0..Len(evm.rehashes), kept <= Len(evm'.rehashes), kept <= KeptLen',
         \A s \in DOMAIN tx : Before(k, s) => Covered(s, kept),
         evm'.rehashes # <<>>,
         Preparing' => LET entry == evm'.rehashes[Len(evm'.rehashes)] IN
                      /\ entry.txid = 0 /\ entry.to = call'.to /\ entry.from = call'.key.hash
                      /\ entry.op \in {0, call'.op}
  PROVE  RehashCallOK'
  <1>1. /\ Signing' /\ ~ByWallet' /\ call'.at # "prepare"
    BY DEF Signing, ByWallet
  <1>2. KeptLen' \in Nat
    <2>1. Len(evm'.rehashes) \in Nat \ {0}
      BY DEF RecordsOK
    <2> QED
      BY <2>1 DEF KeptLen
  <1>3. \A s \in DOMAIN tx' : Before(call.key, s)' => Covered(s, KeptLen)'
    BY <1>2, StillCovered
  <1>4. call'.key \in Locks'
    BY DEF LocksGo
  <1> QED
    BY <1>1, <1>3, <1>4 DEF RehashCallOK

\* What is known of a call that moves a lock by a UserOp.
LEMMA CallIs ==
  ASSUME FundInv, RecordsOK, RehashCallOK, Preparing \/ Signing
  PROVE  /\ route = "relay" /\ call.key \in Locks /\ call.to \in Invoices /\ call.key.hash \in Hashes
         /\ evm.rehashes # <<>> /\ Len(evm.rehashes) \in Nat \ {0}
         /\ DOMAIN evm.rehashes = 1..Len(evm.rehashes)
         /\ KeptLen \in 0..Len(evm.rehashes)
         /\ \A s \in DOMAIN tx : Before(call.key, s) => Covered(s, KeptLen)
         /\ 0 \notin DOMAIN tx /\ DOMAIN tx \subseteq Nat
         /\ Signing => /\ call.id \in DOMAIN tx /\ tx[call.id].does = "rehash" /\ tx[call.id].userOp
                       /\ tx[call.id].key = call.key /\ tx[call.id].to = call.to
                       /\ call.op \in {0, call.id}
  <1>1. evm.rehashes # <<>>
    BY DEF RehashCallOK, Preparing, Signing
  <1>2. Len(evm.rehashes) \in Nat \ {0} /\ DOMAIN evm.rehashes = 1..Len(evm.rehashes)
    BY <1>1 DEF RecordsOK
  <1>3. KeptLen \in 0..Len(evm.rehashes)
    BY <1>2 DEF KeptLen
  <1>4. DOMAIN tx = 1..Len(tx) /\ call.key.hash \in Hashes
    BY DEF FundInv, FundTxsOK, FundCallOK, LockKey
  <1>5. 0 \notin DOMAIN tx /\ DOMAIN tx \subseteq Nat
    BY <1>4
  <1> QED
    BY <1>1, <1>2, <1>3, <1>4, <1>5 DEF RehashCallOK

\* A UserOp is signed, and its hash goes on record before it is sent.
LEMMA RelaySigns ==
  ASSUME FundInv, LocksInv, RecordsOK, RehashCallOK, RememberedOK, LocksGo, SignRehashOp
  PROVE  RecordsOK' /\ RehashCallOK' /\ RememberedOK'
  <1> DEFINE k == call.key
             e == RehashRecord(0, NewId)
             N == Len(evm.rehashes)
             kept == KeptLen
  <1>1. /\ call.at = "prepare" /\ Preparing /\ ~Signing /\ UNCHANGED <<route, htlc>>
        /\ Send(RehashTx(call, "unsent", TRUE))
    BY DEF SignRehashOp, At, Preparing, Signing
  <1>2. FundTxsOK /\ RehashTxsOK /\ call.op = 0 /\ call.id = 0
    BY <1>1 DEF FundInv, LocksInv, RehashCallOK
  <1>3. /\ route = "relay" /\ k \in Locks /\ call.to \in Invoices /\ call.to \in Hashes /\ k \in LockKey
        /\ evm.rehashes # <<>> /\ N \in Nat \ {0} /\ DOMAIN evm.rehashes = 1..N
        /\ kept = N - 1 /\ \A s \in DOMAIN tx : Before(k, s) => Covered(s, kept)
        /\ 0 \notin DOMAIN tx
    BY <1>1, CallIs DEF KeptLen, FundInv, FundCallOK
  <1>4. /\ NewId \in Nat \ {0} /\ NewId \in DOMAIN tx' /\ NewId \notin DOMAIN tx
        /\ \A j \in DOMAIN tx' : j \in DOMAIN tx \/ j = NewId
        /\ \A j \in DOMAIN tx : tx'[j] = tx[j]
        /\ tx'[NewId].does = "rehash" /\ tx'[NewId].key = k /\ tx'[NewId].to = call.to
        /\ tx'[NewId].state = "unsent" /\ tx'[NewId].userOp = TRUE
    BY <1>1, <1>2, <1>3, RehashJoins DEF RehashTx
  <1>5. /\ call'.at = "sendOp" /\ call'.id = NewId /\ call'.key = k /\ call'.to = call.to
        /\ call'.op \in {0, NewId}
    BY <1>2 DEF SignRehashOp, FundInv, FundCallOK
  <1>6. /\ evm.rehashes[N].txid = 0 /\ evm.rehashes[N].to = call.to /\ evm.rehashes[N].from = k.hash
        /\ evm.rehashes[N].op = 0
    BY <1>1, <1>2 DEF RehashCallOK
  <1>7. LastMatch(IsThisPending) = N
    BY <1>1, <1>2, PendingIsLast
  <1>8. \/ UNCHANGED evm
        \/ evm' = WithRehash(e, N) /\ call'.op = NewId
    <2>1. CASE /\ UpdateEvmRehash(RehashRecord(0, NewId), LastMatch(IsThisPending))
               /\ call' = [call EXCEPT !.at = "sendOp", !.id = NewId, !.op = NewId]
      <3>1. call'.op = NewId
        BY <2>1 DEF FundInv, FundCallOK
      <3> QED
        BY <1>7, <2>1, <3>1 DEF UpdateEvmRehash
    <2> QED
      BY <2>1 DEF SignRehashOp
  <1>9. /\ e \in Entry /\ e.txid = 0 /\ e.op = NewId /\ e.from = k.hash /\ e.to = call.to
        /\ Owners(e) = {0, NewId} \ {0}
    <2>1. NewId \in Nat /\ 0 \in Nat
      BY <1>4
    <2> HIDE DEF NewId
    <2> QED
      BY <2>1, RecordIs
  <1> HIDE DEF k, e, N, NewId
  <1>10. /\ RecordsOK' /\ CoverLasts /\ Len(evm'.rehashes) = N /\ evm'.rehashes # <<>>
         /\ \A m \in 1..(N - 1) : evm'.rehashes[m] = evm.rehashes[m]
         /\ evm'.rehashes[N].txid = 0 /\ evm'.rehashes[N].to = call.to /\ evm'.rehashes[N].from = k.hash
         /\ evm'.rehashes[N].op \in {0, call'.op}
    <2>1. CASE UNCHANGED evm
      <3>1. RecordsOK' /\ CoverLasts
        BY <1>2, <2>1, RecordsStand DEF LocksGo
      <3> QED
        BY <1>3, <1>6, <2>1, <3>1 DEF N
    <2>2. CASE evm' = WithRehash(e, N) /\ call'.op = NewId
      <3>1. N \in DOMAIN evm.rehashes \cup {0} /\ N # 0
        BY <1>3
      <3>2. \A i \in Owners(e) : i \in DOMAIN tx' /\ tx'[i].does = "rehash" /\ tx'[i].to = e.to
                                 /\ tx'[i].key = k /\ k.hash = e.from
        BY <1>4, <1>9
      <3>3. /\ e.from = evm.rehashes[N].from
            /\ \A s \in DOMAIN tx : Before(k, s) => Covered(s, N - 1)
            /\ \A s \in DOMAIN tx : Leads(evm.rehashes[N], s) =>
                  IF e.txid = 0 THEN e.op = s ELSE tx'[e.txid].nonce = tx'[s].nonce
        BY <1>3, <1>6, <1>9 DEF Leads
      <3>4. e.op # 0 => e.op \in DOMAIN tx' /\ tx'[e.op].userOp /\ e.txid \in {0, e.op}
        BY <1>4, <1>9
      <3>5. /\ RecordsOK' /\ CoverLasts
            /\ Len(evm'.rehashes) = Len(evm.rehashes) /\ evm'.rehashes[N] = e
            /\ \A m \in 1..Len(evm.rehashes) : m # N => evm'.rehashes[m] = evm.rehashes[m]
            /\ evm'.rehashes # <<>>
        <4>1. e \in Entry /\ k \in Locks /\ RehashTxsOK /\ evm' = WithRehash(e, N)
          BY <1>2, <1>3, <1>9, <2>2
        <4> QED
          BY <3>1, <3>2, <3>3, <3>4, <4>1, RecordsUpdate
      <3>6. \A m \in 1..(N - 1) : m \in 1..N /\ m # N
        BY <1>3
      <3> QED
        BY <1>9, <2>2, <3>5, <3>6 DEF N
    <2> QED
      BY <1>8, <2>1, <2>2
  <1>11. Preparing' /\ KeptLen' = kept
    BY <1>3, <1>5, <1>10 DEF Preparing, KeptLen
  <1>12. RehashCallOK'
    <2>1. /\ call'.id \in DOMAIN tx' /\ tx'[call'.id].does = "rehash" /\ tx'[call'.id].key = call'.key
          /\ tx'[call'.id].to = call'.to /\ tx'[call'.id].userOp
          /\ call'.at \in {"sendOp", "submitted", "waitOp"} /\ call'.to \in Invoices
          /\ call'.op \in {0, call'.id} /\ call'.key = k /\ route' = "relay"
      BY <1>1, <1>3, <1>4, <1>5
    <2>2. LET entry == evm'.rehashes[Len(evm'.rehashes)] IN
          /\ entry.txid = 0 /\ entry.to = call'.to /\ entry.from = call'.key.hash
          /\ entry.op \in {0, call'.op}
      BY <1>5, <1>10
    <2>3. kept \in 0..Len(evm.rehashes) /\ kept <= Len(evm'.rehashes) /\ kept <= KeptLen'
          /\ Len(evm.rehashes) \in Nat
      BY <1>3, <1>10, <1>11 DEF N
    <2> HIDE DEF kept
    <2> QED
      BY <1>3, <1>10, <2>1, <2>2, <2>3, CallByOp
  <1>13. RememberedOK'
    <2>1. ASSUME NEW i \in DOMAIN tx', MayLand(i)', ~(Preparing' /\ i = call'.id)
          PROVE  MayLand(i) /\ ~(Preparing /\ i = call.id)
      <3>1. i \in DOMAIN tx
        BY <1>4, <1>5, <1>11, <2>1
      <3> QED
        BY <1>2, <1>3, <1>4, <2>1, <3>1 DEF MayLand, IsOp
    <2>2. \A m \in 1..KeptLen : m \in 1..KeptLen' /\ evm'.rehashes[m].to = evm.rehashes[m].to
                                /\ evm'.rehashes[m].op = evm.rehashes[m].op
      BY <1>3, <1>10, <1>11
    <2> QED
      BY <2>1, <2>2, RememberedGoes DEF LocksGo
  <1> QED
    BY <1>10, <1>12, <1>13

\* A UserOp is sent, is refused, or its answer is lost.
LEMMA RelaySends ==
  ASSUME FundInv, LocksInv, RecordsOK, RehashCallOK, RememberedOK, LocksGo, SendRehashOp
  PROVE  RecordsOK' /\ RehashCallOK' /\ RememberedOK'
  <1> DEFINE k == call.key
             c == call.id
             kept == KeptLen
  <1>1. /\ call.at = "sendOp" /\ Preparing /\ Signing /\ UNCHANGED <<route, htlc, evm>>
        /\ tx' = [tx EXCEPT ![c].state = "pending"] \/ UNCHANGED tx
        /\ Goes("submitted") \/ Ends
    BY DEF SendRehashOp, At, Preparing, Signing
  <1>2. FundTxsOK /\ RehashTxsOK
    BY DEF FundInv, LocksInv
  <1>3. /\ route = "relay" /\ k \in Locks /\ call.to \in Invoices
        /\ evm.rehashes # <<>> /\ Len(evm.rehashes) \in Nat \ {0}
        /\ kept \in 0..Len(evm.rehashes) /\ \A s \in DOMAIN tx : Before(k, s) => Covered(s, kept)
        /\ c \in DOMAIN tx /\ tx[c].does = "rehash" /\ tx[c].userOp
        /\ tx[c].key = k /\ tx[c].to = call.to /\ call.op \in {0, c}
    BY <1>1, CallIs
  <1>4. RecordsOK' /\ CoverLasts
    BY <1>1, <1>2, RecordsStand DEF LocksGo
  <1>5. /\ DOMAIN tx' = DOMAIN tx /\ \A j \in DOMAIN tx : j # c => tx'[j] = tx[j]
    <2>1. CASE UNCHANGED tx
      BY <2>1
    <2>2. CASE tx' = [tx EXCEPT ![c].state = "pending"]
      BY <1>2, <1>3, <2>2 DEF FundTxsOK
    <2> QED
      BY <1>1, <2>1, <2>2
  <1>6. /\ tx'[c].does = "rehash" /\ tx'[c].userOp /\ tx'[c].key = k /\ tx'[c].to = call.to
        /\ k \in Locks'
    BY <1>3 DEF LocksGo, TxsKeep
  <1>7. /\ \A i \in DOMAIN tx' : IsOp(i)' => IsOp(i)
        /\ \A i \in DOMAIN tx' : MayLand(i)' => MayLand(i) \/ i = c
    BY <1>3, <1>5 DEF IsOp, MayLand
  <1>8. CASE Ends
    <2>1. ~Preparing' /\ ~Signing' /\ ~ByWallet'
      BY <1>8 DEF Ends, Idle, Preparing, Signing, ByWallet
    <2> QED
      BY <1>1, <1>2, <1>4, <1>7, <2>1, RehashEnds
  <1>9. CASE Goes("submitted")
    <2>1. /\ call'.at = "submitted" /\ call'.id = c /\ call'.key = k /\ call'.to = call.to
          /\ call'.op = call.op
      BY <1>9 DEF Goes, FundInv, FundCallOK
    <2>2. Preparing' /\ KeptLen' = kept
      BY <1>1, <2>1 DEF Preparing, KeptLen
    <2>3. RehashCallOK'
      <3>1. /\ call'.id \in DOMAIN tx' /\ tx'[call'.id].does = "rehash" /\ tx'[call'.id].key = call'.key
            /\ tx'[call'.id].to = call'.to /\ tx'[call'.id].userOp
            /\ call'.at \in {"sendOp", "submitted", "waitOp"} /\ call'.to \in Invoices
            /\ call'.op \in {0, call'.id} /\ call'.key = k /\ route' = "relay"
        BY <1>1, <1>3, <1>5, <1>6, <2>1
      <3>2. LET entry == evm'.rehashes[Len(evm'.rehashes)] IN
            /\ entry.txid = 0 /\ entry.to = call'.to /\ entry.from = call'.key.hash
            /\ entry.op \in {0, call'.op}
        BY <1>1, <2>1 DEF RehashCallOK
      <3>3. /\ kept \in 0..Len(evm.rehashes) /\ kept <= Len(evm'.rehashes) /\ kept <= KeptLen'
            /\ Len(evm.rehashes) \in Nat /\ evm'.rehashes # <<>>
        BY <1>1, <1>3, <2>2
      <3> HIDE DEF kept, k
      <3> QED
        BY <1>3, <1>4, <3>1, <3>2, <3>3, CallByOp
    <2>4. RememberedOK'
      <3>1. \A i \in DOMAIN tx' : MayLand(i)' /\ ~(Preparing' /\ i = call'.id) =>
               MayLand(i) /\ ~(Preparing /\ i = call.id)
        BY <1>7, <2>1, <2>2
      <3>2. \A m \in 1..KeptLen : m \in 1..KeptLen' /\ evm'.rehashes[m].to = evm.rehashes[m].to
                                  /\ evm'.rehashes[m].op = evm.rehashes[m].op
        BY <1>1, <2>2
      <3> QED
        BY <3>1, <3>2, RememberedGoes DEF LocksGo
    <2> QED
      BY <1>4, <2>3, <2>4
  <1> QED
    BY <1>1, <1>8, <1>9

\* A record of the call's own UserOp: what it says is what the call does.
LEMMA OwnRecord ==
  ASSUME FundInv, RecordsOK, RehashCallOK, Signing, NEW n \in DOMAIN evm.rehashes,
         evm.rehashes[n].op = call.id
  PROVE  /\ evm.rehashes[n].from = call.key.hash /\ evm.rehashes[n].to = call.to
         /\ evm.rehashes[n].txid \in {0, call.id}
         /\ \A s \in DOMAIN tx : Before(call.key, s) => Covered(s, n - 1)
         /\ \A s : Leads(evm.rehashes[n], s) => tx[call.id].nonce = tx[s].nonce
         /\ evm.rehashes[n].txid = 0 => \A s : Leads(evm.rehashes[n], s) => s = call.id
  <1> DEFINE e == evm.rehashes[n]
             c == call.id
  <1>1. c \in DOMAIN tx /\ tx[c].key = call.key /\ tx[c].to = call.to /\ 0 \notin DOMAIN tx
    BY CallIs
  <1>2. EntryOK(n)
    BY EntryIs
  <1>3. c \in Owners(e)
    BY <1>1 DEF Owners
  <1>4. /\ e.from = call.key.hash /\ e.to = call.to /\ e.txid \in {0, c}
        /\ \A s \in DOMAIN tx : Before(call.key, s) => Covered(s, n - 1)
    BY <1>1, <1>2, <1>3 DEF EntryOK
  <1>5. /\ \A s : Leads(e, s) => tx[c].nonce = tx[s].nonce
        /\ e.txid = 0 => \A s : Leads(e, s) => s = c
    <2>1. e.op = c
      OBVIOUS
    <2> HIDE DEF e
    <2> QED
      BY <1>4, <2>1 DEF Leads
  <1> QED
    BY <1>4, <1>5

\* The answer to the UserOp that was sent goes on record, with the hash it has.
LEMMA RelaySubmits ==
  ASSUME FundInv, LocksInv, RecordsOK, RehashCallOK, RememberedOK, LocksGo, RehashOpSubmitted
  PROVE  RecordsOK' /\ RehashCallOK' /\ RememberedOK'
  <1> DEFINE k == call.key
             c == call.id
             N == Len(evm.rehashes)
             e == RehashRecord(0, c)
             signed_ == {m \in 1..Len(evm.rehashes) : IsThisSigned(evm.rehashes[m])}
             n == LastMatch(IsThisSigned)
  <1>1. /\ call.at = "submitted" /\ Preparing /\ Signing /\ UNCHANGED <<route, tx, htlc>>
        /\ Goes("waitOp")
        /\ evm' = WithRehash(e, n) \/ UNCHANGED evm
    BY DEF RehashOpSubmitted, At, Preparing, Signing, UpdateEvmRehash
  <1>2. FundTxsOK /\ RehashTxsOK
    BY DEF FundInv, LocksInv
  <1>3. /\ route = "relay" /\ k \in Locks /\ call.to \in Invoices
        /\ evm.rehashes # <<>> /\ N \in Nat \ {0} /\ DOMAIN evm.rehashes = 1..N
        /\ KeptLen = N - 1 /\ \A s \in DOMAIN tx : Before(k, s) => Covered(s, N - 1)
        /\ 0 \notin DOMAIN tx /\ c \in Nat
        /\ c \in DOMAIN tx /\ tx[c].does = "rehash" /\ tx[c].userOp
        /\ tx[c].key = k /\ tx[c].to = call.to /\ call.op \in {0, c}
    <2>1. KeptLen = N - 1
      BY <1>1 DEF KeptLen
    <2> QED
      BY <1>1, <2>1, CallIs
  <1>4. /\ call'.at = "waitOp" /\ call'.id = c /\ call'.key = k /\ call'.to = call.to
        /\ call'.op = call.op
    BY <1>1 DEF Goes, FundInv, FundCallOK
  <1>5. /\ evm.rehashes[N].txid = 0 /\ evm.rehashes[N].to = call.to /\ evm.rehashes[N].from = k.hash
        /\ evm.rehashes[N].op \in {0, call.op}
    BY <1>1 DEF RehashCallOK
  <1>6. /\ e \in Entry /\ e.txid = 0 /\ e.op = c /\ e.from = k.hash /\ e.to = call.to
        /\ Owners(e) = {0, c} \ {0}
    <2>1. c \in Nat /\ 0 \in Nat
      BY <1>3
    <2> HIDE DEF c
    <2> QED
      BY <2>1, RecordIs
  <1>7. n \in signed_ \/ n = 0
    <2>1. n = IF signed_ # {} THEN Max(signed_) ELSE 0
      BY DEF LastMatch, SelectLastInSeq
    <2>2. signed_ \subseteq 1..Len(evm.rehashes) /\ Len(evm.rehashes) \in Nat
      BY <1>3
    <2> HIDE DEF signed_, n
    <2> QED
      BY <2>1, <2>2, LastMatches
  <1>8. call.op = 0 => n = N
    <2> SUFFICES ASSUME call.op = 0 PROVE n = N
      OBVIOUS
    <2>1. \A f : IsThisSigned(f) <=> IsThisPending(f)
      BY DEF IsThisSigned, IsThisPending
    <2>2. N \in signed_
      <3>1. IsThisPending(evm.rehashes[N])
        BY <1>1, <1>2, PendingIsLast
      <3> QED
        BY <1>3, <2>1, <3>1
    <2>3. n = IF signed_ # {} THEN Max(signed_) ELSE 0
      BY DEF LastMatch, SelectLastInSeq
    <2>4. signed_ \subseteq 1..Len(evm.rehashes) /\ Len(evm.rehashes) \in Nat
      BY <1>3
    <2> HIDE DEF signed_, n
    <2>5. (n \in signed_ \/ (n = 0 /\ signed_ = {})) /\ \A m \in signed_ : m <= n
      BY <2>3, <2>4, LastMatches
    <2>6. n \in signed_ /\ N <= n
      BY <2>2, <2>5
    <2>7. n \in 1..N /\ N \in Nat
      BY <2>4, <2>6
    <2> QED
      BY <2>6, <2>7
  <1>9. ASSUME n # 0
        PROVE  /\ n \in DOMAIN evm.rehashes
               /\ n = N \/ (evm.rehashes[n].op = c /\ evm.rehashes[n].to = call.to)
               /\ e.from = evm.rehashes[n].from
               /\ \A s \in DOMAIN tx : Before(k, s) => Covered(s, n - 1)
               /\ \A s \in DOMAIN tx : Leads(evm.rehashes[n], s) =>
                        IF e.txid = 0 THEN e.op = s ELSE tx'[e.txid].nonce = tx'[s].nonce
    <2>1. n \in DOMAIN evm.rehashes /\ IsThisSigned(evm.rehashes[n])
      BY <1>3, <1>7, <1>9
    <2>2. CASE call.op = 0
      <3>1. evm.rehashes[N].op = 0
        BY <1>5, <2>2
      <3>2. \A s \in DOMAIN tx : ~Leads(evm.rehashes[N], s)
        BY <1>3, <1>5, <3>1 DEF Leads
      <3> HIDE DEF n
      <3> QED
        BY <1>3, <1>5, <1>6, <1>8, <2>1, <2>2, <3>2
    <2>3. CASE call.op # 0
      <3>1. evm.rehashes[n].op = c /\ evm.rehashes[n].txid = 0
        BY <1>3, <2>1, <2>3 DEF IsThisSigned
      <3> HIDE DEF n
      <3>2. /\ evm.rehashes[n].from = k.hash /\ evm.rehashes[n].to = call.to
            /\ \A s \in DOMAIN tx : Before(k, s) => Covered(s, n - 1)
            /\ \A s : Leads(evm.rehashes[n], s) => s = c
        BY <1>1, <2>1, <3>1, OwnRecord
      <3> HIDE DEF e
      <3> QED
        BY <1>6, <2>1, <3>1, <3>2
    <2> QED
      BY <2>2, <2>3
  <1> HIDE DEF k, c, N, e, n, signed_
  <1>10. /\ RecordsOK' /\ CoverLasts /\ Len(evm'.rehashes) \in Nat /\ N <= Len(evm'.rehashes)
         /\ evm'.rehashes # <<>>
         /\ \E m \in 1..Len(evm'.rehashes) :
               evm'.rehashes[m].to = call.to /\ evm'.rehashes[m].op \in {0, c}
         /\ \A m \in 1..(N - 1) : evm'.rehashes[m].to = evm.rehashes[m].to
                                  /\ evm'.rehashes[m].op = evm.rehashes[m].op
    <2>1. CASE UNCHANGED evm
      <3>1. RecordsOK' /\ CoverLasts
        BY <1>2, <2>1, RecordsStand DEF LocksGo
      <3>2. N \in 1..Len(evm'.rehashes)
        BY <1>3, <2>1 DEF N
      <3> QED
        BY <1>3, <1>5, <2>1, <3>1, <3>2 DEF N
    <2>2. CASE evm' = WithRehash(e, n)
      <3>1. n \in DOMAIN evm.rehashes \cup {0}
        BY <1>9
      <3>2. \A i \in Owners(e) : i \in DOMAIN tx' /\ tx'[i].does = "rehash" /\ tx'[i].to = e.to
                                 /\ tx'[i].key = k /\ k.hash = e.from
        BY <1>1, <1>3, <1>6
      <3>3. n = 0 => /\ evm.rehashes = <<>> => e.from = OwnHash
                     /\ \A s \in DOMAIN tx : Before(k, s) => Covered(s, Len(evm.rehashes))
        <4>1. \A s : Covered(s, N - 1) => Covered(s, N)
          <5>1. \A m \in 1..(N - 1) : m \in 1..N
            BY <1>3
          <5> QED
            BY <5>1 DEF Covered
        <4> QED
          BY <1>3, <4>1 DEF N
      <3>4. e.op # 0 => e.op \in DOMAIN tx' /\ tx'[e.op].userOp /\ e.txid \in {0, e.op}
        BY <1>1, <1>3, <1>6
      <3>5. n # 0 => /\ e.from = evm.rehashes[n].from
                     /\ \A s \in DOMAIN tx : Before(k, s) => Covered(s, n - 1)
                     /\ \A s \in DOMAIN tx : Leads(evm.rehashes[n], s) =>
                           IF e.txid = 0 THEN e.op = s ELSE tx'[e.txid].nonce = tx'[s].nonce
        BY <1>9
      <3>6. /\ RecordsOK' /\ CoverLasts
            /\ Len(evm.rehashes) \in Nat /\ Len(evm'.rehashes) \in Nat
            /\ n = 0 => Len(evm'.rehashes) = Len(evm.rehashes) + 1
            /\ n # 0 => Len(evm'.rehashes) = Len(evm.rehashes) /\ evm'.rehashes[n] = e
            /\ n = 0 => evm'.rehashes[Len(evm.rehashes) + 1] = e
            /\ \A m \in 1..Len(evm.rehashes) : m # n => evm'.rehashes[m] = evm.rehashes[m]
            /\ evm'.rehashes # <<>>
        <4>1. e \in Entry /\ k \in Locks /\ RehashTxsOK
          BY <1>2, <1>3, <1>6
        <4> QED
          BY <2>2, <3>1, <3>2, <3>3, <3>4, <3>5, <4>1, RecordsUpdate
      <3>7. N <= Len(evm'.rehashes)
        BY <3>6 DEF N
      <3>8. \E m \in 1..Len(evm'.rehashes) :
               evm'.rehashes[m].to = call.to /\ evm'.rehashes[m].op \in {0, c}
        <4>1. CASE n = 0
          <5>1. N + 1 \in 1..Len(evm'.rehashes) /\ evm'.rehashes[N + 1] = e
            BY <1>3, <3>6, <4>1 DEF N
          <5> QED
            BY <1>6, <5>1
        <4>2. CASE n # 0
          <5>1. n \in 1..Len(evm'.rehashes) /\ evm'.rehashes[n] = e
            BY <1>3, <1>9, <3>6, <4>2 DEF N
          <5> QED
            BY <1>6, <5>1
        <4> QED
          BY <4>1, <4>2
      <3>9. ASSUME NEW m \in 1..(N - 1)
            PROVE  evm'.rehashes[m].to = evm.rehashes[m].to /\ evm'.rehashes[m].op = evm.rehashes[m].op
        <4>1. m \in 1..N /\ m # N
          BY <1>3
        <4>2. CASE m = n
          <5>1. n # 0
            BY <4>1, <4>2
          <5> QED
            BY <1>6, <1>9, <3>6, <4>1, <4>2, <5>1
        <4>3. CASE m # n
          BY <3>6, <4>1, <4>3 DEF N
        <4> QED
          BY <4>2, <4>3
      <3> QED
        BY <3>6, <3>7, <3>8, <3>9
    <2> QED
      BY <1>1, <2>1, <2>2
  <1>11. ~Preparing' /\ KeptLen' = Len(evm'.rehashes)
    BY <1>4 DEF Preparing, KeptLen
  <1>12. RehashCallOK'
    <2>1. /\ call'.id \in DOMAIN tx' /\ tx'[call'.id].does = "rehash" /\ tx'[call'.id].key = call'.key
          /\ tx'[call'.id].to = call'.to /\ tx'[call'.id].userOp
          /\ call'.at \in {"sendOp", "submitted", "waitOp"} /\ call'.to \in Invoices
          /\ call'.op \in {0, call'.id} /\ call'.key = k /\ route' = "relay"
      BY <1>1, <1>3, <1>4
    <2> DEFINE kept == N - 1
    <2>2. /\ kept \in 0..Len(evm.rehashes) /\ kept <= Len(evm'.rehashes) /\ kept <= KeptLen'
          /\ Len(evm.rehashes) \in Nat /\ \A s \in DOMAIN tx : Before(k, s) => Covered(s, kept)
      BY <1>3, <1>10, <1>11 DEF N
    <2> HIDE DEF kept
    <2> QED
      BY <1>3, <1>10, <1>11, <2>1, <2>2, CallByOp
  <1>13. RememberedOK'
    <2>1. ASSUME NEW i \in DOMAIN tx', MayLand(i)'
          PROVE  \/ MayLand(i) /\ ~(Preparing /\ i = call.id)
                 \/ \E m \in 1..KeptLen' : Remembers(m, i)'
      <3>1. CASE i = c
        <4>1. tx'[i].to = call.to
          BY <1>1, <1>3, <3>1
        <4> QED
          BY <1>10, <1>11, <3>1, <4>1 DEF Remembers
      <3>2. CASE i # c
        BY <1>1, <2>1, <3>2 DEF MayLand, IsOp, c
      <3> QED
        BY <3>1, <3>2
    <2>2. \A m \in 1..KeptLen : m \in 1..KeptLen' /\ evm'.rehashes[m].to = evm.rehashes[m].to
                                /\ evm'.rehashes[m].op = evm.rehashes[m].op
      BY <1>3, <1>10, <1>11
    <2> QED
      BY <2>1, <2>2, RememberedGoes DEF LocksGo
  <1> QED
    BY <1>10, <1>12, <1>13

\* The transaction the UserOp landed in goes on record.
LEMMA RelayLands ==
  ASSUME FundInv, LocksInv, RecordsOK, RehashCallOK, RememberedOK, LocksGo, RehashOpIncluded
  PROVE  RecordsOK' /\ RehashCallOK' /\ RememberedOK'
  <1> DEFINE k == call.key
             c == call.id
             N == Len(evm.rehashes)
             e == RehashRecord(c, c)
             same == {m \in 1..Len(evm.rehashes) : evm.rehashes[m].op = c}
             n == LastMatch(LAMBDA entry : entry.op = c)
  <1>1. /\ call.at = "waitOp" /\ ~Preparing /\ Signing /\ UNCHANGED <<route, tx, htlc>> /\ Ends
        /\ evm' = WithRehash(e, n) \/ UNCHANGED evm
    BY DEF RehashOpIncluded, At, Preparing, Signing, UpdateEvmRehash
  <1>2. FundTxsOK /\ RehashTxsOK
    BY DEF FundInv, LocksInv
  <1>3. ~Preparing' /\ ~Signing' /\ ~ByWallet'
    BY <1>1 DEF Ends, Idle, Preparing, Signing, ByWallet
  <1>4. /\ k \in Locks /\ call.to \in Invoices
        /\ evm.rehashes # <<>> /\ N \in Nat \ {0} /\ DOMAIN evm.rehashes = 1..N
        /\ KeptLen = N /\ \A s \in DOMAIN tx : Before(k, s) => Covered(s, N)
        /\ c \in Nat \ {0}
        /\ c \in DOMAIN tx /\ tx[c].does = "rehash" /\ tx[c].userOp
        /\ tx[c].key = k /\ tx[c].to = call.to
    <2>1. KeptLen = N
      BY <1>1 DEF KeptLen
    <2> QED
      BY <1>1, <2>1, CallIs
  <1>5. CASE UNCHANGED evm
    <2>1. RecordsOK'
      BY <1>2, <1>5, RecordsStand DEF LocksGo
    <2> QED
      BY <1>1, <1>2, <1>3, <1>5, <2>1, SameOps, RehashEnds DEF OpsStay
  <1>6. CASE evm' = WithRehash(e, n)
    <2>1. /\ e \in Entry /\ e.txid = c /\ e.op = c /\ e.from = k.hash /\ e.to = call.to
          /\ Owners(e) = {c, c} \ {0}
      <3>1. c \in Nat
        BY <1>4
      <3> HIDE DEF c
      <3> QED
        BY <3>1, RecordIs
    <2>2. n \in same \/ n = 0
      <3>1. n = IF same # {} THEN Max(same) ELSE 0
        BY DEF LastMatch, SelectLastInSeq
      <3>2. same \subseteq 1..Len(evm.rehashes) /\ Len(evm.rehashes) \in Nat
        BY <1>4
      <3> HIDE DEF same, n
      <3> QED
        BY <3>1, <3>2, LastMatches
    <2>3. ASSUME n # 0
          PROVE  /\ n \in DOMAIN evm.rehashes /\ evm.rehashes[n].op = c /\ evm.rehashes[n].to = call.to
                 /\ e.from = evm.rehashes[n].from
                 /\ \A s \in DOMAIN tx : Before(k, s) => Covered(s, n - 1)
                 /\ \A s \in DOMAIN tx : Leads(evm.rehashes[n], s) =>
                        IF e.txid = 0 THEN e.op = s ELSE tx'[e.txid].nonce = tx'[s].nonce
      <3>1. n \in DOMAIN evm.rehashes /\ evm.rehashes[n].op = c
        BY <1>4, <2>2, <2>3
      <3> HIDE DEF n
      <3>2. /\ evm.rehashes[n].from = k.hash /\ evm.rehashes[n].to = call.to
            /\ \A s \in DOMAIN tx : Before(k, s) => Covered(s, n - 1)
            /\ \A s : Leads(evm.rehashes[n], s) => tx[c].nonce = tx[s].nonce
        BY <1>1, <3>1, OwnRecord
      <3> HIDE DEF e
      <3> QED
        BY <1>1, <1>4, <2>1, <3>1, <3>2
    <2> HIDE DEF k, c, N, e, n, same
    <2>4. n \in DOMAIN evm.rehashes \cup {0}
      BY <2>3
    <2>5. \A i \in Owners(e) : i \in DOMAIN tx' /\ tx'[i].does = "rehash" /\ tx'[i].to = e.to
                               /\ tx'[i].key = k /\ k.hash = e.from
      BY <1>1, <1>4, <2>1
    <2>6. n = 0 => /\ evm.rehashes = <<>> => e.from = OwnHash
                   /\ \A s \in DOMAIN tx : Before(k, s) => Covered(s, Len(evm.rehashes))
      BY <1>4 DEF N
    <2>7. e.op # 0 => e.op \in DOMAIN tx' /\ tx'[e.op].userOp /\ e.txid \in {0, e.op}
      BY <1>1, <1>4, <2>1
    <2>8. n # 0 => /\ e.from = evm.rehashes[n].from
                   /\ \A s \in DOMAIN tx : Before(k, s) => Covered(s, n - 1)
                   /\ \A s \in DOMAIN tx : Leads(evm.rehashes[n], s) =>
                         IF e.txid = 0 THEN e.op = s ELSE tx'[e.txid].nonce = tx'[s].nonce
      BY <2>3
    <2>9. /\ RecordsOK' /\ CoverLasts
          /\ Len(evm.rehashes) \in Nat /\ Len(evm'.rehashes) \in Nat
          /\ n = 0 => Len(evm'.rehashes) = Len(evm.rehashes) + 1
          /\ n # 0 => Len(evm'.rehashes) = Len(evm.rehashes) /\ evm'.rehashes[n] = e
          /\ \A m \in 1..Len(evm.rehashes) : m # n => evm'.rehashes[m] = evm.rehashes[m]
      <3>1. e \in Entry /\ k \in Locks /\ RehashTxsOK
        BY <1>2, <1>4, <2>1
      <3> QED
        BY <1>6, <2>4, <2>5, <2>6, <2>7, <2>8, <3>1, RecordsUpdate
    <2>10. KeptLen' = Len(evm'.rehashes) /\ N <= KeptLen' /\ KeptLen' \in Nat
      BY <1>3, <2>4, <2>9 DEF KeptLen, N
    <2>11. ASSUME NEW m \in 1..KeptLen
           PROVE  m \in 1..KeptLen' /\ evm'.rehashes[m].to = evm.rehashes[m].to
                  /\ evm'.rehashes[m].op = evm.rehashes[m].op
      <3>1. m \in 1..N /\ m \in 1..KeptLen'
        BY <1>4, <2>10
      <3>2. CASE m = n
        BY <2>1, <2>3, <2>9, <3>1, <3>2
      <3>3. CASE m # n
        BY <2>9, <3>1, <3>3 DEF N
      <3> QED
        BY <3>1, <3>2, <3>3
    <2>12. RehashCallOK'
      BY <1>1, <1>3, MovesNoLock DEF IsOp
    <2>13. RememberedOK'
      <3>1. \A i \in DOMAIN tx' : MayLand(i)' => MayLand(i)
        BY <1>1 DEF MayLand, IsOp
      <3> QED
        BY <1>1, <2>11, <3>1, RememberedGoes DEF LocksGo
    <2> QED
      BY <2>9, <2>12, <2>13
  <1> QED
    BY <1>1, <1>5, <1>6

\* Where the coin is, how it got there, and what of that is on record.
RehashInv == LocksInv /\ RecordsOK /\ RehashCallOK /\ RememberedOK

\* The chain goes on by itself: what lands was sent, and what replaces it the wallet sent.
LEMMA ChainOps ==
  ASSUME FundInv, LocksInv, LocksGo, ChainStep
  PROVE  UNCHANGED <<route, call, evm>> /\ OpsStay
  <1>1. DOMAIN tx = 1..Len(tx) /\ tx \in Seq(FundTx) /\ Len(tx) \in Nat
    BY DEF FundInv, FundTxsOK
  <1>2. ASSUME NEW key, ServerClaims(key)
        PROVE  UNCHANGED <<route, call, evm>> /\ OpsStay
    BY <1>2, SameOps DEF ServerClaims
  <1>3. ASSUME NEW i \in Sent, Mine(i)
        PROVE  UNCHANGED <<route, call, evm>> /\ OpsStay
    <2>1. i \in DOMAIN tx /\ tx[i].state = "pending" /\ UNCHANGED <<route, call, evm>>
      BY <1>1, <1>3 DEF Mine, Sent
    <2>2. PICK state \in {"success", "reverted"} : tx' = [tx EXCEPT ![i].state = state]
      BY <1>3 DEF Mine
    <2>3. DOMAIN tx' = DOMAIN tx /\ \A j \in DOMAIN tx : j # i => tx'[j] = tx[j]
      BY <2>1, <2>2, RehashTurns
    <2>4. \A j \in DOMAIN tx' : IsOp(j)' => IsOp(j)
      BY <2>3 DEF IsOp, LocksGo, TxsKeep
    <2>5. \A j \in DOMAIN tx' : MayLand(j)' => MayLand(j)
      <3>1. ASSUME NEW j \in DOMAIN tx', MayLand(j)' PROVE MayLand(j)
        <4>1. IsOp(j)
          BY <2>4, <3>1 DEF MayLand
        <4>2. tx[j].state # "unsent"
          <5>1. CASE j = i
            BY <2>1, <5>1
          <5>2. CASE j # i
            BY <2>3, <3>1, <5>2 DEF MayLand
          <5> QED
            BY <5>1, <5>2
        <4> QED
          BY <4>1, <4>2 DEF MayLand
      <3> QED
        BY <3>1
    <2> QED
      BY <2>1, <2>4, <2>5 DEF OpsStay
  <1>4. ASSUME NEW i \in Sent, Replace(i)
        PROVE  UNCHANGED <<route, call, evm>> /\ OpsStay
    <2>1. i \in DOMAIN tx /\ tx[i].state = "pending" /\ ~tx[i].userOp /\ UNCHANGED <<route, call, evm>>
      BY <1>1, <1>4 DEF Replace, Sent
    <2>2. \A j \in DOMAIN tx' : j \notin DOMAIN tx => tx'[j].userOp = FALSE
      BY <1>4, <2>1, RehashReplaced DEF LocksInv
    <2>3. \A j \in DOMAIN tx' : IsOp(j)' => IsOp(j) /\ j # i
      BY <2>1, <2>2 DEF IsOp, LocksGo, TxsKeep
    <2>4. \A j \in DOMAIN tx : j # i => tx'[j] = tx[j]
      <3>1. PICK by, old : tx' = Append([tx EXCEPT ![i] = old], by)
        <4>1. \E by : tx' = Append([tx EXCEPT ![i].state = "replaced"], by)
          BY <1>4 DEF Replace
        <4>2. [tx EXCEPT ![i].state = "replaced"] = [tx EXCEPT ![i] = [tx[i] EXCEPT !.state = "replaced"]]
          BY <1>1, <2>1
        <4> QED
          BY <4>1, <4>2
      <3> DEFINE marked == [tx EXCEPT ![i] = old]
                 S == FundTx \cup {old}
      <3>2. marked \in Seq(S) /\ DOMAIN marked = DOMAIN tx /\ \A j \in DOMAIN tx : j # i => marked[j] = tx[j]
            /\ Len(marked) = Len(tx)
        BY <1>1, <2>1
      <3> HIDE DEF marked, S
      <3>3. tx' = Append(marked, by)
        BY <3>1 DEF marked
      <3> QED
        BY <1>1, <3>2, <3>3
    <2>5. \A j \in DOMAIN tx' : MayLand(j)' => MayLand(j)
      <3>1. ASSUME NEW j \in DOMAIN tx', MayLand(j)' PROVE MayLand(j)
        <4>1. IsOp(j) /\ j # i
          BY <2>3, <3>1 DEF MayLand
        <4>2. tx'[j] = tx[j]
          BY <2>4, <4>1 DEF IsOp
        <4> QED
          BY <3>1, <4>1, <4>2 DEF MayLand
      <3> QED
        BY <3>1
    <2> QED
      BY <2>1, <2>3, <2>5 DEF OpsStay
  <1> QED
    BY <1>2, <1>3, <1>4 DEF ChainStep

\* A call that starts, waits or ends, and writes nothing of the moves.
LEMMA OtherCalls ==
  ASSUME FundInv, LocksInv, RecordsOK, LocksGo,
         \/ FundNativeLock \/ FundSwap \/ FundSwapGasless \/ RecordSent \/ AwaitFunding \/ WaitFails
         \/ RefundEvm \/ CollabRefundEvm \/ AwaitRefund \/ Crash
  PROVE  /\ UNCHANGED route /\ evm'.rehashes = evm.rehashes /\ OpsStay
         /\ (~Preparing' /\ ~Signing' /\ ~ByWallet') \/ (UNCHANGED call /\ call = Idle)
  <1>1. evm = [fundTx |-> evm.fundTx, rehashes |-> evm.rehashes]
    BY DEF FundInv, FundRecordOK
  <1>2. ASSUME NEW i, RecordEvmFunding(i) \/ ForgetEvmFunding(i) \/ UNCHANGED evm
        PROVE  evm'.rehashes = evm.rehashes
    BY <1>1, <1>2 DEF RecordEvmFunding, ForgetEvmFunding
  <1>3. ASSUME NEW t, Send(t), t.does # "rehash" PROVE OpsStay
    <2>1. tx' = Append(tx, t) /\ DOMAIN tx = 1..Len(tx) /\ tx \in Seq(FundTx) /\ Len(tx) \in Nat
      BY <1>3 DEF Send, FundInv, FundTxsOK
    <2>2. /\ \A j \in DOMAIN tx' : j \in DOMAIN tx \/ tx'[j] = t
          /\ \A j \in DOMAIN tx : tx'[j] = tx[j]
      BY <2>1
    <2> QED
      BY <1>3, <2>2 DEF OpsStay, IsOp, MayLand
  <1>4. LockTx.does # "rehash" /\ \A key : RefundTx(key).does # "rehash"
    BY DEF LockTx, RefundTx, Tx
  <1>5. CASE FundNativeLock \/ FundSwap \/ FundSwapGasless
    <2>1. Send(LockTx) /\ UNCHANGED <<route, evm>>
      BY <1>5 DEF FundNativeLock, FundSwap, FundSwapGasless
    <2>2. \/ call'.at \in {"record", "relayed"}
          \/ UNCHANGED call /\ call = Idle
      BY <1>5 DEF FundNativeLock, FundSwap, FundSwapGasless, Starts, Calling, Idle
    <2>3. OpsStay
      BY <1>3, <1>4, <2>1
    <2>4. (~Preparing' /\ ~Signing' /\ ~ByWallet') \/ (UNCHANGED call /\ call = Idle)
      BY <2>2 DEF Preparing, Signing, ByWallet
    <2> QED
      BY <2>1, <2>3, <2>4
  <1>6. CASE RecordSent \/ AwaitFunding \/ WaitFails \/ AwaitRefund \/ Crash
    <2>1. UNCHANGED <<route, tx>>
      BY <1>6 DEF RecordSent, AwaitFunding, WaitFails, AwaitRefund, Crash
    <2>2. call'.at \in {"wait", "idle"}
      BY <1>6 DEF RecordSent, AwaitFunding, WaitFails, AwaitRefund, Crash, Goes, Ends, Idle, FundInv, FundCallOK
    <2>3. evm'.rehashes = evm.rehashes
      <3>1. \E i : RecordEvmFunding(i) \/ ForgetEvmFunding(i) \/ UNCHANGED evm
        BY <1>6 DEF RecordSent, AwaitFunding, WaitFails, AwaitRefund, Crash
      <3> QED
        BY <1>2, <3>1
    <2>4. OpsStay
      BY <2>1, SameOps
    <2>5. ~Preparing' /\ ~Signing' /\ ~ByWallet'
      BY <2>2 DEF Preparing, Signing, ByWallet
    <2> QED
      BY <2>1, <2>3, <2>4, <2>5
  <1>7. CASE RefundEvm \/ CollabRefundEvm
    <2>1. UNCHANGED route /\ \E key : Send(RefundTx(key))
      BY <1>7 DEF RefundEvm, CollabRefundEvm
    <2>2. call'.at = "waitRefund"
      BY <1>7 DEF RefundEvm, CollabRefundEvm, Starts, Idle
    <2>3. evm'.rehashes = evm.rehashes
      <3>1. \E i : RecordEvmFunding(i) \/ ForgetEvmFunding(i) \/ UNCHANGED evm
        BY <1>7 DEF RefundEvm, CollabRefundEvm
      <3> QED
        BY <1>2, <3>1
    <2>4. OpsStay
      BY <1>3, <1>4, <2>1
    <2>5. ~Preparing' /\ ~Signing' /\ ~ByWallet'
      BY <2>2 DEF Preparing, Signing, ByWallet
    <2> QED
      BY <2>1, <2>3, <2>4, <2>5
  <1> QED
    BY <1>5, <1>6, <1>7

\* The invariant is inductive, one lemma for each step that writes of a move.
LEMMA RehashStep == FundInv /\ FundInv' /\ RehashInv /\ [FundingNext]_fundingVars => RehashInv'
  <1> SUFFICES ASSUME FundInv, FundInv', RehashInv, [FundingNext]_fundingVars PROVE RehashInv'
    OBVIOUS
  <1>1. LocksInv /\ RecordsOK /\ RehashCallOK /\ RememberedOK
    BY DEF RehashInv
  <1>2. LocksGo
    <2>1. call.at = "prepare" => call.key \in Locks /\ call.to \in Invoices
      BY <1>1 DEF RehashCallOK, Preparing
    <2> QED
      BY <1>1, <2>1, LocksStep
  <1>3. SUFFICES RecordsOK' /\ RehashCallOK' /\ RememberedOK'
    BY <1>2 DEF RehashInv, LocksGo
  <1>4. FundTxsOK /\ RehashTxsOK
    BY <1>1 DEF FundInv, LocksInv
  <1>5. CASE ChainStep \/ UNCHANGED fundingVars
    <2>1. UNCHANGED <<route, call, evm>> /\ OpsStay
      <3>1. CASE UNCHANGED fundingVars
        BY <3>1, SameOps DEF fundingVars
      <3> QED
        BY <1>1, <1>2, <1>5, <3>1, ChainOps
    <2>2. RecordsOK' /\ CoverLasts
      BY <1>1, <1>2, <1>4, <2>1, RecordsStand DEF LocksGo
    <2> QED
      BY <1>1, <1>2, <2>1, <2>2, RehashStands DEF OpsStay
  <1>6. CASE \/ FundNativeLock \/ FundSwap \/ FundSwapGasless \/ RecordSent \/ AwaitFunding \/ WaitFails
             \/ RefundEvm \/ CollabRefundEvm \/ AwaitRefund \/ Crash
    <2>1. /\ UNCHANGED route /\ evm'.rehashes = evm.rehashes /\ OpsStay
          /\ (~Preparing' /\ ~Signing' /\ ~ByWallet') \/ (UNCHANGED call /\ call = Idle)
      BY <1>1, <1>2, <1>6, OtherCalls
    <2>2. RecordsOK' /\ CoverLasts
      BY <1>1, <1>2, <1>4, <2>1, RecordsStand DEF LocksGo
    <2>3. CASE UNCHANGED call
      BY <1>1, <1>2, <2>1, <2>2, <2>3, RehashStands DEF OpsStay
    <2>4. CASE ~Preparing' /\ ~Signing' /\ ~ByWallet'
      BY <1>1, <1>2, <1>4, <2>1, <2>2, <2>4, RehashEnds DEF OpsStay
    <2> QED
      BY <2>1, <2>3, <2>4
  <1>7. CASE RetryWithSigner \/ RecordRehash \/ AwaitRehash
    BY <1>1, <1>2, <1>7, WalletMoves, WalletRecords, WalletAwaits
  <1>8. CASE RetrySponsored \/ PrepareFails \/ SignRehashOp
    BY <1>1, <1>2, <1>8, RelayRecords, RelayGivesUp, RelaySigns
  <1>9. CASE SendRehashOp \/ RehashOpSubmitted \/ RehashOpIncluded
    BY <1>1, <1>2, <1>9, RelaySends, RelaySubmits, RelayLands
  <1> QED
    BY <1>5, <1>6, <1>7, <1>8, <1>9 DEF FundingNext, ClientStep

\* One record on the client's walk: it does not pass by a move the records it has followed lead to.
LEMMA WalkStays ==
  ASSUME FundInv, LocksInv, RecordsOK, NEW n \in DOMAIN evm.rehashes, NEW terms \in Locks,
         \A s \in DOMAIN tx :
            Moves(s) /\ tx[s].key.origin = terms.origin /\ Covered(s, n - 1) => Before(terms, s),
         FollowedTx(evm.rehashes[n]) # 0 => HasReceipt(FollowedTx(evm.rehashes[n]))
  PROVE  LET next == FollowRehash(terms, evm.rehashes[n]) IN
         /\ next \in Locks /\ next.origin = terms.origin
         /\ \A s \in DOMAIN tx :
               Moves(s) /\ tx[s].key.origin = terms.origin /\ Covered(s, n) => Before(next, s)
  <1> DEFINE e == evm.rehashes[n]
             next == FollowRehash(terms, e)
             i == FollowedTx(e)
             q == Mined[i]
  <1>a. /\ Len(evm.rehashes) \in Nat /\ n \in 1..Len(evm.rehashes) /\ DOMAIN tx = 1..Len(tx)
        /\ FundTxsOK /\ RehashTxsOK /\ e \in Entry /\ EntryOK(n) /\ Len(tx) \in Nat
    BY EntryIs DEF FundInv, FundTxsOK, LocksInv
  <1>b. terms # NoKey /\ terms \in LockKey
    BY DEF FundInv, FundLocksOK, FundTxsOK, NoKey
  <1>c. \A s : Covered(s, n) => Covered(s, n - 1) \/ Leads(e, s)
    <2>1. \A m \in 1..n : m \in 1..(n - 1) \/ m = n
      BY <1>a
    <2> QED
      BY <2>1 DEF Covered
  <1>d. next = IF i = 0 THEN terms
               ELSE IF ~HasReceipt(i) THEN NoKey
               ELSE IF ~Succeeded(i) \/ SwapRehashed(i, terms) = {} THEN terms
               ELSE IF SwapRehashed(i, terms) = {e.to} THEN [terms EXCEPT !.hash = e.to]
               ELSE NoKey
    BY <1>b DEF FollowRehash
  <1>e. ASSUME i # 0
        PROVE  /\ i \in Owners(e) /\ i \in DOMAIN tx /\ q \in DOMAIN tx
               /\ tx[q].nonce = tx[i].nonce /\ tx[q].state # "replaced"
               /\ \A s \in DOMAIN tx : Leads(e, s) /\ tx[s].state # "replaced" => s = q
    BY <1>a, <1>e, FollowedIs
  <1>f. ASSUME i # 0
        PROVE  /\ tx[q].to = e.to
               /\ tx[q].does = "rehash" =>
                     /\ \A s \in DOMAIN tx : Before(tx[q].key, s) => Covered(s, n - 1)
                     /\ \A s \in DOMAIN tx : MovedTo(s, tx[q].key) => s < q
    <2>1. /\ tx[i].does = "rehash" /\ tx[i].to = e.to
          /\ \A s \in DOMAIN tx : Before(tx[i].key, s) => Covered(s, n - 1)
      BY <1>a, <1>e, <1>f DEF EntryOK
    <2>2. tx[q].to = tx[i].to /\ (tx[q].does = "rehash" => tx[q].key = tx[i].key)
      <3> HIDE DEF i, q
      <3> QED
        BY <1>a, <1>e, <1>f, <2>1 DEF RehashTxsOK
    <2>3. tx[q].does = "rehash" => \A s \in DOMAIN tx : MovedTo(s, tx[q].key) => s < q
      <3> HIDE DEF i, q
      <3> QED
        BY <1>a, <1>e, <1>f DEF RehashTxsOK
    <2> HIDE DEF i, q
    <2> QED
      BY <2>1, <2>2, <2>3 DEF Before
  <1>g. i = 0 => \A s \in DOMAIN tx : Leads(e, s) => ~Moves(s)
    <2> SUFFICES ASSUME i = 0, NEW s \in DOMAIN tx, Leads(e, s), Moves(s) PROVE FALSE
      OBVIOUS
    <2>1. e.txid = 0
      <3> HIDE DEF e
      <3> QED
        BY DEF FollowedTx
    <2>2. e.op = s /\ s # 0
      <3> HIDE DEF e
      <3> QED
        BY <1>a, <2>1 DEF Leads
    <2>3. tx[s].userOp
      BY <1>a, <2>2 DEF EntryOK
    <2>4. HasReceipt(s)
      BY <1>a, <2>3, OpStands DEF HasReceipt, Sent, Moves
    <2>5. s \in Sent
      BY <1>a DEF Sent
    <2> HIDE DEF e
    <2>6. FollowedTx(e) = s
      BY <2>1, <2>2, <2>4, <2>5 DEF FollowedTx, PendingRehashTx
    <2> QED
      BY <2>2, <2>6
  <1>h. i # 0 => HasReceipt(i)
    OBVIOUS
  <1> HIDE DEF e, next, i, q
  <1>1. CASE i = 0
    <2>1. next = terms
      BY <1>1, <1>d
    <2>2. \A s \in DOMAIN tx : Moves(s) /\ Covered(s, n) => Covered(s, n - 1)
      BY <1>1, <1>c, <1>g
    <2> QED
      BY <2>1, <2>2 DEF next, e
  <1>2. CASE i # 0 /\ ~Moves(q)
    <2>1. next = terms
      <3>1. ~Succeeded(i) \/ SwapRehashed(i, terms) = {}
        <4> SUFFICES ASSUME Succeeded(i), SwapRehashed(i, terms) # {} PROVE FALSE
          OBVIOUS
        <4>1. tx[q].state = "success" /\ tx[q].does = "rehash"
          BY DEF Succeeded, SwapRehashed, q
        <4> QED
          BY <1>2, <1>e, <4>1 DEF Moves
      <3> QED
        BY <1>2, <1>d, <1>h, <3>1
    <2>2. \A s \in DOMAIN tx : Moves(s) /\ Covered(s, n) => Covered(s, n - 1)
      <3> SUFFICES ASSUME NEW s \in DOMAIN tx, Moves(s), Leads(e, s) PROVE FALSE
        BY <1>c
      <3>1. tx[s].state # "replaced"
        BY DEF Moves
      <3> QED
        BY <1>2, <1>e, <3>1
    <2> QED
      BY <2>1, <2>2 DEF next, e
  <1>3. CASE i # 0 /\ Moves(q) /\ tx[q].key = terms
    <2>1. /\ q \in DOMAIN tx /\ Moved(q) \in Locks /\ Moved(q).origin = terms.origin
      BY <1>3, MoveIs
    <2>2. next = Moved(q)
      <3>1. Succeeded(i) /\ SwapRehashed(i, terms) = {tx[q].to}
        BY <1>3, <1>h DEF Succeeded, SwapRehashed, Moves, q
      <3>2. next = [terms EXCEPT !.hash = e.to] /\ e.to = tx[q].to
        BY <1>3, <1>d, <1>f, <1>h, <3>1
      <3> QED
        BY <1>3, <3>2 DEF Moved
    <2>3. ASSUME NEW s \in DOMAIN tx, Moves(s), tx[s].key.origin = terms.origin, Covered(s, n)
          PROVE  Before(next, s)
      <3>1. MovedTo(q, next)
        BY <1>3, <2>2 DEF MovedTo
      <3>2. s <= q
        <4>1. CASE Leads(e, s)
          <5>1. tx[s].state # "replaced"
            BY <2>3 DEF Moves
          <5> QED
            BY <1>3, <1>a, <1>e, <2>1, <4>1, <5>1
        <4>2. CASE Covered(s, n - 1)
          <5>1. PICK r \in DOMAIN tx : MovedTo(r, terms) /\ s <= r
            BY <2>3, <4>2 DEF Before
          <5>2. r < q
            <6>1. tx[q].does = "rehash"
              BY <1>3 DEF Moves
            <6> QED
              BY <1>3, <1>f, <5>1, <6>1
          <5> QED
            BY <1>a, <2>1, <5>1, <5>2
        <4> QED
          BY <1>c, <2>3, <4>1, <4>2
      <3> QED
        BY <2>1, <2>2, <2>3, <3>1, <3>2 DEF Before
    <2> QED
      BY <2>1, <2>2, <2>3 DEF next, e
  <1>4. CASE i # 0 /\ Moves(q) /\ tx[q].key # terms
    <2>1. next = terms
      <3>1. SwapRehashed(i, terms) = {}
        BY <1>4 DEF SwapRehashed, q
      <3> QED
        BY <1>4, <1>d, <1>h, <3>1
    <2>2. ASSUME tx[q].key.origin = terms.origin
          PROVE  Before(terms, q)
      <3> DEFINE from == tx[q].key
      <3>1. /\ from \in Locks /\ from \in LockKey /\ from # terms /\ from.origin = terms.origin
            /\ q \in DOMAIN tx
        BY <1>4, <2>2, MoveIs
      <3>2. \A s \in DOMAIN tx : Before(from, s) => Before(terms, s)
        <4>1. tx[q].does = "rehash"
          BY <1>4 DEF Moves
        <4>2. \A s \in DOMAIN tx : Before(from, s) => Covered(s, n - 1)
          BY <1>4, <1>f, <4>1
        <4>3. \A s \in DOMAIN tx : Before(from, s) => Moves(s) /\ tx[s].key.origin = terms.origin
          BY <3>1 DEF Before
        <4> HIDE DEF from
        <4> QED
          BY <4>2, <4>3
      <3>3. \A r \in DOMAIN tx : MovedTo(r, from) => Before(from, r)
        BY <1>a, MoveIs DEF MovedTo, Before
      <3>4. Moves(q)
        BY <1>4
      <3> HIDE DEF from
      <3>5. CASE terms.hash = OwnHash
        <4>1. from.hash # OwnHash
          BY <1>b, <3>1, <3>5 DEF LockKey
        <4>2. PICK r \in DOMAIN tx : MovedTo(r, from)
          BY <3>1, <4>1 DEF LocksInv, MovesOK
        <4>3. Before(terms, r)
          BY <3>2, <3>3, <4>2
        <4> QED
          BY <3>5, <4>3, CreatedIsFirst
      <3>6. CASE terms.hash # OwnHash
        <4>1. PICK c \in DOMAIN tx : MovedTo(c, terms)
          BY <3>6 DEF LocksInv, MovesOK
        <4>2. Moves(c) /\ tx[c].key.origin = terms.origin
          BY <4>1, MoveIs DEF MovedTo
        <4>3. CASE q <= c
          BY <2>2, <3>1, <3>4, <4>1, <4>3 DEF Before
        <4>4. CASE ~(q <= c)
          <5>1. c < q
            BY <1>a, <3>1, <4>4
          <5>2. Before(from, c)
            BY <3>1, <3>4, <4>2, <5>1 DEF LocksInv, ChainOK, from
          <5>3. PICK r \in DOMAIN tx : MovedTo(r, from) /\ c <= r
            BY <5>2 DEF Before
          <5>4. r # c
            BY <3>1, <4>1, <5>3 DEF MovedTo
          <5>5. Before(terms, r)
            BY <3>2, <3>3, <5>3
          <5>6. PICK d \in DOMAIN tx : MovedTo(d, terms) /\ r <= d
            BY <5>5 DEF Before
          <5>7. d = c
            BY <4>1, <5>6 DEF MovedTo, LocksInv, MovesOK
          <5> QED
            BY <1>a, <5>3, <5>4, <5>6, <5>7
        <4> QED
          BY <4>3, <4>4
      <3> QED
        BY <3>5, <3>6
    <2>3. ASSUME NEW s \in DOMAIN tx, Moves(s), tx[s].key.origin = terms.origin, Covered(s, n)
          PROVE  Before(terms, s)
      <3>1. CASE Leads(e, s)
        <4>1. tx[s].state # "replaced"
          BY <2>3 DEF Moves
        <4>2. s = q
          BY <1>4, <1>e, <3>1, <4>1
        <4> QED
          BY <2>2, <2>3, <4>2
      <3> QED
        BY <1>c, <2>3, <3>1
    <2> QED
      BY <2>1, <2>3 DEF next, e
  <1> QED
    BY <1>1, <1>2, <1>3, <1>4

\* The whole walk: it ends where every move that is on record led.
LEMMA WalkFinds ==
  ASSUME FundInv, LocksInv, RecordsOK, NEW created \in Locks, created.hash = OwnHash,
         \A n \in DOMAIN evm.rehashes :
            FollowedTx(evm.rehashes[n]) # 0 => HasReceipt(FollowedTx(evm.rehashes[n]))
  PROVE  LET terms == RehashedTerms(created, evm.rehashes) IN
         /\ terms \in Locks /\ terms.origin = created.origin
         /\ \A s \in DOMAIN tx :
               Moves(s) /\ tx[s].key.origin = terms.origin /\ Covered(s, Len(evm.rehashes)) => Before(terms, s)
  <1> DEFINE N == Len(evm.rehashes)
  <1>1. N \in Nat /\ DOMAIN evm.rehashes = 1..N
    BY DEF RecordsOK
  <1>2. PICK walk :
           /\ walk[0] = created
           /\ \A n \in 1..N : walk[n] = FollowRehash(walk[n - 1], evm.rehashes[n])
           /\ walk[N] = RehashedTerms(created, evm.rehashes)
    BY <1>1, WalkGoes
  <1> DEFINE Found(n) == /\ walk[n] \in Locks /\ walk[n].origin = created.origin
                         /\ \A s \in DOMAIN tx :
                               Moves(s) /\ tx[s].key.origin = walk[n].origin /\ Covered(s, n) => Before(walk[n], s)
             bad == {n \in 0..N : ~Found(n)}
  <1>3. Found(0)
    <2>1. \A s : ~Covered(s, 0)
      BY DEF Covered
    <2> QED
      BY <1>2, <2>1
  <1>4. ASSUME NEW n \in 1..N, Found(n - 1) PROVE Found(n)
    <2> DEFINE terms == walk[n - 1]
    <2>1. n \in DOMAIN evm.rehashes /\ walk[n] = FollowRehash(terms, evm.rehashes[n])
      BY <1>1, <1>2
    <2>2. /\ terms \in Locks /\ terms.origin = created.origin
          /\ \A s \in DOMAIN tx :
                Moves(s) /\ tx[s].key.origin = terms.origin /\ Covered(s, n - 1) => Before(terms, s)
      BY <1>4
    <2> HIDE DEF terms
    <2>3. LET next == FollowRehash(terms, evm.rehashes[n]) IN
          /\ next \in Locks /\ next.origin = terms.origin
          /\ \A s \in DOMAIN tx :
                Moves(s) /\ tx[s].key.origin = terms.origin /\ Covered(s, n) => Before(next, s)
      BY <2>1, <2>2, WalkStays
    <2> QED
      BY <2>1, <2>2, <2>3
  <1>5. \A n \in 0..N : Found(n)
    <2> SUFFICES ASSUME bad # {} PROVE FALSE
      OBVIOUS
    <2>1. bad \subseteq Nat
      OBVIOUS
    <2>2. PICK n \in bad : \A m \in bad : ~(<<m, n>> \in OpToRel(<, Nat))
      BY <2>1, WFMin, NatLessThanWellFounded
    <2>3. n \in 0..N /\ ~Found(n)
      BY <2>2
    <2>4. n # 0
      BY <1>3, <2>3
    <2>5. n \in 1..N /\ n - 1 \in 0..N /\ n - 1 \in Nat /\ n - 1 < n /\ n \in Nat
      BY <1>1, <2>3, <2>4
    <2>6. n - 1 \notin bad
      <3>1. <<n - 1, n>> \in OpToRel(<, Nat)
        BY <2>5 DEF OpToRel
      <3> HIDE DEF bad
      <3> QED
        BY <2>2, <3>1
    <2>7. Found(n - 1)
      BY <2>5, <2>6
    <2> HIDE DEF Found, bad
    <2> QED
      BY <1>4, <2>3, <2>5, <2>7
  <1>7. N \in 0..N
    BY <1>1
  <1> HIDE DEF N
  <1> QED
    BY <1>2, <1>5, <1>7 DEF N

\* The funding on record, and the one that a call is about, is a transaction that was sent.
FundTxOK ==
    /\ evm.fundTx \in DOMAIN tx \cup {0}
    /\ call.at \in {"record", "relayed", "wait"} => call.id \in DOMAIN tx

LEMMA FundTxStep ==
  ASSUME FundInv, FundInv', FundTxOK, TxsKeep, [FundingNext]_fundingVars
  PROVE  FundTxOK'
  <1>1. evm = [fundTx |-> evm.fundTx, rehashes |-> evm.rehashes] /\ DOMAIN tx \subseteq DOMAIN tx'
        /\ DOMAIN tx = 1..Len(tx)
    BY DEF FundInv, FundRecordOK, TxsKeep, FundTxsOK
  <1>a. (\A pc : Goes(pc) => call'.at = pc) /\ (Ends => call'.at = "idle")
    BY DEF Goes, Ends, Idle, FundInv, FundCallOK
  <1>2. ASSUME NEW i \in DOMAIN tx \cup {0}, RecordEvmFunding(i) \/ ForgetEvmFunding(i) \/ UNCHANGED evm
        PROVE  evm'.fundTx \in DOMAIN tx' \cup {0}
    BY <1>1, <1>2 DEF RecordEvmFunding, ForgetEvmFunding, FundTxOK
  <1>3. ASSUME NEW t, Send(t) PROVE NewId \in DOMAIN tx'
    <2>1. tx' = Append(tx, t) /\ tx \in Seq(FundTx)
      BY <1>3 DEF Send, FundInv, FundTxsOK
    <2> QED
      BY <2>1 DEF NewId
  <1>4. CASE FundNativeLock \/ FundSwap \/ FundSwapGasless
    <2>1. Send(LockTx) /\ UNCHANGED evm /\ (UNCHANGED call \/ call'.id = NewId)
      BY <1>4 DEF FundNativeLock, FundSwap, FundSwapGasless, Starts, Idle
    <2> QED
      BY <1>1, <1>3, <2>1 DEF FundTxOK
  <1>5. CASE RecordSent \/ AwaitFunding
    <2>1. call.id \in DOMAIN tx /\ UNCHANGED tx
      BY <1>5 DEF RecordSent, AwaitFunding, At, FundTxOK
    <2>2. Mined[call.id] \in DOMAIN tx
      BY <2>1, MinedStands DEF FundInv
    <2>3. \E i \in DOMAIN tx : RecordEvmFunding(i) \/ ForgetEvmFunding(i) \/ UNCHANGED evm
      BY <1>5, <2>1, <2>2 DEF RecordSent, AwaitFunding
    <2>4. call'.id = call.id \/ call'.at = "idle"
      BY <1>5 DEF RecordSent, AwaitFunding, Goes, Ends, Idle, FundInv, FundCallOK
    <2> QED
      BY <1>2, <2>1, <2>3, <2>4 DEF FundTxOK
  <1>6. CASE WaitFails \/ AwaitRefund \/ Crash \/ CollabRefundEvm
    <2>1. UNCHANGED evm /\ call'.at \in {"waitRefund", "idle"}
      <3>1. CASE WaitFails \/ AwaitRefund \/ Crash
        BY <1>a, <3>1 DEF WaitFails, AwaitRefund, Crash
      <3>2. CASE CollabRefundEvm
        BY <3>2 DEF CollabRefundEvm, Starts, Idle
      <3> QED
        BY <1>6, <3>1, <3>2
    <2> QED
      BY <1>1, <2>1 DEF FundTxOK
  <1>7. CASE RefundEvm
    <2>1. \E i \in ServerTxids : RecordEvmFunding(i) \/ UNCHANGED evm
      BY <1>7 DEF RefundEvm
    <2>2. ServerTxids \subseteq DOMAIN tx \cup {0}
      BY <1>1 DEF ServerTxids, Sent
    <2>3. call'.at = "waitRefund"
      BY <1>7 DEF RefundEvm, Starts, Idle
    <2> QED
      BY <1>2, <2>1, <2>2, <2>3 DEF FundTxOK
  <1>8. CASE ChainStep \/ UNCHANGED fundingVars
    BY <1>1, <1>8 DEF ChainStep, Mine, Replace, ServerClaims, fundingVars, FundTxOK
  <1>9. ASSUME NEW record, NEW n, evm' = WithRehash(record, n) PROVE evm'.fundTx = evm.fundTx
    BY <1>1, <1>9 DEF WithRehash
  <1>10. CASE RetryWithSigner \/ RecordRehash \/ AwaitRehash
    <2>1. evm'.fundTx = evm.fundTx
      BY <1>9, <1>10 DEF RetryWithSigner, RecordRehash, AwaitRehash, UpdateEvmRehash
    <2>2. call'.at \in {"recordRehash", "waitRehash", "idle"}
      <3>1. CASE RetryWithSigner
        BY <3>1 DEF RetryWithSigner, Starts, Idle
      <3>2. CASE RecordRehash
        BY <3>2, <1>a DEF RecordRehash
      <3>3. CASE AwaitRehash
        BY <3>3 DEF AwaitRehash, Ends, Idle
      <3> QED
        BY <1>10, <3>1, <3>2, <3>3
    <2> QED
      BY <1>1, <2>1, <2>2 DEF FundTxOK
  <1>11. CASE RetrySponsored \/ PrepareFails \/ SignRehashOp \/ SendRehashOp \/ RehashOpSubmitted \/ RehashOpIncluded
    <2>1. evm'.fundTx = evm.fundTx
      BY <1>1, <1>9, <1>11 DEF RetrySponsored, PrepareFails, SignRehashOp, SendRehashOp, RehashOpSubmitted,
         RehashOpIncluded, UpdateEvmRehash, DropPendingRehash
    <2>2. call'.at \in {"prepare", "sendOp", "submitted", "waitOp", "idle"}
      <3>1. CASE RetrySponsored
        BY <3>1 DEF RetrySponsored, Starts, Idle
      <3>2. CASE SignRehashOp
        <4>1. \/ call' = [call EXCEPT !.at = "sendOp", !.id = NewId, !.op = NewId]
              \/ call' = [call EXCEPT !.at = "sendOp", !.id = NewId]
          BY <3>2 DEF SignRehashOp
        <4> QED
          BY <4>1 DEF FundInv, FundCallOK
      <3>3. CASE PrepareFails \/ RehashOpIncluded
        BY <3>3 DEF PrepareFails, RehashOpIncluded, Ends, Idle
      <3>4. CASE SendRehashOp \/ RehashOpSubmitted
        BY <3>4, <1>a DEF SendRehashOp, RehashOpSubmitted
      <3> QED
        BY <1>11, <3>1, <3>2, <3>3, <3>4
    <2> QED
      BY <1>1, <2>1, <2>2 DEF FundTxOK
  <1> QED
    BY <1>4, <1>5, <1>6, <1>7, <1>8, <1>10, <1>11 DEF FundingNext, ClientStep

\* What may land is on record: the running call's, until it is sent, is not yet to.
LEMMA RehashesRemembered ==
  ASSUME FundInv, RehashInv PROVE RehashRemembered
  <1> SUFFICES ASSUME NEW i \in DOMAIN tx, MayLand(i)
               PROVE  \E n \in DOMAIN evm.rehashes : Remembers(n, i)
    BY DEF RehashRemembered, MayLand, IsOp, Remembers, Sent, FundInv, FundTxsOK
  <1>1. /\ Len(evm.rehashes) \in Nat /\ DOMAIN evm.rehashes = 1..Len(evm.rehashes) /\ 0 \notin DOMAIN tx
        /\ RehashCallOK /\ RememberedOK
    <2>1. Len(evm.rehashes) \in Nat /\ DOMAIN evm.rehashes = 1..Len(evm.rehashes)
      BY DEF RehashInv, RecordsOK
    <2>2. 0 \notin DOMAIN tx
      BY DEF FundInv, FundTxsOK
    <2> QED
      BY <2>1, <2>2 DEF RehashInv
  <1>2. CASE ~(Preparing /\ i = call.id)
    <2>1. PICK n \in 1..KeptLen : Remembers(n, i)
      BY <1>1, <1>2 DEF RememberedOK
    <2>2. n \in DOMAIN evm.rehashes
      BY <1>1, <2>1 DEF KeptLen
    <2> QED
      BY <2>1, <2>2
  <1>3. CASE Preparing /\ i = call.id
    <2>1. call.at # "prepare"
      BY <1>1, <1>3 DEF RehashCallOK
    <2>2. Signing
      BY <1>3, <2>1 DEF Preparing, Signing
    <2>3. evm.rehashes # <<>>
      BY <1>1, <1>3 DEF RehashCallOK, Preparing
    <2>4. Len(evm.rehashes) \in DOMAIN evm.rehashes
      BY <1>1, <2>3 DEF RehashInv, RecordsOK
    <2>5. Remembers(Len(evm.rehashes), i)
      BY <1>1, <1>3, <2>2 DEF RehashCallOK, Remembers
    <2> QED
      BY <2>4, <2>5
  <1> QED
    BY <1>2, <1>3

\* The refund of a deposit whose funding and moves are on record is built for the open lock.
LEMMA RefundIsFound ==
  ASSUME FundInv, RehashInv, FundTxOK PROVE RefundFindsLock
  <1> SUFFICES ASSUME NEW key \in Locks, logs, Is(key, "Active"), evm.fundTx # 0,
                      Mined[evm.fundTx] = key.origin,
                      \A i \in Sent : tx[i].does = "rehash" /\ tx[i].state = "success" => Followable(i),
                      \A n \in DOMAIN evm.rehashes :
                         FollowedTx(evm.rehashes[n]) # 0 => HasReceipt(FollowedTx(evm.rehashes[n]))
               PROVE  BuildEvmSourceRefund(0) = [is |-> "lock", key |-> key]
    BY DEF RefundFindsLock
  <1> DEFINE i == evm.fundTx
             o == key.origin
             created == [hash |-> OwnHash, origin |-> o]
             terms == RehashedTerms(created, evm.rehashes)
  <1>1. /\ LocksInv /\ RecordsOK /\ FundTxsOK /\ RehashTxsOK /\ i \in DOMAIN tx /\ DOMAIN tx = 1..Len(tx)
        /\ Len(evm.rehashes) \in Nat /\ DOMAIN evm.rehashes = 1..Len(evm.rehashes)
    <2>1. LocksInv /\ RecordsOK /\ FundTxsOK /\ RehashTxsOK /\ i \in DOMAIN tx
      BY DEF RehashInv, LocksInv, FundInv, FundTxOK
    <2>2. DOMAIN tx = 1..Len(tx)
      BY <2>1 DEF FundTxsOK
    <2>3. Len(evm.rehashes) \in Nat /\ DOMAIN evm.rehashes = 1..Len(evm.rehashes)
      BY <2>1 DEF RecordsOK
    <2> QED
      BY <2>1, <2>2, <2>3
  <1>2. o \in DOMAIN tx /\ Creates(o) /\ tx[o].state = "success" /\ htlc[key] = "Active"
    BY DEF FundInv, FundLocksOK, Is
  <1>3. created \in Locks /\ created.hash = OwnHash /\ created.origin = o
    BY <1>1, <1>2 DEF LocksInv, CreatedOK
  <1>4. /\ terms \in Locks /\ terms.origin = o
        /\ \A s \in DOMAIN tx :
              Moves(s) /\ tx[s].key.origin = o /\ Covered(s, Len(evm.rehashes)) => Before(terms, s)
    <2> HIDE DEF created, o
    <2>1. LET t == RehashedTerms(created, evm.rehashes) IN
          /\ t \in Locks /\ t.origin = created.origin
          /\ \A s \in DOMAIN tx :
                Moves(s) /\ tx[s].key.origin = t.origin /\ Covered(s, Len(evm.rehashes)) => Before(t, s)
      BY <1>1, <1>3, WalkFinds
    <2> QED
      BY <1>3, <2>1
  <1> HIDE DEF terms
  <1>5. htlc[terms] # "Rehashed"
    <2> SUFFICES ASSUME htlc[terms] = "Rehashed" PROVE FALSE
      OBVIOUS
    <2>1. PICK r \in DOMAIN tx : Moves(r) /\ tx[r].key = terms
      BY <1>1, <1>4 DEF LocksInv, MovesOK
    <2>2. Followable(r)
      BY <1>1, <2>1 DEF Moves, Sent
    <2>3. PICK n \in DOMAIN evm.rehashes : FollowedTx(evm.rehashes[n]) # 0 /\ Mined[FollowedTx(evm.rehashes[n])] = r
      BY <2>2 DEF Followable
    <2>4. Leads(evm.rehashes[n], r)
      BY <1>1, <2>3, FollowedIs
    <2>5. Covered(r, Len(evm.rehashes))
      BY <1>1, <2>4 DEF Covered
    <2>6. Before(terms, r)
      BY <1>4, <2>1, <2>5
    <2>7. PICK c \in DOMAIN tx : MovedTo(c, terms) /\ r <= c
      BY <2>6 DEF Before
    <2>8. c < r
      BY <1>1, <2>1, <2>7 DEF RehashTxsOK, Moves
    <2> QED
      BY <1>1, <2>1, <2>7, <2>8
  <1>6. terms = key
    BY <1>2, <1>4, <1>5 DEF FundInv, FundLocksOK
  <1>7. key # NoKey
    BY <1>1, <1>2 DEF NoKey
  <1>8. EvmSourceLeg.hash = OwnHash /\ EvmSourceLeg.fundTxids = <<i>> /\ EvmSourceLeg.rehashes = evm.rehashes
    BY <1>1 DEF EvmSourceLeg, RecordsOK
  <1>9. LockFromFundingTx(i) = [is |-> "lock", key |-> key]
    <2>1. HasReceipt(i) /\ Succeeded(i)
      BY <1>1, <1>2 DEF HasReceipt, Succeeded, Sent
    <2>2. SwapCreated(i, EvmSourceLeg.hash) = {created}
      BY <1>2, <1>8 DEF SwapCreated
    <2>3. (CHOOSE k \in {created} : TRUE) = created
      OBVIOUS
    <2>4. RehashedTerms(created, EvmSourceLeg.rehashes) = key
      BY <1>6, <1>8 DEF terms
    <2> HIDE DEF created, i
    <2> QED
      BY <1>7, <2>1, <2>2, <2>3, <2>4 DEF LockFromFundingTx
  <1>10. RefundFromFundingTx(i) = [is |-> "lock", key |-> key]
    <2> DEFINE lock == LockFromFundingTx(i)
    <2>1. lock.is = "lock" /\ lock.key = key /\ Is(lock.key, "Active")
          /\ ~Is(lock.key, "Redeemed") /\ ~Is(lock.key, "Refunded")
      BY <1>9 DEF Is
    <2>2. RefundFromFundingTx(i) =
             IF lock.is # "lock" THEN lock
             ELSE CASE Is(lock.key, "Active") -> lock
                    [] Is(lock.key, "Redeemed") \/ Is(lock.key, "Refunded") -> [lock EXCEPT !.is = "settled"]
                    [] OTHER -> Unreadable
      BY DEF RefundFromFundingTx
    <2>3. lock = [is |-> "lock", key |-> key]
      BY <1>9
    <2> HIDE DEF lock, i
    <2>4. RefundFromFundingTx(i) = lock
      BY <2>1, <2>2
    <2> QED
      BY <2>3, <2>4
  <1>11. Tried(0) = <<i>>
    BY <1>8 DEF Tried
  <1>12. BuildEvmSourceRefund(0) = RefundFromFundingTx(i)
    <2> DEFINE tried == Tried(0)
               told == {n \in DOMAIN tried : RefundFromFundingTx(tried[n]).is # "unavailable"}
    <2>1. DOMAIN tried = {1} /\ tried[1] = i
      BY <1>11
    <2>2. told = {1}
      BY <1>10, <2>1
    <2>3. FirstOf(told) = 1
      BY <2>2 DEF FirstOf
    <2>4. BuildEvmSourceRefund(0) = IF told = {} THEN Unavailable ELSE RefundFromFundingTx(tried[FirstOf(told)])
      BY DEF BuildEvmSourceRefund
    <2> HIDE DEF tried, told, i
    <2> QED
      BY <2>1, <2>2, <2>3, <2>4
  <1> QED
    BY <1>10, <1>12

\* What the transactions and the locks name: a transaction creates a lock or moves, claims or
\* refunds one that there is.
FundShape ==
    /\ route \in Routes /\ logs \in BOOLEAN
    /\ Len(tx) <= MaxTx
    /\ \A i \in DOMAIN tx : tx[i].key \in Locks \cup {NoKey}
    /\ \A key \in Locks : htlc[key] \in {"Active", "Redeemed", "Refunded", "Rehashed"}
    /\ onRecord \subseteq DOMAIN tx

\* What is sent names a lock there is, or none.
LEMMA FundSends ==
  ASSUME FundInv, FundShape, NEW t, Send(t), t.key \in Locks \cup {NoKey}, UNCHANGED htlc
  PROVE  /\ Len(tx') <= MaxTx /\ DOMAIN tx \subseteq DOMAIN tx'
         /\ \A i \in DOMAIN tx' : tx'[i].key \in Locks' \cup {NoKey}
  <1> DEFINE S == FundTx \cup {t}
  <1>1. tx \in Seq(S) /\ t \in S /\ Len(tx) < MaxTx /\ tx' = Append(tx, t) /\ MaxTx \in Nat
    BY FundingAssumption DEF FundInv, FundTxsOK, Send
  <1>2. Locks' = Locks
    BY DEF Locks
  <1> HIDE DEF S
  <1>3. /\ Len(tx') = Len(tx) + 1 /\ DOMAIN tx' = 1..(Len(tx) + 1) /\ DOMAIN tx = 1..Len(tx) /\ Len(tx) \in Nat
        /\ tx'[Len(tx) + 1] = t /\ \A i \in 1..Len(tx) : tx'[i] = tx[i]
    BY <1>1
  <1>4. ASSUME NEW i \in DOMAIN tx' PROVE tx'[i].key \in Locks' \cup {NoKey}
    <2>1. i \in DOMAIN tx \/ i = Len(tx) + 1
      BY <1>3
    <2> QED
      BY <1>2, <1>3, <2>1 DEF FundShape
  <1> QED
    BY <1>1, <1>3, <1>4

\* A transaction that changes its state stays what it is.
LEMMA FundTurns ==
  ASSUME FundInv, FundShape, NEW i \in DOMAIN tx, NEW state, tx' = [tx EXCEPT ![i].state = state],
         Locks \subseteq Locks'
  PROVE  /\ Len(tx') <= MaxTx /\ DOMAIN tx' = DOMAIN tx
         /\ \A j \in DOMAIN tx' : tx'[j].key \in Locks' \cup {NoKey}
  <1> DEFINE r == [tx[i] EXCEPT !.state = state]
             S == FundTx \cup {r}
  <1>1. tx \in Seq(S) /\ r \in S /\ r.key = tx[i].key
    <2>1. tx \in Seq(FundTx) /\ tx[i] \in FundTx
      BY DEF FundInv, FundTxsOK
    <2>2. r.key = tx[i].key
      BY <2>1 DEF FundTx
    <2> QED
      BY <2>1, <2>2
  <1>2. tx' = [tx EXCEPT ![i] = r]
    OBVIOUS
  <1> HIDE DEF r, S
  <1>3. Len(tx') = Len(tx) /\ DOMAIN tx' = DOMAIN tx /\ tx'[i] = r /\ \A j \in DOMAIN tx : j # i => tx'[j] = tx[j]
    BY <1>1, <1>2
  <1> QED
    BY <1>1, <1>3 DEF FundShape

\* A native or sponsored funding, whoever sent it, is on record by a txid that was sent.
LEMMA FundRecorded ==
  ASSUME FundInv, FundShape, FundTxOK, [FundingNext]_fundingVars
  PROVE  onRecord' \subseteq DOMAIN tx
  <1>1. onRecord \subseteq DOMAIN tx
    BY DEF FundShape
  <1>2. ASSUME NEW i \in DOMAIN tx, RecordEvmFunding(i) \/ ForgetEvmFunding(i)
        PROVE  onRecord' \subseteq DOMAIN tx
    BY <1>1, <1>2 DEF RecordEvmFunding, ForgetEvmFunding
  <1>3. CASE RecordSent \/ AwaitFunding
    <2>1. call.id \in DOMAIN tx
      BY <1>3 DEF RecordSent, AwaitFunding, At, FundTxOK
    <2>2. Mined[call.id] \in DOMAIN tx
      BY <2>1, MinedStands DEF FundInv
    <2> QED
      BY <1>1, <1>2, <1>3, <2>1, <2>2 DEF RecordSent, AwaitFunding
  <1>4. CASE RefundEvm
    <2>1. PICK s \in ServerTxids :
             \/ /\ BuildEvmSourceRefund(s).is = "lock"
                /\ IF evm.fundTx = 0 /\ BuildEvmSourceRefund(s).key.origin = s
                   THEN RecordEvmFunding(s) ELSE UNCHANGED <<evm, onRecord>>
             \/ UNCHANGED <<evm, onRecord>>
      BY <1>4 DEF RefundEvm
    <2>2. CASE BuildEvmSourceRefund(s).is = "lock" /\ BuildEvmSourceRefund(s).key.origin = s /\ RecordEvmFunding(s)
      <3>1. s \in DOMAIN tx
        BY <2>2, RefundKey
      <3> QED
        BY <1>2, <2>2, <3>1
    <2> QED
      BY <1>1, <2>1, <2>2
  <1>5. CASE \/ FundNativeLock \/ FundSwap \/ FundSwapGasless \/ WaitFails \/ RetryWithSigner \/ RecordRehash
             \/ AwaitRehash \/ RetrySponsored \/ PrepareFails \/ SignRehashOp \/ SendRehashOp \/ RehashOpSubmitted
             \/ RehashOpIncluded \/ CollabRefundEvm \/ AwaitRefund \/ Crash \/ ChainStep \/ UNCHANGED fundingVars
    <2>1. UNCHANGED onRecord
      BY <1>5 DEF FundNativeLock, FundSwap, FundSwapGasless, WaitFails, RetryWithSigner, RecordRehash, AwaitRehash,
         RetrySponsored, PrepareFails, SignRehashOp, SendRehashOp, RehashOpSubmitted, RehashOpIncluded,
         CollabRefundEvm, AwaitRefund, Crash, ChainStep, Mine, Replace, ServerClaims, fundingVars
    <2> QED
      BY <1>1, <2>1
  <1> QED
    BY <1>3, <1>4, <1>5 DEF FundingNext, ClientStep

LEMMA FundShapeStep ==
  ASSUME FundInv, RehashInv, FundTxOK, FundShape, TxsKeep, Locks \subseteq Locks', [FundingNext]_fundingVars
  PROVE  FundShape'
  <1>a. /\ DOMAIN tx = 1..Len(tx) /\ \A i \in DOMAIN tx : tx[i] \in FundTx
        /\ htlc = [key \in Locks |-> htlc[key]] /\ DOMAIN tx \subseteq DOMAIN tx'
    BY DEF FundInv, FundTxsOK, FundLocksOK, TxsKeep
  <1>b. UNCHANGED <<route, logs>>
    BY DEF FundingNext, ClientStep, ChainStep, FundNativeLock, FundSwap, FundSwapGasless, RecordSent, AwaitFunding,
       WaitFails, RetryWithSigner, RecordRehash, AwaitRehash, RetrySponsored, PrepareFails, SignRehashOp, SendRehashOp,
       RehashOpSubmitted, RehashOpIncluded, RefundEvm, CollabRefundEvm, AwaitRefund, Crash, Mine, Replace,
       ServerClaims, fundingVars
  <1> DEFINE TxShape == Len(tx') <= MaxTx /\ \A i \in DOMAIN tx' : tx'[i].key \in Locks' \cup {NoKey}
             LockShape == \A key \in Locks' : htlc'[key] \in {"Active", "Redeemed", "Refunded", "Rehashed"}
  <1>c. onRecord' \subseteq DOMAIN tx'
    BY <1>a, FundRecorded
  <1> SUFFICES TxShape /\ LockShape
    BY <1>b, <1>c DEF FundShape
  <1>1. ASSUME UNCHANGED htlc PROVE LockShape
    BY <1>1 DEF FundShape, Locks
  <1>2. ASSUME UNCHANGED tx PROVE TxShape
    BY <1>2 DEF FundShape
  <1>3. ASSUME NEW t, Send(t), t.key \in Locks \cup {NoKey}, UNCHANGED htlc
        PROVE  TxShape /\ LockShape
    BY <1>1, <1>3, FundSends
  <1> HIDE DEF TxShape, LockShape
  <1>4. CASE FundNativeLock \/ FundSwap \/ FundSwapGasless
    <2>1. Send(LockTx) /\ UNCHANGED htlc /\ LockTx.key = NoKey
      BY <1>4 DEF FundNativeLock, FundSwap, FundSwapGasless, LockTx, Tx
    <2> QED
      BY <1>3, <2>1
  <1>5. CASE RetryWithSigner
    <2>1. PICK move \in Movable : Send(RehashTx(move, "pending", FALSE)) /\ UNCHANGED htlc
      BY <1>5 DEF RetryWithSigner
    <2>2. RehashTx(move, "pending", FALSE).key \in Locks
      BY MovableLock DEF RehashTx, Tx, Is
    <2> QED
      BY <1>3, <2>1, <2>2
  <1>6. CASE SignRehashOp
    <2>1. Send(RehashTx(call, "unsent", TRUE)) /\ UNCHANGED htlc /\ call.key \in Locks
      BY <1>6 DEF SignRehashOp, At, RehashInv, RehashCallOK, Preparing
    <2>2. RehashTx(call, "unsent", TRUE).key = call.key
      BY DEF RehashTx, Tx
    <2> QED
      BY <1>3, <2>1, <2>2
  <1>7. CASE RefundEvm \/ CollabRefundEvm
    <2>1. PICK key : Send(RefundTx(key)) /\ key \in Locks /\ UNCHANGED htlc
      <3>1. CASE CollabRefundEvm
        BY <3>1 DEF CollabRefundEvm
      <3>2. CASE RefundEvm
        <4>1. PICK s \in ServerTxids :
                 \/ /\ BuildEvmSourceRefund(s).is = "lock"
                    /\ Send(RefundTx(BuildEvmSourceRefund(s).key))
                 \/ \E key \in BindServerRefund(s) : Send(RefundTx(key))
          BY <3>2 DEF RefundEvm
        <4>2. BuildEvmSourceRefund(s).is = "lock" => BuildEvmSourceRefund(s).key \in Locks
          BY RefundLock
        <4>3. UNCHANGED htlc
          BY <3>2 DEF RefundEvm
        <4> QED
          BY <4>1, <4>2, <4>3 DEF BindServerRefund
      <3> QED
        BY <1>7, <3>1, <3>2
    <2>2. RefundTx(key).key = key
      BY DEF RefundTx, Tx
    <2> QED
      BY <1>3, <2>1, <2>2
  <1>8. CASE SendRehashOp
    <2>1. call.id \in DOMAIN tx /\ UNCHANGED htlc
      BY <1>8 DEF SendRehashOp, At, FundInv, FundCallOK
    <2> QED
      BY <1>1, <1>2, <1>8, <2>1, FundTurns DEF SendRehashOp, TxShape
  <1>9. ASSUME NEW i \in Sent, Mine(i)
        PROVE  TxShape /\ LockShape
    <2>1. i \in DOMAIN tx /\ \E state : tx' = [tx EXCEPT ![i].state = state]
      BY <1>9, <1>a DEF Sent, Mine
    <2>2. TxShape
      BY <2>1, FundTurns DEF TxShape
    <2>3. htlc' = htlc \/ htlc' = Effect(i)
      BY <1>9 DEF Mine
    <2>4. \A key \in DOMAIN Effect(i) :
             \/ Effect(i)[key] \in {"Active", "Redeemed", "Refunded", "Rehashed"}
             \/ key \in Locks /\ Effect(i)[key] = htlc[key]
      BY <1>a DEF Effect, Opened, Locks
    <2> QED
      BY <2>2, <2>3, <2>4, <1>1 DEF FundShape, Locks, LockShape
  <1>10. ASSUME NEW i \in Sent, Replace(i)
         PROVE  TxShape /\ LockShape
    <2>1. /\ i \in DOMAIN tx /\ UNCHANGED htlc /\ Len(tx) < MaxTx
          /\ \E by : /\ by.key \in {tx[i].key, NoKey}
                     /\ tx' = Append([tx EXCEPT ![i].state = "replaced"], by)
      <3>1. PICK does : tx' = Append([tx EXCEPT ![i].state = "replaced"],
                                     [tx[i] EXCEPT !.does = does, !.key = IF does = "cancel" THEN NoKey ELSE @])
        BY <1>10 DEF Replace
      <3>2. i \in DOMAIN tx /\ tx[i] \in FundTx
        BY <1>a DEF Sent
      <3> DEFINE by == [tx[i] EXCEPT !.does = does, !.key = IF does = "cancel" THEN NoKey ELSE @]
      <3>3. by.key \in {tx[i].key, NoKey}
        BY <3>2 DEF FundTx
      <3>4. UNCHANGED htlc /\ Len(tx) < MaxTx
        BY <1>10 DEF Replace
      <3>5. tx' = Append([tx EXCEPT ![i].state = "replaced"], by)
        BY <3>1
      <3> HIDE DEF by
      <3> QED
        BY <3>2, <3>3, <3>4, <3>5
    <2>2. PICK by : by.key \in {tx[i].key, NoKey} /\ tx' = Append([tx EXCEPT ![i].state = "replaced"], by)
      BY <2>1
    <2> DEFINE r == [tx[i] EXCEPT !.state = "replaced"]
               S == FundTx \cup {r, by}
               marked == [tx EXCEPT ![i] = r]
    <2>3. tx \in Seq(S) /\ r \in S /\ by \in S /\ tx' = Append(marked, by)
      BY <2>1, <2>2 DEF FundInv, FundTxsOK
    <2> HIDE DEF r, S
    <2>4. marked \in Seq(S) /\ Len(marked) = Len(tx)
      BY <2>1, <2>3
    <2> HIDE DEF marked
    <2>5. Len(tx') = Len(tx) + 1 /\ DOMAIN tx' = 1..(Len(tx) + 1) /\ tx'[Len(tx) + 1] = by /\ Len(tx) \in Nat
      BY <2>3, <2>4
    <2>6. \A j \in DOMAIN tx : tx'[j].key = tx[j].key
      BY DEF TxsKeep
    <2>7. ASSUME NEW j \in DOMAIN tx' PROVE tx'[j].key \in Locks \cup {NoKey}
      <3>1. j \in DOMAIN tx \/ j = Len(tx) + 1
        BY <1>a, <2>5
      <3> QED
        BY <2>1, <2>2, <2>5, <2>6, <3>1 DEF FundShape
    <2>8. Len(tx') <= MaxTx
      BY <2>1, <2>5, FundingAssumption
    <2> QED
      BY <1>1, <2>1, <2>7, <2>8 DEF Locks, TxShape
  <1>11. ASSUME NEW key \in Locks, ServerClaims(key)
         PROVE  TxShape /\ LockShape
    BY <1>2, <1>11 DEF ServerClaims, FundShape, Locks, LockShape
  <1>12. CASE \/ RecordSent \/ AwaitFunding \/ WaitFails \/ RecordRehash \/ AwaitRehash \/ RetrySponsored
              \/ PrepareFails \/ RehashOpSubmitted \/ RehashOpIncluded \/ AwaitRefund \/ Crash
              \/ UNCHANGED fundingVars
    <2>1. UNCHANGED <<tx, htlc>>
      BY <1>12 DEF RecordSent, AwaitFunding, WaitFails, RecordRehash, AwaitRehash, RetrySponsored,
                   PrepareFails, RehashOpSubmitted, RehashOpIncluded, AwaitRefund, Crash, fundingVars
    <2> QED
      BY <1>1, <1>2, <2>1
  <1> QED
    BY <1>4, <1>5, <1>6, <1>7, <1>8, <1>9, <1>10, <1>11, <1>12 DEF FundingNext, ClientStep, ChainStep

\* The transactions, the locks and the stored record of an EVM funding keep their types and
\* bounds.
LEMMA FundTypesHold == FundInv /\ FundShape => FundingTypeOK
  <1> SUFFICES ASSUME FundInv, FundShape PROVE FundingTypeOK
    OBVIOUS
  <1>1. /\ tx \in Seq(FundTx) /\ DOMAIN tx = 1..Len(tx) /\ Len(tx) \in Nat /\ Len(tx) <= MaxTx /\ MaxTx \in Nat
        /\ Locks \subseteq LockKey /\ \A key \in Locks : key.origin \in DOMAIN tx
        /\ htlc = [key \in Locks |-> htlc[key]]
    BY FundingAssumption DEF FundInv, FundTxsOK, FundLocksOK, FundShape
  <1>2. DOMAIN tx \subseteq TxIds
    BY <1>1 DEF TxIds
  <1>3. Locks \subseteq Keys
    <2> SUFFICES ASSUME NEW key \in Locks PROVE key \in Keys
      OBVIOUS
    <2>1. key \in LockKey /\ key.origin \in TxIds
      BY <1>1, <1>2
    <2> QED
      BY <2>1 DEF LockKey, Hashes, Keys
  <1> DEFINE T == [does : {"create", "wrapped", "cancel", "rehash", "refund"},
                   key : Keys \cup {NoKey}, to : {OwnHash} \cup Invoices,
                   state : {"unsent", "pending", "success", "reverted", "replaced"},
                   nonce : 1..MaxTx, userOp : BOOLEAN]
  <1>4. \A i \in DOMAIN tx : tx[i] \in T
    <2> SUFFICES ASSUME NEW i \in DOMAIN tx PROVE tx[i] \in T
      OBVIOUS
    <2>1. tx[i] \in FundTx
      BY <1>1
    <2>2. tx[i].key \in Keys \cup {NoKey}
      BY <1>3 DEF FundShape
    <2>3. tx[i].nonce \in 1..MaxTx
      BY <1>2 DEF FundInv, FundTxsOK, TxIds
    <2> QED
      BY <2>1, <2>2, <2>3 DEF FundTx, Hashes
  <1>5. tx \in Seq(T)
    <2> HIDE DEF T
    <2> QED
      BY <1>1, <1>4
  <1>6. Range(htlc) \subseteq {"Active", "Redeemed", "Refunded", "Rehashed"}
    BY DEF Range, FundShape, Locks
  <1>7. route \in Routes /\ logs \in BOOLEAN /\ onRecord \subseteq Sent
    BY <1>1 DEF FundShape, Sent
  <1> QED
    BY <1>1, <1>3, <1>5, <1>6, <1>7 DEF FundingTypeOK

\* Everything the fundings, their moves and their records keep.
FundingInv == FundInv /\ RehashInv /\ FundTxOK /\ FundShape

LEMMA FundingStarts == FundingInit => FundingInv
  <1> SUFFICES ASSUME FundingInit PROVE FundingInv
    OBVIOUS
  <1>1. tx = <<>> /\ htlc = <<>> /\ evm = [fundTx |-> 0, rehashes |-> <<>>]
        /\ call = [at |-> "idle", id |-> 0, to |-> OwnHash, key |-> NoKey, op |-> 0]
    BY DEF FundingInit, Idle
  <1>2. DOMAIN tx = {} /\ Locks = {} /\ evm.rehashes = <<>> /\ call.at = "idle" /\ evm.fundTx = 0
    BY <1>1 DEF Locks
  <1>3. LocksInv
    BY <1>2 DEF LocksInv, RehashTxsOK, MovesOK, ChainOK, CreatedOK
  <1>4. RecordsOK
    <2>1. <<>> \in Seq(Entry) /\ DOMAIN <<>> = {}
      OBVIOUS
    <2> QED
      BY <1>2, <2>1 DEF RecordsOK
  <1>5. RehashCallOK /\ RememberedOK /\ FundTxOK
    BY <1>2 DEF RehashCallOK, RememberedOK, FundTxOK, Preparing, Signing, ByWallet
  <1>6. FundInv
    BY FundInit
  <1>7. FundShape
    <2>1. route \in Routes /\ logs \in BOOLEAN /\ onRecord = {}
      BY DEF FundingInit
    <2>2. Len(tx) <= MaxTx
      BY <1>1, FundingAssumption
    <2> QED
      BY <1>2, <2>1, <2>2 DEF FundShape
  <1> QED
    BY <1>3, <1>4, <1>5, <1>6, <1>7 DEF RehashInv, FundingInv

LEMMA FundingGoesOn == FundingInv /\ [FundingNext]_fundingVars => FundingInv'
  <1> SUFFICES ASSUME FundingInv, [FundingNext]_fundingVars PROVE FundingInv'
    OBVIOUS
  <1>1. FundInv'
    BY FundStep DEF FundingInv
  <1>2. RehashInv'
    BY <1>1, RehashStep DEF FundingInv
  <1>3. TxsKeep /\ Locks \subseteq Locks'
    <2>1. LocksInv /\ (call.at = "prepare" => call.key \in Locks /\ call.to \in Invoices)
      BY DEF FundingInv, RehashInv, RehashCallOK, Preparing
    <2> QED
      BY <1>1, <2>1, LocksStep DEF LocksGo, FundingInv
  <1> QED
    BY <1>1, <1>2, <1>3, FundTxStep, FundShapeStep DEF FundingInv

\* A sponsored rehash that may land is always on record with its hash, and the refund of a
\* deposit whose funding and moves are on record is built for the lock that is open, however
\* many rehashes moved it, whatever of them was replaced, reverted, retried or recorded out of
\* turn (client.ts #retrySwapWithInvoice, #rehashedTerms, #buildEvmSourceRefund).
THEOREM RehashesFound == FundingSpec => [](RehashRemembered /\ RefundFindsLock)
  <1>1. FundingInv => RehashRemembered /\ RefundFindsLock
    BY RehashesRemembered, RefundIsFound DEF FundingInv
  <1> QED
    BY <1>1, FundingStarts, FundingGoesOn, PTL DEF FundingSpec

\* The transactions, the locks and the stored record of an EVM funding keep their types and
\* bounds: a transaction moves or refunds a lock there is, and what is on record was sent.
THEOREM FundingTypes == FundingSpec => []FundingTypeOK
  <1>1. FundingInv => FundingTypeOK
    BY FundTypesHold DEF FundingInv
  <1> QED
    BY <1>1, FundingStarts, FundingGoesOn, PTL DEF FundingSpec

-----------------------------------------------------------------------------
(* The batch that a funding payload has the depositor sign.                 *)

BatchCall ==
    [target : {"source", "lock"} \cup Routers, value : {0, 1},
     does : {"transfer", "approve", "burn", "swap"}, to : {"server"} \cup Routers,
     amount : Amounts]

\* A contract the pins name, or one the signed batch calls.
MayTake(r) == IF pins.allowed = {} THEN r \in Called ELSE r \in pins.allowed

SignedShape ==
    /\ DOMAIN signed.calls = 1..Len(signed.calls) /\ Len(signed.calls) \in Nat
    /\ \A i \in DOMAIN signed.calls : signed.calls[i] \in BatchCall
    /\ signed.amount \in Amounts /\ signed.lockToken \in {"source", "lock"}

\* What the check lets through, call by call.
SignedChecked ==
    /\ signed.amount <= pins.maxSourceAmount
    /\ agreed.named => signed.lockToken = LockToken
    /\ \A i \in DOMAIN signed.calls :
          /\ signed.calls[i].target # signed.lockToken \/ signed.calls[i].target = "source"
          /\ signed.calls[i].target = "source" /\ signed.calls[i].does = "transfer" =>
                i = 1 /\ signed.calls[i].to = "server" /\ signed.calls[i].amount <= pins.maxRelayFee
          /\ signed.calls[i].target = "source" /\ signed.calls[i].does = "approve"
                /\ signed.calls[i].to \in Routers => MayTake(signed.calls[i].to)

ExecShape ==
    /\ exec.at \in {"none", "calls", "locked", "reverted"}
    /\ exec = [at |-> exec.at, next |-> exec.next, held |-> exec.held, out |-> exec.out,
               fee |-> exec.fee, pulled |-> exec.pulled, allowance |-> exec.allowance]
    /\ exec.next \in Nat \ {0} /\ exec.held \in Nat /\ exec.out \in Nat /\ exec.fee \in Nat
    /\ exec.pulled \in [Routers -> Nat] /\ exec.allowance \in [Routers -> Amounts]

\* What left the depositor is all accounted for, and went where the check lets it go.
ExecBound ==
    exec.at \in {"calls", "locked"} =>
       /\ SignedChecked
       /\ Taken = signed.amount
       /\ exec.fee <= pins.maxRelayFee /\ (exec.at = "calls" /\ exec.next = 1 => exec.fee = 0)
       /\ \A r \in Routers : exec.pulled[r] > 0 \/ exec.allowance[r] > 0 => MayTake(r)
\* A funding that reverted took nothing.
ExecIdle ==
    exec.at \in {"none", "reverted"} => exec.held = 0 /\ \A r \in Routers : exec.pulled[r] = 0

PinsShape ==
    /\ agreed \in [pegged : BOOLEAN, named : BOOLEAN]
    /\ pins.maxSourceAmount \in Amounts /\ pins.maxRelayFee \in Amounts
    /\ pins.allowed \subseteq Routers

PinsInv == PinsShape /\ SignedShape /\ ExecShape /\ ExecBound /\ ExecIdle

\* What the invariant says is what the property asks.
LEMMA PinsBind ==
  ASSUME PinsInv
  PROVE  PinsTypeOK /\ FundingIsBound
  <1>a. MaxAmount \in Nat /\ Input \in 1..MaxAmount
    BY PinsAssumption
  <1>1. FundingIsBound
    <2> SUFFICES ASSUME exec.at \in {"calls", "locked"}
                 PROVE  /\ signed.amount <= pins.maxSourceAmount /\ Taken = signed.amount
                        /\ exec.fee <= pins.maxRelayFee
                        /\ agreed.named /\ agreed.pegged /\ exec.at = "locked" =>
                             signed.lockToken = "source"
                        /\ \A r \in Routers :
                            exec.pulled[r] > 0 \/ (exec.at = "locked" /\ exec.allowance[r] > 0)
                                => IF pins.allowed = {} THEN r \in Called ELSE r \in pins.allowed
      BY DEF FundingIsBound
    <2>1. /\ SignedChecked /\ Taken = signed.amount /\ exec.fee <= pins.maxRelayFee
          /\ \A r \in Routers : exec.pulled[r] > 0 \/ exec.allowance[r] > 0 => MayTake(r)
      BY DEF PinsInv, ExecBound
    <2>2. agreed.named /\ agreed.pegged => signed.lockToken = "source"
      BY <2>1 DEF SignedChecked, LockToken
    <2> QED
      BY <2>1, <2>2 DEF SignedChecked, MayTake
  <1>2. exec.held \in Amounts /\ \A r \in Routers : exec.pulled[r] \in Amounts
    <2>1. CASE exec.at \in {"calls", "locked"}
      <3>1. /\ exec.held \in Nat /\ exec.fee \in Nat /\ exec.out \in Nat /\ signed.amount \in Amounts
            /\ exec.pulled["router"] \in Nat /\ exec.pulled["other"] \in Nat
        BY DEF PinsInv, ExecShape, SignedShape, Routers
      <3>2. exec.held + exec.fee + exec.pulled["router"] + exec.pulled["other"]
              + (IF exec.at = "locked"
                /\ signed.lockToken = "source" THEN exec.out ELSE 0) = signed.amount
        BY <2>1 DEF PinsInv, ExecBound, Taken
      <3>3. /\ exec.held <= signed.amount /\ exec.pulled["router"] <= signed.amount
            /\ exec.pulled["other"] <= signed.amount
        BY <3>1, <3>2
      <3> QED
        BY <1>a, <3>1, <3>3 DEF Amounts, Routers
    <2>2. CASE exec.at \in {"none", "reverted"}
      BY <1>a, <2>2 DEF PinsInv, ExecIdle, Amounts
    <2> QED
      BY <2>1, <2>2 DEF PinsInv, ExecShape
  <1> QED
    BY <1>1, <1>2 DEF PinsInv, PinsShape, SignedShape, ExecShape, PinsTypeOK

\* What checkFundingPayload lets through has the shape of a batch and is as checked.
LEMMA CheckedIsSigned ==
  ASSUME PinsShape, NEW p \in Payloads, CheckFundingPayload(p), UNCHANGED <<agreed, pins>>,
         signed' = [calls |-> p.calls, amount |-> p.amount, lockToken |-> p.lockToken]
  PROVE  SignedShape' /\ SignedChecked'
  <1>a. MaxAmount \in Nat /\ Input \in 1..MaxAmount /\ MaxCalls \in Nat
    BY PinsAssumption
  <1>1. /\ p.differs = "none" /\ p.amount \in Amounts /\ p.lockToken \in {"source", "lock"}
        /\ p.calls \in Batches
    <2>1. p.differs = "none"
      BY DEF CheckFundingPayload
    <2>2. p \in [differs : {"none"}, amount : Amounts, quote : {1, Unset}, calls : Batches,
                 lockToken : {"source", "lock"}]
      BY <2>1 DEF Payloads, BoundWords
    <2> QED
      BY <2>1, <2>2
  <1>2. /\ DOMAIN p.calls = 1..Len(p.calls) /\ Len(p.calls) \in Nat
        /\ \A i \in DOMAIN p.calls : p.calls[i] \in BatchCall
    <2> DEFINE SomeCall ==
          {c \in TokenCalls : c.target = "source" /\ (c.does = "burn" => c.to = "server" /\ c.amount = 1)}
            \cup {c \in TokenCalls : c.target = "lock" /\ c.does = "transfer" /\ c.to = "other"
                                       /\ c.amount = 1}
            \cup RouterCalls
    <2>1. SomeCall \subseteq BatchCall
      <3>1. TokenCalls \subseteq BatchCall
        BY <1>a DEF TokenCalls, BatchCall, Amounts
      <3>2. RouterCalls \subseteq BatchCall
        BY <1>a DEF RouterCalls, BatchCall, Amounts
      <3> QED
        BY <3>1, <3>2
    <2>2. PICK m \in 0..MaxCalls : p.calls \in [1..m -> SomeCall]
      BY <1>1 DEF Batches, BoundedSeq, SeqOf
    <2> HIDE DEF SomeCall
    <2>3. Len(p.calls) = m /\ DOMAIN p.calls = 1..m /\ m \in Nat
      BY <1>a, <2>2
    <2> QED
      BY <2>1, <2>2, <2>3
  <1>3. SignedShape'
    BY <1>1, <1>2 DEF SignedShape
  <1>4. /\ p.amount <= pins.maxSourceAmount
        /\ agreed.named => p.lockToken = LockToken
    BY DEF CheckFundingPayload
  <1>5. ASSUME NEW i \in DOMAIN p.calls
        PROVE  /\ p.calls[i].target # p.lockToken \/ p.calls[i].target = "source"
               /\ p.calls[i].target = "source" /\ p.calls[i].does = "transfer" =>
                     i = 1 /\ p.calls[i].to = "server" /\ p.calls[i].amount <= pins.maxRelayFee
               /\ p.calls[i].target = "source" /\ p.calls[i].does = "approve"
                     /\ p.calls[i].to \in Routers => SpenderCalled(p, i)
    <2>1. IF p.calls[i].target # "source" THEN p.calls[i].target # p.lockToken
            /\ Allowed(p.calls[i].target)
          ELSE IF IsFee(p, i) THEN FeeAllowed(p, i) ELSE ApprovalAllowed(p, i)
      BY DEF CheckFundingPayload, CheckCalls
    <2> QED
      BY <2>1 DEF IsFee, FeeAllowed, ApprovalAllowed
  <1>6. ASSUME NEW i \in DOMAIN p.calls, SpenderCalled(p, i)
        PROVE  MayTake(p.calls[i].to)'
    <2>1. Called' = {p.calls[j].target : j \in DOMAIN p.calls}
      BY DEF Called
    <2>2. \A j \in (i + 1)..Len(p.calls) : j \in DOMAIN p.calls
      BY <1>2
    <2> QED
      BY <1>6, <2>1, <2>2 DEF MayTake, SpenderCalled
  <1>7. \A i \in DOMAIN p.calls : p.calls[i].to \in Routers /\ SpenderCalled(p, i) =>
          MayTake(p.calls[i].to)'
    BY <1>6
  <1> QED
    BY <1>3, <1>4, <1>5, <1>7 DEF SignedChecked, LockToken

\* Every step of the depositor, the server or the chain keeps the invariant.
LEMMA PinsStep == PinsInv /\ [PinsNext]_pinVars => PinsInv'
  <1> SUFFICES ASSUME PinsInv, [PinsNext]_pinVars PROVE PinsInv'
    OBVIOUS
  <1>a. MaxAmount \in Nat /\ Input \in 1..MaxAmount /\ MaxCalls \in Nat
    BY PinsAssumption
  <1>b. ASSUME UNCHANGED <<agreed, pins, signed>>
        PROVE  /\ PinsShape' /\ SignedShape' /\ (SignedChecked => SignedChecked')
               /\ \A r \in Routers : MayTake(r) => MayTake(r)'
    BY <1>b DEF PinsInv, PinsShape, SignedShape, SignedChecked, MayTake, Called, LockToken
  <1>c. PinsShape /\ SignedShape /\ ExecShape /\ ExecBound
    BY DEF PinsInv
  <1>d. /\ exec.held \in Nat /\ exec.out \in Nat /\ exec.fee \in Nat /\ exec.next \in Nat \ {0}
        /\ exec.pulled \in [Routers -> Nat] /\ exec.allowance \in [Routers -> Amounts]
        /\ exec.pulled["router"] \in Nat /\ exec.pulled["other"] \in Nat
    BY <1>c DEF ExecShape, Routers
  \* A reverted funding holds nothing.
  <1>e. ASSUME NEW at \in {"none", "reverted"}, exec' = [Halted EXCEPT !.at = at] 
        PROVE  ExecShape' /\ ExecBound' /\ ExecIdle'
    <2>1. exec' = [at |-> at, next |-> 1, held |-> 0, out |-> 0, fee |-> 0,
                   pulled |-> [r \in Routers |-> 0], allowance |-> [r \in Routers |-> 0]]
      BY <1>e DEF Halted, Executing, NotSigned
    <2> QED
      BY <1>a, <2>1 DEF ExecShape, ExecBound, ExecIdle, Amounts
  <1>1. CASE SignFunding
    <2>1. PICK p \in Payloads :
            /\ CheckFundingPayload(p)
            /\ signed' = [calls |-> p.calls, amount |-> p.amount, lockToken |-> p.lockToken]
            /\ exec' = Executing(p)
      BY <1>1 DEF SignFunding
    <2>2. UNCHANGED <<agreed, pins>>
      BY <1>1 DEF SignFunding
    <2>3. SignedShape' /\ SignedChecked'
      BY <1>c, <2>1, <2>2, CheckedIsSigned
    <2>4. p.amount \in Amounts /\ signed'.amount = p.amount
      BY <2>1, <2>3 DEF SignedShape
    <2>5. exec' = [at |-> "calls", next |-> 1, held |-> p.amount, out |-> 0, fee |-> 0,
                   pulled |-> [r \in Routers |-> 0], allowance |-> [r \in Routers |-> 0]]
      BY <2>1 DEF Executing
    <2>6. ExecShape'
      BY <1>a, <2>4, <2>5 DEF ExecShape, Amounts
    <2>7. ExecBound'
      BY <1>a, <1>c, <2>2, <2>3, <2>4, <2>5 DEF ExecBound, Amounts, Taken, Routers, PinsShape
    <2> QED
      BY <1>c, <2>2, <2>3, <2>5, <2>6, <2>7 DEF PinsInv, PinsShape, ExecIdle
  \* The call that runs is one of the batch, as checked.
  <1>f. ASSUME AtCall
        PROVE  /\ exec.at = "calls" /\ exec.next \in DOMAIN signed.calls /\ ThisCall \in BatchCall
               /\ SignedChecked /\ Taken = signed.amount
               /\ exec.held + exec.fee + exec.pulled["router"] + exec.pulled["other"] = signed.amount
    <2>1. exec.at = "calls" /\ exec.next \in DOMAIN signed.calls
      BY <1>c, <1>d, <1>f DEF AtCall, SignedShape
    <2>2. SignedChecked /\ Taken = signed.amount
      BY <1>c, <2>1 DEF ExecBound
    <2> QED
      BY <1>c, <1>d, <2>1, <2>2 DEF ThisCall, SignedShape, Taken
  \* A step that reverts, or leaves the coordinator where it is with the call done.
  <1>g. ASSUME Reverts PROVE PinsInv'
    BY <1>b, <1>e, <1>g DEF Reverts, PinsInv
  <1>2. CASE RunTransfer
    <2> DEFINE a == ThisCall.amount
    <2>1. CASE Reverts
      BY <1>g, <2>1
    <2>2. CASE ~Reverts
      <3>1. /\ AtCall /\ ThisCall.target = "source" /\ ThisCall.does = "transfer" /\ ~(a > exec.held)
            /\ UNCHANGED <<agreed, pins, signed>>
            /\ exec' = [[exec EXCEPT !.held = @ - a,
                              !.fee = @ + (IF ThisCall.to = "server" THEN a ELSE 0),
                              !.pulled = [r \in Routers |-> @[r] + (IF ThisCall.to = r THEN a ELSE 0)]]
                        EXCEPT !.next = @ + 1]
        BY <1>2, <2>2 DEF RunTransfer, Steps
      <3>2. exec.next = 1 /\ ThisCall.to = "server" /\ a <= pins.maxRelayFee /\ a \in Nat /\ exec.fee = 0
        <4>1. ThisCall = signed.calls[exec.next] /\ a \in Nat
          BY <1>a, <1>f, <3>1 DEF ThisCall, BatchCall, Amounts
        <4>2. exec.next = 1 /\ ThisCall.to = "server" /\ a <= pins.maxRelayFee
          BY <1>f, <3>1, <4>1 DEF SignedChecked
        <4> QED
          BY <1>c, <1>f, <3>1, <4>1, <4>2 DEF ExecBound
      <3>3. exec' = [at |-> "calls", next |-> 2, held |-> exec.held - a, out |-> exec.out, fee |-> a,
                     pulled |-> exec.pulled, allowance |-> exec.allowance]
        <4>1. \A r \in Routers : r # "server"
          BY DEF Routers
        <4>2. exec = [at |-> exec.at, next |-> exec.next, held |-> exec.held, out |-> exec.out,
                      fee |-> exec.fee, pulled |-> exec.pulled, allowance |-> exec.allowance]
          BY <1>c DEF ExecShape
        <4>3. exec.at = "calls" /\ exec.next = 1 /\ exec.fee = 0 /\ ThisCall.to = "server"
          BY <1>f, <3>1, <3>2
        <4>4. exec' = [at |-> "calls", next |-> 1 + 1, held |-> exec.held - a, out |-> exec.out,
                       fee |-> 0 + a,
                       pulled |-> [r \in Routers |-> exec.pulled[r] + (IF ThisCall.to = r THEN a ELSE 0)],
                       allowance |-> exec.allowance]
          BY <3>1, <4>2, <4>3
        <4>5. [r \in Routers |-> exec.pulled[r] + (IF ThisCall.to = r THEN a ELSE 0)] = exec.pulled
          <5>1. ASSUME NEW r \in Routers
                PROVE  exec.pulled[r] + (IF ThisCall.to = r THEN a ELSE 0) = exec.pulled[r]
            BY <1>d, <4>1, <4>3
          <5> QED
            BY <1>d, <5>1
        <4> QED
          BY <3>2, <4>4, <4>5
      <3>4. /\ exec'.at = "calls" /\ exec'.next = 2 /\ exec'.held = exec.held - a /\ exec'.out = exec.out
            /\ exec'.fee = a /\ exec'.allowance = exec.allowance
            /\ exec'.pulled = exec.pulled
        BY <3>3
      <3>5. ExecShape' /\ ExecIdle'
        <4>1. exec' = [at |-> exec'.at, next |-> exec'.next, held |-> exec'.held, out |-> exec'.out,
                       fee |-> exec'.fee, pulled |-> exec'.pulled, allowance |-> exec'.allowance]
          BY <3>3, <3>4
        <4>2. exec.held - a \in Nat
          BY <1>d, <3>1, <3>2
        <4> QED
          BY <1>d, <3>2, <3>4, <4>1, <4>2 DEF ExecShape, ExecIdle
      <3>6. Taken' = signed.amount
        BY <1>d, <1>f, <3>1, <3>2, <3>4 DEF Taken, Routers
      <3>7. ExecBound'
        BY <1>b, <1>c, <1>f, <3>1, <3>2, <3>4, <3>6 DEF ExecBound
      <3> QED
        BY <1>b, <3>1, <3>5, <3>7 DEF PinsInv
    <2> QED
      BY <2>1, <2>2
  <1>3. CASE RunApprove
    <2>1. AtCall /\ ThisCall.target = "source" /\ ThisCall.does = "approve"
          /\ UNCHANGED <<agreed, pins, signed>>
      BY <1>3 DEF RunApprove, Steps
    <2>2. ThisCall.to \in Routers => MayTake(ThisCall.to)
      BY <1>f, <2>1 DEF SignedChecked, ThisCall
    <2>3. ThisCall.amount \in Amounts
      BY <1>f, <2>1 DEF BatchCall
    <2>4. /\ exec' = [at |-> "calls", next |-> exec.next + 1, held |-> exec.held, out |-> exec.out,
                      fee |-> exec.fee, pulled |-> exec.pulled, allowance |-> exec'.allowance]
          /\ exec'.allowance \in [Routers -> Amounts]
          /\ \A r \in Routers : exec'.allowance[r] = exec.allowance[r] \/ r = ThisCall.to
      <3>1. CASE ThisCall.to \in Routers
        <4> DEFINE to == ThisCall.to
                   a == ThisCall.amount
        <4>1. exec' = [[exec EXCEPT !.allowance[to] = a] EXCEPT !.next = @ + 1]
          BY <1>3, <3>1 DEF RunApprove, Steps
        <4>2. [exec EXCEPT !.allowance[to] = a] = [exec EXCEPT !.allowance = [exec.allowance EXCEPT ![to] = a]]
          BY <1>c DEF ExecShape
        <4>3. [exec.allowance EXCEPT ![to] = a] \in [Routers -> Amounts]
          BY <1>d, <2>3
        <4> HIDE DEF to, a
        <4>4. exec' = [at |-> "calls", next |-> exec.next + 1, held |-> exec.held, out |-> exec.out,
                       fee |-> exec.fee, pulled |-> exec.pulled,
                         allowance |-> [exec.allowance EXCEPT ![to] = a]]
          BY <1>c, <1>f, <2>1, <4>1, <4>2 DEF ExecShape
        <4>5. exec'.allowance = [exec.allowance EXCEPT ![to] = a]
          BY <4>4
        <4> QED
          BY <1>d, <4>3, <4>4, <4>5 DEF to
      <3>2. CASE ThisCall.to \notin Routers
        <4>1. exec' = [exec EXCEPT !.next = @ + 1]
          BY <1>3, <3>2 DEF RunApprove, Steps
        <4> QED
          BY <1>c, <1>d, <1>f, <2>1, <4>1 DEF ExecShape
      <3> QED
        BY <3>1, <3>2
    <2>5. /\ exec'.at = "calls" /\ exec'.next = exec.next + 1 /\ exec'.held = exec.held
               /\ exec'.out = exec.out
          /\ exec'.fee = exec.fee /\ exec'.pulled = exec.pulled
      BY <2>4
    <2>6. ExecShape' /\ ExecIdle'
      BY <1>d, <2>4, <2>5 DEF ExecShape, ExecIdle
    <2>7. Taken' = signed.amount
      BY <1>d, <1>f, <2>1, <2>5 DEF Taken
    <2>8. ExecBound'
      BY <1>b, <1>c, <1>d, <1>f, <2>1, <2>2, <2>4, <2>5, <2>7 DEF ExecBound
    <2> QED
      BY <1>b, <2>1, <2>6, <2>8 DEF PinsInv
  <1>4. CASE RunSwap
    <2>1. PICK amount \in 0..MaxAmount, gets \in {0, 1} :
            /\ amount <= exec.allowance[ThisCall.target] /\ amount <= exec.held
            /\ Steps([exec EXCEPT !.held = @ - amount, !.out = @ + gets,
                                 !.pulled[ThisCall.target] = @ + amount,
                                 !.allowance[ThisCall.target] = @ - amount])
      BY <1>4 DEF RunSwap
    <2> DEFINE to == ThisCall.target
    <2>2. AtCall /\ to \in Routers /\ UNCHANGED <<agreed, pins, signed>>
      BY <1>4 DEF RunSwap, Steps
    <2>3. exec' = [[exec EXCEPT !.held = @ - amount, !.out = @ + gets,
                                 !.pulled[to] = @ + amount, !.allowance[to] = @ - amount]
                     EXCEPT !.next = @ + 1]
      BY <2>1 DEF Steps
    <2> HIDE DEF to
    <2>4. exec' = [at |-> "calls", next |-> exec.next + 1, held |-> exec.held - amount,
                   out |-> exec.out + gets, fee |-> exec.fee,
                   pulled |-> [exec.pulled EXCEPT ![to] = @ + amount],
                   allowance |-> [exec.allowance EXCEPT ![to] = @ - amount]]
      BY <1>c, <1>f, <2>2, <2>3 DEF ExecShape
    <2>5. /\ exec'.at = "calls" /\ exec'.next = exec.next + 1 /\ exec'.held = exec.held - amount
          /\ exec'.out = exec.out + gets /\ exec'.fee = exec.fee
          /\ exec'.pulled = [exec.pulled EXCEPT ![to] = @ + amount]
          /\ exec'.allowance = [exec.allowance EXCEPT ![to] = @ - amount]
      BY <2>4
    <2>6. amount \in Nat /\ gets \in Nat /\ amount <= exec.held /\ amount <= exec.allowance[to]
      BY <1>a, <2>1 DEF to
    <2>7. /\ exec'.pulled \in [Routers -> Nat] /\ exec'.allowance \in [Routers -> Amounts]
          /\ \A r \in Routers : exec'.pulled[r] > 0 \/ exec'.allowance[r] > 0 =>
                exec.pulled[r] > 0 \/ exec.allowance[r] > 0
      BY <1>a, <1>d, <2>2, <2>5, <2>6 DEF Amounts
    <2>8. exec'.pulled["router"] + exec'.pulled["other"] = exec.pulled["router"] + exec.pulled["other"] + amount
      BY <1>d, <2>2, <2>5, <2>6 DEF Routers
    <2>9. ExecShape' /\ ExecIdle'
      BY <1>d, <2>4, <2>5, <2>6, <2>7 DEF ExecShape, ExecIdle
    <2>10. Taken' = signed.amount
      <3>1. exec'.pulled["router"] \in Nat /\ exec'.pulled["other"] \in Nat
        BY <2>7 DEF Routers
      <3> QED
        BY <1>d, <1>f, <2>2, <2>5, <2>6, <2>8, <3>1 DEF Taken
    <2>11. ExecBound'
      BY <1>b, <1>c, <1>d, <1>f, <2>2, <2>5, <2>7, <2>10 DEF ExecBound
    <2> QED
      BY <1>b, <2>2, <2>9, <2>11 DEF PinsInv
  <1>5. CASE RunOther
    <2>1. CASE Reverts
      BY <1>g, <2>1
    <2>2. CASE Steps(exec)
      <3>1. AtCall /\ UNCHANGED <<agreed, pins, signed>> /\ exec' = [exec EXCEPT !.next = @ + 1]
        BY <1>5, <2>2 DEF RunOther, Steps
      <3>2. /\ exec' = [at |-> "calls", next |-> exec.next + 1, held |-> exec.held, out |-> exec.out,
                        fee |-> exec.fee, pulled |-> exec.pulled, allowance |-> exec.allowance]
        BY <1>c, <1>f, <3>1 DEF ExecShape
      <3>3. /\ exec'.at = "calls" /\ exec'.next = exec.next + 1 /\ exec'.held = exec.held
            /\ exec'.out = exec.out /\ exec'.fee = exec.fee /\ exec'.pulled = exec.pulled
            /\ exec'.allowance = exec.allowance
        BY <3>2
      <3>4. ExecShape' /\ ExecIdle'
        BY <1>d, <3>2, <3>3 DEF ExecShape, ExecIdle
      <3>5. Taken' = signed.amount
        BY <1>f, <3>1, <3>3 DEF Taken
      <3>6. ExecBound'
        BY <1>b, <1>c, <1>d, <1>f, <3>1, <3>3, <3>5 DEF ExecBound
      <3> QED
        BY <1>b, <3>1, <3>4, <3>6 DEF PinsInv
    <2> QED
      BY <1>5, <2>1, <2>2 DEF RunOther
  <1>6. CASE CreateLock
    <2>1. exec.at = "calls" /\ UNCHANGED <<agreed, pins, signed>>
      BY <1>6 DEF CreateLock
    <2>2. /\ SignedChecked /\ exec.fee <= pins.maxRelayFee
          /\ exec.held + exec.fee + exec.pulled["router"] + exec.pulled["other"] = signed.amount
          /\ \A r \in Routers : exec.pulled[r] > 0 \/ exec.allowance[r] > 0 => MayTake(r)
      BY <1>c, <1>d, <2>1 DEF ExecBound, Taken
    <2>3. CASE exec' = [Halted EXCEPT !.at = "reverted"]
      BY <1>b, <1>e, <2>1, <2>3 DEF PinsInv
    <2>4. CASE signed.lockToken = "source"
            /\ exec' = [exec EXCEPT !.at = "locked", !.out = exec.held, !.held = 0]
      <3>1. exec' = [at |-> "locked", next |-> exec.next, held |-> 0, out |-> exec.held,
                     fee |-> exec.fee, pulled |-> exec.pulled, allowance |-> exec.allowance]
        BY <1>c, <2>4 DEF ExecShape
      <3>2. /\ exec'.at = "locked" /\ exec'.next = exec.next /\ exec'.held = 0
            /\ exec'.out = exec.held /\ exec'.fee = exec.fee /\ exec'.pulled = exec.pulled
            /\ exec'.allowance = exec.allowance
        BY <3>1
      <3>3. ExecShape' /\ ExecIdle'
        BY <1>d, <3>1, <3>2 DEF ExecShape, ExecIdle
      <3>4. Taken' = signed.amount
        BY <1>d, <2>1, <2>2, <2>4, <3>2 DEF Taken
      <3>5. ExecBound'
        BY <1>b, <2>1, <2>2, <3>2, <3>4 DEF ExecBound
      <3> QED
        BY <1>b, <2>1, <3>3, <3>5 DEF PinsInv
    <2>5. CASE signed.lockToken # "source" /\ exec' = [exec EXCEPT !.at = "locked"]
      <3>1. exec' = [at |-> "locked", next |-> exec.next, held |-> exec.held, out |-> exec.out,
                     fee |-> exec.fee, pulled |-> exec.pulled, allowance |-> exec.allowance]
        BY <1>c, <2>5 DEF ExecShape
      <3>2. /\ exec'.at = "locked" /\ exec'.next = exec.next /\ exec'.held = exec.held
            /\ exec'.out = exec.out /\ exec'.fee = exec.fee /\ exec'.pulled = exec.pulled
            /\ exec'.allowance = exec.allowance
        BY <3>1
      <3>3. ExecShape' /\ ExecIdle'
        BY <1>d, <3>1, <3>2 DEF ExecShape, ExecIdle
      <3>4. Taken' = signed.amount
        BY <1>d, <2>1, <2>2, <2>5, <3>2 DEF Taken
      <3>5. ExecBound'
        BY <1>b, <2>1, <2>2, <3>2, <3>4 DEF ExecBound
      <3> QED
        BY <1>b, <2>1, <3>3, <3>5 DEF PinsInv
    <2> QED
      BY <1>6, <2>3, <2>4, <2>5 DEF CreateLock
  <1>7. CASE SignAgain
    <2>1. signed' = NotSigned /\ exec' = Halted /\ UNCHANGED <<agreed, pins>>
      BY <1>7 DEF SignAgain
    <2>2. exec' = [Halted EXCEPT !.at = "none"]
      BY <2>1 DEF Halted, Executing
    <2>3. SignedShape'
      BY <1>a, <2>1 DEF SignedShape, NotSigned, Amounts
    <2> QED
      BY <1>c, <1>e, <2>1, <2>2, <2>3 DEF PinsInv, PinsShape
  <1>8. CASE UNCHANGED pinVars
    <2>1. UNCHANGED <<agreed, pins, signed>> /\ exec' = exec
      BY <1>8 DEF pinVars
    <2>2. ExecShape' /\ ExecIdle'
      BY <1>c, <2>1 DEF PinsInv, ExecShape, ExecIdle
    <2>3. ExecBound'
      BY <1>b, <1>c, <2>1 DEF ExecBound, Taken
    <2> QED
      BY <1>b, <2>1, <2>2, <2>3 DEF PinsInv
  <1> QED
    BY <1>1, <1>2, <1>3, <1>4, <1>5, <1>6, <1>7, <1>8 DEF PinsNext

\* What checkFundingPayload lets the depositor sign takes no more than was agreed, and to
\* nobody else: the batch as the coordinator executes it, call by call, is within the
\* pins.  The invariant follows the source tokens through the batch: what is held,
\* pulled, swapped and paid always adds up to what was signed.
THEOREM PinsBound == PinsSpec => [](PinsTypeOK /\ FundingIsBound)
  <1>1. PinsInit => PinsInv
    <2> SUFFICES ASSUME PinsInit PROVE PinsInv
      OBVIOUS
    <2>a. MaxAmount \in Nat /\ Input \in 1..MaxAmount
      BY PinsAssumption
    <2>1. PinsShape
      BY <2>a DEF PinsInit, PinsShape, Amounts, Routers
    <2>2. SignedShape
      BY <2>a DEF PinsInit, SignedShape, NotSigned, Amounts
    <2>3. exec = [at |-> "none", next |-> 1, held |-> 0, out |-> 0, fee |-> 0,
                  pulled |-> [r \in Routers |-> 0], allowance |-> [r \in Routers |-> 0]]
      BY DEF PinsInit, Halted, Executing, NotSigned
    <2> QED
      BY <2>a, <2>1, <2>2, <2>3 DEF PinsInv, ExecShape, ExecBound, ExecIdle, Amounts
  <1> QED
    BY <1>1, PinsStep, PinsBind, PTL DEF PinsSpec
=================================================================================
