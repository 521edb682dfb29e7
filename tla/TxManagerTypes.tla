---------------------------- MODULE TxManagerTypes ----------------------------
(***************************************************************************)
(* Type correctness of the transaction manager, for any set of rows and    *)
(* replicas, any number of attempts, and with lock loss and failing        *)
(* receipt reads allowed.  A row is signed only with a nonce and sent only *)
(* with an envelope, so the type invariant is strengthened by both facts.  *)
(***************************************************************************)
EXTENDS TxManager, TLAPS

StoreType ==
  /\ rows \in [Txs -> Row]
  /\ attempts \in [Txs -> Seq(Envelope)]
  /\ lock \in Managers \cup {None}

NodeType ==
  /\ pool \subseteq Envelope /\ seen \subseteq Envelope /\ mined \subseteq Envelope
  /\ receipts \subseteq Envelope /\ refused \subseteq Envelope
  /\ chainNonce \in [Signers -> Nat]

ClockType == aged \in [Txs -> BOOLEAN] /\ elapsed \in [Txs -> BOOLEAN]

LocalType ==
  /\ pc \in [Managers -> Stages]
  /\ lane \in [Managers -> Lane]
  /\ snap \in [Managers -> [Txs -> Row]]
  /\ cur \in [Managers -> Txs \cup {None}]
  /\ tx \in [Managers -> Row]
  /\ policy \in [Managers -> Policy]
  /\ reply \in [Managers -> Replies \cup {None}]

\* What the local copy of a row holds at each stage of its step.
CopyType ==
  \A m \in Managers :
    /\ pc[m] \notin {"idle", "batch"} => cur[m] \in Txs
    /\ pc[m] = "sign" => tx[m].nonce \in Nat
    /\ pc[m] \in {"record", "send"} => tx[m].env \in Envelope

TypeInv == StoreType /\ NodeType /\ ClockType /\ LocalType /\ CopyType

-----------------------------------------------------------------------------
(* The values the actions are built from.                                  *)

\* The empty values have their types.
LEMMA EmptyValues ==
  AbsentRow \in Row /\ EmptyLane \in Lane /\ NoPolicy \in Policy /\ EmptyBatch \in [Txs -> Row]
<1>1. AbsentRow \in Row
  BY Zenon DEF AbsentRow, Row, ActiveStatuses, TerminalStatuses, Signers
<1>2. EmptyLane \in Lane /\ NoPolicy \in Policy
  BY Zenon DEF EmptyLane, Lane, NoPolicy, Policy
<1>3. EmptyBatch \in [Txs -> Row]
  BY <1>1, Zenon DEF EmptyBatch
<1> QED BY <1>1, <1>2, <1>3, Zenon

\* A row's attempts are envelopes, and the latest of them is one of them.
LEMMA AttemptsAreEnvelopes ==
  ASSUME StoreType, NEW t \in Txs
  PROVE  /\ Envelopes(t) \subseteq Envelope
         /\ attempts[t] # <<>> => Latest(t) \in Envelopes(t)
BY DEF StoreType, Envelopes, Latest

\* The fields of an envelope.
LEMMA EnvelopeFields ==
  ASSUME NEW e \in Envelope
  PROVE  e.signer \in Signers /\ e.nonce \in Nat /\ e.fee \in Nat
BY Zenon DEF Envelope

\* bumpGasPrice, and the price built on it, are amounts of wei.
LEMMA PriceIsNat ==
  ASSUME NEW a \in Nat, NEW b \in Nat, NEW k \in Nat
  PROVE  suggestGasPrice(a, b, k) \in Nat
<1> DEFINE x == maxFee(a, b)
           c == 15 * k
<1>1. x \in Nat /\ c \in Nat
  BY DEF maxFee
<1>2. x * (100 + c) \in Nat
  BY <1>1
<1>3. (x * (100 + c)) \div 100 \in Nat
  BY <1>2
<1>4. suggestGasPrice(a, b, k) \in {x + 1, (x * (100 + c)) \div 100}
  BY ZenonT(30) DEF suggestGasPrice, bumpGasPrice, priorityCoefficient
<1> QED BY <1>1, <1>3, <1>4

\* Row transitions map rows to rows.
LEMMA RowTransitions ==
  ASSUME NEW r \in Row, NEW t \in Txs
  PROVE  /\ scheduleNextCheck(t, r) \in Row
         /\ abandonTransaction(r) \in Row
         /\ \A e \in Envelope : finalizeTransaction(r, e) \in Row
         /\ \A e \in Envelope \cup {None} : [r EXCEPT !.rejected = e] \in Row
BY ZenonT(40)
     DEF Row, scheduleNextCheck, abandonTransaction, finalizeTransaction, ActiveStatuses, TerminalStatuses

\* So does a failed send, whatever the node answered.
LEMMA FailureIsRow ==
  ASSUME NEW r \in Row, NEW rep
  PROVE  AfterFailure(r, rep) \in Row
<1> DEFINE p == rep \in {"rejectedPermanent", "rejectedRetryable", "ambiguous"}
           c == r.consumed \/ rep = "nonceConsumed"
<1>1. p \in BOOLEAN /\ c \in BOOLEAN
  OBVIOUS
<1>2. AfterFailure(r, rep) = [r EXCEPT !.rejected = None, !.pending = p, !.consumed = c]
  BY Zenon DEF AfterFailure, Row
<1> HIDE DEF p, c
<1> QED BY <1>1, <1>2, Zenon DEF Row

\* InsertAttempt adds an envelope.
LEMMA InsertedAttempts ==
  ASSUME StoreType, NEW t \in Txs, NEW e \in Envelope
  PROVE  InsertAttempt(t, e) \in [Txs -> Seq(Envelope)]
BY DEF InsertAttempt, StoreType

\* UpdateIfActive and rescheduleTransaction keep the store typed.
LEMMA StoredRows ==
  ASSUME StoreType, NEW t \in Txs, NEW r \in Row
  PROVE  UpdateIfActive(t, r) \in [Txs -> Row] /\ rescheduled(t) \in Row
<1>1. rows[t] \in Row
  BY Zenon DEF StoreType
<1>2. rescheduled(t) \in Row
  BY <1>1, Zenon DEF rescheduled, Row, ActiveStatuses
<1> QED BY <1>2, Zenon DEF StoreType, UpdateIfActive

-----------------------------------------------------------------------------
(* The moves of a manager's volatile state.                                *)

LocalInv == LocalType /\ CopyType

\* Continue, Fail and LeaveLane drop the local copy.
LEMMA DroppingMoves ==
  ASSUME LocalInv, NEW m \in Managers, NEW t \in Txs, NEW l \in Lane,
         Continue(m, t, l) \/ Fail(m, t) \/ LeaveLane(m)
  PROVE  LocalInv'
<1>1. CASE Continue(m, t, l)
  <2>1. LocalType'
    BY <1>1, EmptyValues, Zenon DEF Continue, LocalInv, LocalType, Stages
  <2>2. CopyType'
    BY <1>1, Zenon DEF Continue, LocalInv, LocalType, CopyType
  <2> QED BY <2>1, <2>2, Zenon DEF LocalInv
<1>2. CASE Fail(m, t)
  <2>1. LocalType'
    BY <1>2, EmptyValues, Zenon DEF Fail, LocalInv, LocalType, Stages
  <2>2. CopyType'
    BY <1>2, Zenon DEF Fail, LocalInv, LocalType, CopyType
  <2> QED BY <2>1, <2>2, Zenon DEF LocalInv
<1>3. CASE LeaveLane(m)
  <2>1. LocalType'
    BY <1>3, EmptyValues, Zenon DEF LeaveLane, LocalInv, LocalType, Stages
  <2>2. CopyType'
    BY <1>3, Zenon DEF LeaveLane, LocalInv, LocalType, CopyType
  <2> QED BY <2>1, <2>2, Zenon DEF LocalInv
<1> QED BY <1>1, <1>2, <1>3, Zenon

\* WorkOn installs a copy that suits its stage.
LEMMA WorkOnMove ==
  ASSUME LocalInv, NEW m \in Managers, NEW t \in Txs, NEW r \in Row, NEW l \in Lane,
         NEW p \in Policy, NEW stage \in Stages, WorkOn(m, t, r, l, p, stage),
         stage = "sign" => r.nonce \in Nat,
         stage \in {"record", "send"} => r.env \in Envelope
  PROVE  LocalInv'
<1>1. LocalType'
  BY EmptyValues, Zenon DEF WorkOn, LocalInv, LocalType
<1>2. CopyType'
  BY Zenon DEF WorkOn, LocalInv, LocalType, CopyType
<1> QED BY <1>1, <1>2, Zenon DEF LocalInv

\* The copy of a row, once its attempts are loaded, is a row, and it takes its
\* envelope and nonce from the latest attempt.
LEMMA LoadedRow ==
  ASSUME StoreType, LocalType, NEW m \in Managers, NEW t \in Txs
  PROVE  /\ snap[m][t] \in Row
         /\ Repaired(m, t) \in Row
         /\ LaneAfterLoad(m, t) \in Lane
         /\ attempts[t] # <<>> => /\ Latest(t) \in Envelope
                                  /\ Repaired(m, t).env = Latest(t)
                                  /\ Repaired(m, t).nonce = Latest(t).nonce
<1>1. snap[m][t] \in Row /\ lane[m] \in Lane
  BY Zenon DEF LocalType
<1>2. attempts[t] # <<>> => Latest(t) \in Envelope
  BY AttemptsAreEnvelopes, Zenon
<1>3. attempts[t] # <<>> => Latest(t).signer \in Signers /\ Latest(t).nonce \in Nat
  BY <1>2, EnvelopeFields, Zenon
<1>4. Repaired(m, t) \in Row
  <2>1. CASE attempts[t] = <<>>
    BY <1>1, <2>1, Zenon DEF Repaired, Row, Signers
  <2>2. CASE attempts[t] # <<>>
    <3>1. Repaired(m, t) = [snap[m][t] EXCEPT !.sender = Latest(t).signer, !.nonce = Latest(t).nonce,
                 !.status = "confirming", !.env = Latest(t),
                 !.pending = snap[m][t].pending \/ snap[m][t].env # Latest(t)]
      BY <1>1, <2>2, Zenon DEF Repaired, Row
    <3> QED BY <1>1, <1>2, <1>3, <2>2, <3>1, Zenon DEF Row, ActiveStatuses
  <2> QED BY <2>1, <2>2, Zenon
<1>5. LaneAfterLoad(m, t) \in Lane
  BY <1>1, <1>3 DEF LaneAfterLoad, observe, Lane
<1>6. attempts[t] # <<>> => Repaired(m, t).env = Latest(t) /\ Repaired(m, t).nonce = Latest(t).nonce
  BY <1>1, Zenon DEF Repaired, Row
<1> QED BY <1>1, <1>2, <1>4, <1>5, <1>6, Zenon

-----------------------------------------------------------------------------
(* The writes that end a step.                                             *)

\* Both writes keep the store and the local state typed.
LEMMA EndingWrites ==
  ASSUME TypeInv, NEW m \in Managers, NEW t \in Txs, NEW r \in Row, NEW l \in Lane,
         SaveAndContinue(m, t, r, l) \/ SaveAndLeave(m, t, r, l)
  PROVE  StoreType' /\ LocalInv'
<1>1. LocalInv /\ StoreType
  BY Zenon DEF TypeInv, LocalInv
<1>2. rows' \in [Txs -> Row]
  BY <1>1, StoredRows, Zenon DEF SaveAndContinue, SaveAndLeave
<1>3. attempts' = attempts /\ lock' \in Managers \cup {None}
  BY <1>1, Zenon DEF SaveAndContinue, SaveAndLeave, LeaveLane, Unlock, StoreType
<1>4. Continue(m, t, l) \/ Fail(m, t) \/ LeaveLane(m)
  BY Zenon DEF SaveAndContinue, SaveAndLeave
<1>5. LocalInv'
  BY <1>1, <1>4, DroppingMoves, Zenon
<1> QED BY <1>1, <1>2, <1>3, <1>5, Zenon DEF StoreType

\* What remains of TypeInv once a step has ended without touching the node.
LEMMA EndedStep ==
  ASSUME TypeInv, StoreType', LocalInv', ClockType', UNCHANGED nodeVars
  PROVE  TypeInv'
BY Zenon DEF TypeInv, LocalInv, NodeType, nodeVars

\* reconcileRejectedSubmission keeps everything typed.
LEMMA ReconciliationTypes ==
  ASSUME TypeInv, NEW m \in Managers, NEW t \in Txs, NEW r \in Row, NEW l \in Lane, NEW tip,
         \/ RetryReconciliation(m, t, r, l)
         \/ reconcileRejectedSubmission(m, t, r, l, tip)
  PROVE  StoreType' /\ LocalInv' /\ elapsed' \in [Txs -> BOOLEAN]
<1>1. StoreType /\ elapsed \in [Txs -> BOOLEAN]
  BY Zenon DEF TypeInv, ClockType
<1>2. CASE RetryReconciliation(m, t, r, l)
  BY <1>1, <1>2, RowTransitions, EndingWrites, Zenon DEF RetryReconciliation
<1>3. CASE RejectedIsKnown(m, t, r, l)
  <2>1. PICK e \in Envelopes(t) \cap seen :
          SaveAndContinue(m, t, scheduleNextCheck(t, [r EXCEPT !.env = e, !.pending = FALSE, !.rejected = None]), l)
    BY <1>3, Zenon DEF RejectedIsKnown
  <2>2. e \in Envelope
    BY <1>1, AttemptsAreEnvelopes, Zenon
  <2>3. [r EXCEPT !.env = e, !.pending = FALSE, !.rejected = None] \in Row
    BY <2>2, Zenon DEF Row
  <2>4. StoreType' /\ LocalInv'
    BY <2>1, <2>3, RowTransitions, EndingWrites, Zenon
  <2> QED BY <1>1, <1>3, <2>4, Zenon DEF RejectedIsKnown
<1>4. CASE ReleaseRejected(m, t, r, l, tip)
  <2>1. [r EXCEPT !.nonce = None, !.pending = FALSE] \in Row
    BY Zenon DEF Row
  <2>2. StoreType' /\ LocalInv'
    BY <1>4, <2>1, RowTransitions, EndingWrites, Zenon DEF ReleaseRejected
  <2> QED BY <1>1, <1>4, <2>2, Zenon DEF ReleaseRejected
<1>5. CASE RejectedIsConsumed(m, t, r, l)
  <2>1. [r EXCEPT !.consumed = TRUE, !.pending = FALSE, !.rejected = None] \in Row
    BY Zenon DEF Row
  <2>2. StoreType' /\ LocalInv'
    BY <1>5, <2>1, RowTransitions, EndingWrites, Zenon DEF RejectedIsConsumed
  <2>3. elapsed' = [elapsed EXCEPT ![t] = FALSE]
    BY <1>5, Zenon DEF RejectedIsConsumed
  <2> QED BY <1>1, <2>2, <2>3, Zenon
<1> QED BY <1>2, <1>3, <1>4, <1>5, Zenon DEF reconcileRejectedSubmission

-----------------------------------------------------------------------------
(* The actions.                                                            *)

\* processTransactionStep up to where it signs or sends.
LEMMA ProcessRowTypes ==
  ASSUME TypeInv, NEW m \in Managers, NEW t \in Txs, ProcessRow(m, t)
  PROVE  TypeInv'
<1> DEFINE r == Repaired(m, t)
           l == LaneAfterLoad(m, t)
<1>1. StoreType /\ LocalInv /\ LocalType /\ ClockType
  BY Zenon DEF TypeInv, LocalInv
<1>2. /\ snap[m][t] \in Row /\ r \in Row /\ l \in Lane /\ lane[m] \in Lane
      /\ attempts[t] # <<>> => r.env \in Envelope /\ r.nonce \in Nat
  BY <1>1, LoadedRow, EnvelopeFields, Zenon DEF LocalType
<1>3. CASE RecoverLegacy(m, t)
  <2>1. snap[m][t].env \in Envelope
    BY <1>2, <1>3, Zenon DEF RecoverLegacy, Row
  <2>2. attempts' \in [Txs -> Seq(Envelope)]
    BY <1>1, <1>3, <2>1, InsertedAttempts, Zenon DEF RecoverLegacy
  <2>3. StoreType' /\ ClockType' /\ UNCHANGED nodeVars
    BY <1>1, <1>3, <2>2, Zenon DEF RecoverLegacy, StoreType, ClockType, clockVars
  <2>4. [snap[m][t] EXCEPT !.pending = TRUE] \in Row
    BY <1>2, Zenon DEF Row
  <2>5. snap' = [snap EXCEPT ![m] = [snap[m] EXCEPT ![t] = [snap[m][t] EXCEPT !.pending = TRUE]]]
    BY <1>3, Zenon DEF RecoverLegacy
  <2>6. snap' \in [Managers -> [Txs -> Row]]
    BY <1>1, <2>4, <2>5, Zenon DEF LocalType
  <2>7. LocalType'
    BY <1>1, <1>3, <2>6, Zenon DEF RecoverLegacy, LocalType
  <2>8. CopyType'
    BY <1>1, <1>3, Zenon DEF RecoverLegacy, NextInBatch, CopyType, LocalInv, LocalType
  <2> QED BY <2>3, <2>7, <2>8, EndedStep, Zenon DEF LocalInv
<1>4. CASE FinalizeReceipt(m, t)
  <2>1. PICK e \in Envelopes(t) : SaveAndContinue(m, t, finalizeTransaction(r, e), l)
    BY <1>4, Zenon DEF FinalizeReceipt
  <2>2. e \in Envelope
    BY <1>1, AttemptsAreEnvelopes, Zenon
  <2>3. finalizeTransaction(r, e) \in Row
    BY <1>2, <2>2, RowTransitions, Zenon
  <2>4. StoreType' /\ LocalInv'
    BY <1>2, <2>1, <2>3, EndingWrites, Zenon
  <2> QED BY <1>1, <1>4, <2>4, EndedStep, Zenon DEF FinalizeReceipt, clockVars, ClockType
<1>5. CASE ParkUnprocessable(m, t)
  <2>1. rows' \in [Txs -> Row]
    BY <1>1, <1>2, <1>5, StoredRows, Zenon DEF ParkUnprocessable, StoreType
  <2>2. LocalInv'
    BY <1>1, <1>2, <1>5, DroppingMoves, Zenon DEF ParkUnprocessable
  <2> QED BY <1>1, <1>5, <2>1, <2>2, EndedStep, Zenon DEF ParkUnprocessable, StoreType, clockVars, ClockType
<1>6. CASE ResumeReconciliation(m, t)
  <2>1. \/ RetryReconciliation(m, t, r, l)
        \/ reconcileRejectedSubmission(m, t, r, l, isTip(l, r.nonce))
    BY <1>6, Zenon DEF ResumeReconciliation
  <2>2. StoreType' /\ LocalInv' /\ elapsed' \in [Txs -> BOOLEAN]
    BY <1>2, <2>1, ReconciliationTypes, Zenon
  <2> QED BY <1>1, <1>6, <2>2, EndedStep, Zenon DEF ResumeReconciliation, ClockType
<1>7. CASE pollConsumedNonce(m, t)
  <2>1. \E s \in {abandonTransaction(r), scheduleNextCheck(t, r)} : SaveAndContinue(m, t, s, l)
    BY <1>7, Zenon DEF pollConsumedNonce
  <2>2. StoreType' /\ LocalInv'
    BY <1>2, <2>1, RowTransitions, EndingWrites, Zenon
  <2> QED BY <1>1, <1>7, <2>2, EndedStep, Zenon DEF pollConsumedNonce, clockVars, ClockType
<1>8. CASE Defer(m, t)
  <2>1. StoreType' /\ LocalInv'
    BY <1>2, <1>8, RowTransitions, EndingWrites, Zenon DEF Defer
  <2> QED BY <1>1, <1>8, <2>1, EndedStep, Zenon DEF Defer, clockVars, ClockType
<1>9. CASE ExpireUnsigned(m, t)
  <2>1. [r EXCEPT !.nonce = None] \in Row
    BY <1>2, Zenon DEF Row
  <2>2. StoreType' /\ LocalInv'
    BY <1>2, <1>9, <2>1, RowTransitions, EndingWrites, Zenon DEF ExpireUnsigned
  <2> QED BY <1>1, <1>9, <2>2, EndedStep, Zenon DEF ExpireUnsigned, clockVars, ClockType
<1>10. CASE ResumeBroadcast(m, t)
  <2>1. [NoPolicy EXCEPT !.nonceReleasable = isTip(l, r.nonce)] \in Policy
    BY Zenon DEF NoPolicy, Policy, isTip
  <2>2. r.env \in Envelope
    BY <1>2, <1>10, Zenon DEF ResumeBroadcast, resumeBroadcast
  <2>3. LocalInv'
    BY <1>1, <1>2, <1>10, <2>1, <2>2, WorkOnMove, Zenon DEF ResumeBroadcast, Stages
  <2> QED BY <1>1, <1>10, <2>3, EndedStep, Zenon
       DEF ResumeBroadcast, storeVars, StoreType, clockVars, ClockType
<1>11. CASE AssignNonce(m, t)
  <2> DEFINE s(n) == [r EXCEPT !.nonce = n, !.status = "processing"]
             k(n) == observe(lane[m], n)
  <2>1. PICK n \in 0..MaxNonce :
          /\ rows' = UpdateIfActive(t, s(n))
          /\ \/ WorkOn(m, t, s(n), k(n), FirstAttempt(k(n), n), "sign")
             \/ Continue(m, t, lane[m])
             \/ Fail(m, t)
    BY <1>11, Zenon DEF AssignNonce
  <2>2. n \in Nat
    BY TxManagerAssumptions
  <2>3. s(n) \in Row /\ s(n).nonce = n
    BY <1>2, <2>2, Zenon DEF Row, ActiveStatuses
  <2>4. k(n) \in Lane /\ FirstAttempt(k(n), n) \in Policy
    BY <1>2, <2>2 DEF observe, Lane, FirstAttempt, Policy, isTip
  <2> HIDE DEF s, k
  <2>5. rows' \in [Txs -> Row]
    BY <1>1, <2>1, <2>3, StoredRows, Zenon
  <2>6. LocalInv'
    BY <1>1, <1>2, <2>1, <2>2, <2>3, <2>4, WorkOnMove, DroppingMoves, Zenon DEF Stages
  <2> QED BY <1>1, <1>11, <2>5, <2>6, EndedStep, Zenon DEF AssignNonce, StoreType, clockVars, ClockType
<1>12. CASE AwaitNodeNonce(m, t)
  <2>1. LocalInv'
    BY <1>1, <1>2, <1>12, DroppingMoves, Zenon DEF AwaitNodeNonce
  <2>2. StoreType'
    BY <1>1, <1>12, Zenon DEF AwaitNodeNonce, LeaveLane, Unlock, StoreType
  <2> QED BY <1>1, <1>12, <2>1, <2>2, EndedStep, Zenon DEF AwaitNodeNonce, clockVars, ClockType
<1>13. CASE BeginAttempt(m, t)
  <2>1. r.nonce \in Nat
    BY <1>2, <1>13, Zenon DEF BeginAttempt, Row
  <2>2. /\ FirstAttempt(l, r.nonce) \in Policy /\ NoPolicy \in Policy
        /\ [NoPolicy EXCEPT !.nonceReleasable = isTip(l, r.nonce)] \in Policy
    BY Zenon DEF FirstAttempt, NoPolicy, Policy, isTip
  <2>3. \E p \in Policy : \/ WorkOn(m, t, r, l, p, "sign")
                          \/ attempts[t] # <<>> /\ WorkOn(m, t, r, l, p, "send")
    BY <1>13, <2>2, Zenon DEF BeginAttempt
  <2>4. LocalInv'
    BY <1>1, <1>2, <2>1, <2>3, WorkOnMove, Zenon DEF Stages
  <2> QED BY <1>1, <1>13, <2>4, EndedStep, Zenon DEF BeginAttempt, storeVars, StoreType, clockVars, ClockType
<1> QED BY <1>3, <1>4, <1>5, <1>6, <1>7, <1>8, <1>9, <1>10, <1>11, <1>12, <1>13, Zenon DEF ProcessRow

\* signAttempt and persistUniqueAttempt produce envelopes.
LEMMA SignedIsEnvelope ==
  ASSUME StoreType, NEW t \in Txs, NEW n \in Nat
  PROVE  uniqueAttempts(t, n) \subseteq Envelope
<1>1. ASSUME NEW p \in Nat, NEW f \in Nat PROVE Signed(t, n, p, f) \in Envelope
  <2> DEFINE prev == IF attempts[t] = <<>> THEN 0 ELSE Latest(t).fee
  <2>1. prev \in Nat
    BY AttemptsAreEnvelopes, EnvelopeFields, Zenon
  <2>2. maxFee(prev, f) \in Nat
    BY <1>1, <2>1, Zenon DEF maxFee
  <2>3. Len(attempts[t]) + 1 \in Nat
    BY DEF StoreType
  <2>4. suggestGasPrice(p, maxFee(prev, f), Len(attempts[t]) + 1) \in Nat
    BY <1>1, <2>2, <2>3, PriceIsNat, Zenon
  <2>5. Payload[t] \in Payloads
    BY Zenon DEF Payloads
  <2> QED BY <2>4, <2>5, Zenon DEF Signed, Envelope, Signers
<1>2. highestAttemptFee(n) \subseteq Nat
  BY AttemptsAreEnvelopes, EnvelopeFields, Zenon DEF highestAttemptFee, FeesAtNonce
<1> QED BY <1>1, <1>2, TxManagerAssumptions DEF uniqueAttempts

\* createAndBroadcastAttempt.
LEMMA AttemptTypes ==
  ASSUME TypeInv, NEW m \in Managers, SignAttempt(m) \/ RecordAttempt(m)
  PROVE  TypeInv'
<1>1. StoreType /\ LocalInv /\ LocalType /\ ClockType
  BY Zenon DEF TypeInv, LocalInv
<1>2. cur[m] \in Txs /\ tx[m] \in Row /\ lane[m] \in Lane /\ policy[m] \in Policy
  BY <1>1, Zenon DEF SignAttempt, RecordAttempt, LocalInv, CopyType, LocalType
<1>3. CASE SignAttempt(m)
  <2>1. tx[m].nonce \in Nat
    BY <1>1, <1>3, Zenon DEF SignAttempt, LocalInv, CopyType
  <2> DEFINE t == cur[m]
             r(e) == [tx[m] EXCEPT !.env = e, !.status = "confirming", !.pending = TRUE, !.rejected = None]
  <2>2. PICK e \in uniqueAttempts(t, tx[m].nonce) :
          \/ Fail(m, t) /\ UNCHANGED <<attempts, aged>>
          \/ /\ attempts' = InsertAttempt(t, e)
             /\ aged' = [aged EXCEPT ![t] = FALSE]
             /\ WorkOn(m, t, r(e), lane[m], policy[m], "record") \/ Fail(m, t)
    BY <1>3, Zenon DEF SignAttempt
  <2>3. e \in Envelope
    BY <1>1, <1>2, <2>1, SignedIsEnvelope, Zenon
  <2>4. r(e) \in Row /\ r(e).env = e
    BY <1>2, <2>3, Zenon DEF Row, ActiveStatuses
  <2>5. attempts' \in [Txs -> Seq(Envelope)]
    BY <1>1, <1>2, <2>2, <2>3, InsertedAttempts DEF StoreType
  <2>6. ClockType'
    BY <1>1, <1>3, <2>2, Zenon DEF SignAttempt, ClockType
  <2> HIDE DEF r
  <2>7. LocalInv'
    BY <1>1, <1>2, <2>2, <2>3, <2>4, WorkOnMove, DroppingMoves, Zenon DEF Stages
  <2> QED BY <1>1, <1>3, <2>5, <2>6, <2>7, EndedStep, Zenon DEF SignAttempt, StoreType
<1>4. CASE RecordAttempt(m)
  <2>1. rows' \in [Txs -> Row]
    BY <1>1, <1>2, <1>4, StoredRows, Zenon DEF RecordAttempt
  <2>2. CASE GoTo(m, "send")
    <3>1. LocalType'
      BY <1>1, <2>2, Zenon DEF GoTo, LocalType, Stages
    <3>2. CopyType'
      BY <1>1, <1>4, <2>2, Zenon DEF RecordAttempt, GoTo, CopyType, LocalInv, LocalType
    <3> QED BY <1>1, <1>4, <2>1, <3>1, <3>2, EndedStep, Zenon
         DEF RecordAttempt, StoreType, LocalInv, clockVars, ClockType
  <2>3. CASE Continue(m, cur[m], lane[m]) \/ Fail(m, cur[m])
    <3>1. LocalInv'
      BY <1>1, <1>2, <2>3, DroppingMoves, Zenon
    <3> QED BY <1>1, <1>4, <2>1, <3>1, EndedStep, Zenon DEF RecordAttempt, StoreType, clockVars, ClockType
  <2> QED BY <1>4, <2>2, <2>3, Zenon DEF RecordAttempt
<1> QED BY <1>3, <1>4, Zenon

\* broadcastAndSchedule and handleBroadcastFailure.
LEMMA BroadcastTypes ==
  ASSUME TypeInv, NEW m \in Managers,
         Broadcast(m) \/ Accepted(m) \/ Unconfirmed(m) \/ RecordRejection(m) \/ ReconcileRejection(m)
  PROVE  TypeInv'
<1>1. StoreType /\ NodeType /\ LocalInv /\ LocalType /\ CopyType /\ ClockType
  BY Zenon DEF TypeInv, LocalInv
<1>2. cur[m] \in Txs /\ tx[m] \in Row /\ lane[m] \in Lane /\ policy[m] \in Policy
  BY <1>1, Zenon
       DEF Broadcast, Accepted, Unconfirmed, RecordRejection, ReconcileRejection, CopyType, LocalType
<1> DEFINE t == cur[m]
           a == AfterFailure(tx[m], reply[m])
<1>3. a \in Row
  BY <1>2, FailureIsRow, Zenon
<1>4. CASE Broadcast(m)
  <2>1. PICK rep \in Replies : SendTransaction(tx[m].env, rep) /\ reply' = [reply EXCEPT ![m] = rep]
    BY <1>4, Zenon DEF Broadcast
  <2>2. tx[m].env \in Envelope
    BY <1>1, <1>4, Zenon DEF Broadcast, CopyType
  <2>3. NodeType'
    BY <1>1, <2>1, <2>2, Zenon DEF SendTransaction, NodeType
  <2>4. LocalType'
    BY <1>1, <1>4, <2>1, Zenon DEF Broadcast, LocalType, Stages
  <2>5. CopyType'
    BY <1>1, <1>4, Zenon DEF Broadcast, CopyType, LocalType
  <2> QED BY <1>1, <1>4, <2>3, <2>4, <2>5, Zenon
       DEF Broadcast, TypeInv, StoreType, storeVars, ClockType, clockVars
<1>5. CASE Accepted(m)
  <2>1. [tx[m] EXCEPT !.pending = FALSE, !.rejected = None] \in Row
    BY <1>2, Zenon DEF Row
  <2>2. StoreType' /\ LocalInv'
    BY <1>2, <1>5, <2>1, RowTransitions, EndingWrites, Zenon DEF Accepted
  <2> QED BY <1>1, <1>5, <2>2, EndedStep, Zenon DEF Accepted, clockVars, ClockType
<1>6. CASE Unconfirmed(m)
  <2>1. \/ \E e \in Envelopes(t) : SaveAndContinue(m, t, finalizeTransaction(a, e), lane[m])
        \/ SaveAndContinue(m, t, scheduleNextCheck(t, a), lane[m])
    BY <1>6, Zenon DEF Unconfirmed
  <2>2. StoreType' /\ LocalInv'
    <3> HIDE DEF a
    <3> QED BY <1>1, <1>2, <1>3, <2>1, AttemptsAreEnvelopes, RowTransitions, EndingWrites, Zenon
  <2>3. ClockType'
    BY <1>1, <1>2, <1>6, Zenon DEF Unconfirmed, ClockType
  <2> QED BY <1>6, <2>2, <2>3, EndedStep, Zenon DEF Unconfirmed
<1>7. CASE RecordRejection(m)
  <2> DEFINE r == scheduleNextCheck(t, [a EXCEPT !.pending = FALSE, !.rejected = tx[m].env])
  <2>1. [a EXCEPT !.pending = FALSE, !.rejected = tx[m].env] \in Row
    <3> HIDE DEF a
    <3> QED BY <1>2, <1>3, ZenonT(30) DEF Row
  <2>2. r \in Row
    BY <1>2, <2>1, RowTransitions, Zenon
  <2>3. /\ rows' = UpdateIfActive(t, r)
        /\ \/ WorkOn(m, t, r, lane[m], policy[m], "reconcile")
           \/ Continue(m, t, lane[m])
           \/ Fail(m, t)
    BY <1>7, Zenon DEF RecordRejection
  <2> HIDE DEF r
  <2>4. rows' \in [Txs -> Row]
    BY <1>1, <1>2, <2>2, <2>3, StoredRows, Zenon
  <2>5. LocalInv'
    BY <1>1, <1>2, <2>2, <2>3, WorkOnMove, DroppingMoves, Zenon DEF Stages
  <2> QED BY <1>1, <1>7, <2>4, <2>5, EndedStep, Zenon DEF RecordRejection, StoreType, clockVars, ClockType
<1>8. CASE ReconcileRejection(m)
  <2>1. \/ \E e \in Envelopes(t) : SaveAndContinue(m, t, finalizeTransaction(tx[m], e), lane[m]) /\ UNCHANGED elapsed
        \/ RetryReconciliation(m, t, tx[m], lane[m])
        \/ reconcileRejectedSubmission(m, t, tx[m], lane[m], policy[m].nonceReleasable)
    BY <1>8, Zenon DEF ReconcileRejection
  <2>2. CASE \E e \in Envelopes(t) : SaveAndContinue(m, t, finalizeTransaction(tx[m], e), lane[m]) /\ UNCHANGED elapsed
    <3>1. StoreType' /\ LocalInv'
      BY <1>1, <1>2, <2>2, AttemptsAreEnvelopes, RowTransitions, EndingWrites, Zenon
    <3> QED BY <1>1, <1>8, <2>2, <3>1, EndedStep, Zenon DEF ReconcileRejection, ClockType
  <2>3. CASE ~ \E e \in Envelopes(t) : SaveAndContinue(m, t, finalizeTransaction(tx[m], e), lane[m]) /\ UNCHANGED elapsed
    <3>1. StoreType' /\ LocalInv' /\ elapsed' \in [Txs -> BOOLEAN]
      BY <1>2, <2>1, <2>3, ReconciliationTypes, Zenon
    <3> QED BY <1>1, <1>8, <3>1, EndedStep, Zenon DEF ReconcileRejection, ClockType
  <2> QED BY <2>2, <2>3, Zenon
<1> QED BY <1>4, <1>5, <1>6, <1>7, <1>8, Zenon

\* Taking and leaving the lane, errors, crashes and the loss of the lock.
LEMMA LaneTypes ==
  ASSUME TypeInv, NEW m \in Managers,
         \/ LockLane(m) \/ UnlockLane(m) \/ StepError(m)
         \/ Reschedule(m) \/ Crash(m) \/ LoseLock(m)
  PROVE  TypeInv'
<1>1. StoreType /\ LocalInv /\ LocalType /\ CopyType /\ ClockType
  BY Zenon DEF TypeInv, LocalInv
<1>2. CASE LockLane(m)
  <2>1. PICK due \in SUBSET LaneWork :
          snap' = [snap EXCEPT ![m] = [t \in Txs |-> IF t \in due THEN rows[t] ELSE AbsentRow]]
    BY <1>2, Zenon DEF LockLane
  <2>2. snap' \in [Managers -> [Txs -> Row]]
    BY <1>1, <2>1, EmptyValues, Zenon DEF LocalType, StoreType
  <2>3. \A n \in AssignedNonces : n \in Nat
    BY <1>1, Zenon DEF AssignedNonces, StoreType, Row
  <2>4. lane' \in [Managers -> Lane]
    <3>1. \/ lane' = [lane EXCEPT ![m] = EmptyLane]
          \/ \E n \in AssignedNonces : lane' = [lane EXCEPT ![m] = [known |-> TRUE, next |-> n + 1]]
      BY <1>2, Zenon DEF LockLane
    <3>2. \A n \in AssignedNonces : [known |-> TRUE, next |-> n + 1] \in Lane
      BY <2>3 DEF Lane
    <3> QED BY <1>1, <3>1, <3>2, EmptyValues, Zenon DEF LocalType
  <2>5. LocalType'
    BY <1>1, <1>2, <2>2, <2>4, Zenon DEF LockLane, LocalType, Stages
  <2>6. CopyType'
    BY <1>1, <1>2, Zenon DEF LockLane, CopyType, LocalType
  <2>7. StoreType'
    BY <1>1, <1>2, Zenon DEF LockLane, TryLockLane, StoreType
  <2> QED BY <1>1, <1>2, <2>5, <2>6, <2>7, EndedStep, Zenon DEF LockLane, LocalInv, ClockType, clockVars
<1>3. CASE StepError(m)
  <2>1. PICK t \in Txs : Fail(m, t)
    BY <1>1, <1>3, Zenon DEF StepError, CopyType
  <2>2. LocalInv'
    BY <1>1, <2>1, EmptyValues, DroppingMoves, Zenon
  <2> QED BY <1>1, <1>3, <2>2, EndedStep, Zenon DEF StepError, StoreType, storeVars, ClockType, clockVars
<1>4. CASE UnlockLane(m) \/ Crash(m) \/ Reschedule(m)
  <2>1. LeaveLane(m) /\ attempts' = attempts /\ UNCHANGED <<nodeVars, clockVars>>
    BY <1>4, Zenon DEF UnlockLane, Crash, Reschedule
  <2>2. LocalInv'
    <3>1. LocalType'
      BY <1>1, <2>1, EmptyValues, Zenon DEF LeaveLane, LocalType, Stages
    <3>2. CopyType'
      BY <1>1, <2>1, Zenon DEF LeaveLane, LocalType, CopyType
    <3> QED BY <3>1, <3>2, Zenon DEF LocalInv
  <2>3. rows' \in [Txs -> Row]
    <3>1. CASE Reschedule(m)
      <4>1. cur[m] \in Txs
        BY <1>1, <3>1, Zenon DEF Reschedule, CopyType
      <4> QED BY <1>1, <3>1, <4>1, EmptyValues, StoredRows, ZenonT(30) DEF Reschedule, StoreType
    <3>2. CASE rows' = rows
      BY <1>1, <3>2, Zenon DEF StoreType
    <3> QED BY <1>4, <3>1, <3>2, Zenon DEF UnlockLane, Crash
  <2>4. StoreType'
    BY <1>1, <2>1, <2>3, Zenon DEF LeaveLane, Unlock, StoreType
  <2> QED BY <1>1, <2>1, <2>2, <2>4, EndedStep, Zenon DEF ClockType, clockVars
<1>5. CASE LoseLock(m)
  <2>1. StoreType' /\ UNCHANGED <<nodeVars, clockVars, localVars>>
    BY <1>1, <1>5, Zenon DEF LoseLock, StoreType
  <2>2. LocalInv'
    BY <1>1, <2>1, Zenon DEF localVars, LocalInv, LocalType, CopyType
  <2> QED BY <1>1, <2>1, <2>2, EndedStep, Zenon DEF ClockType, clockVars
<1> QED BY <1>2, <1>3, <1>4, <1>5, Zenon

\* What the caller, the clocks and the network do.
LEMMA EnvironmentTypes ==
  ASSUME TypeInv, Network \/ \E t \in Txs : SendTxAsync(t) \/ Age(t) \/ Elapse(t)
  PROVE  TypeInv'
<1>1. StoreType /\ NodeType /\ LocalInv /\ LocalType /\ CopyType /\ ClockType
  BY Zenon DEF TypeInv, LocalInv
<1>2. CASE Network
  <2>1. ASSUME NEW e \in Envelope, MineEnvelope(e) PROVE NodeType'
    BY <1>1, <2>1 DEF MineEnvelope, NodeType, Envelope
  <2>2. Foreign("self") \in Envelope
    BY <1>1, Zenon DEF NodeType, Foreign, Envelope, Signers, Payloads
  <2>3. NodeType'
    BY <1>1, <1>2, <2>1, <2>2, Zenon DEF Network, Mine, ForeignMine, Publish, Propagate, Evict, NodeType
  <2> QED BY <1>1, <1>2, <2>3, Zenon
         DEF Network, storeVars, clockVars, localVars, TypeInv, StoreType, ClockType, LocalType, CopyType
<1>3. ASSUME NEW t \in Txs, SendTxAsync(t) PROVE TypeInv'
  <2>1. [AbsentRow EXCEPT !.status = "pending", !.sender = "self"] \in Row
    BY Zenon DEF AbsentRow, Row, ActiveStatuses, Signers
  <2>2. StoreType'
    BY <1>1, <1>3, <2>1, Zenon DEF SendTxAsync, StoreType
  <2>3. LocalInv' /\ ClockType'
    BY <1>1, <1>3, Zenon DEF SendTxAsync, localVars, clockVars, LocalInv, LocalType, CopyType, ClockType
  <2> QED BY <1>3, <2>2, <2>3, EndedStep, Zenon DEF SendTxAsync
<1>4. ASSUME NEW t \in Txs, Age(t) \/ Elapse(t) PROVE TypeInv'
  <2>1. StoreType' /\ LocalInv' /\ ClockType'
    BY <1>1, <1>4, Zenon
         DEF Age, Elapse, storeVars, localVars, StoreType, LocalInv, LocalType, CopyType, ClockType
  <2> QED BY <1>4, <2>1, EndedStep, Zenon DEF Age, Elapse
<1> QED BY <1>2, <1>3, <1>4, Zenon

-----------------------------------------------------------------------------
\* TypeInv is inductive.
LEMMA TypeInvInductive ==
  /\ Init => TypeInv
  /\ TypeInv /\ [Next]_vars => TypeInv'
<1>1. Init => TypeInv
  <2> SUFFICES ASSUME Init PROVE TypeInv
    BY Zenon
  <2>1. StoreType
    <3>1. ASSUME NEW t \in DOMAIN Legacy PROVE LegacyRow(Legacy[t]) \in Row
      BY TxManagerAssumptions, Zenon DEF LegacyRow, AbsentRow, Row, ActiveStatuses, Signers
    <3>2. rows \in [Txs -> Row]
      BY <3>1, EmptyValues, Zenon DEF Init
    <3>3. attempts = [t \in Txs |-> <<>>] /\ lock = None
      BY Zenon DEF Init
    <3>4. << >> \in Seq(Envelope)
      OBVIOUS
    <3>5. attempts \in [Txs -> Seq(Envelope)]
      BY <3>3, <3>4, Zenon
    <3> QED BY <3>2, <3>3, <3>5, Zenon DEF StoreType
  <2>2. NodeType
    <3>1. {Legacy[t] : t \in DOMAIN Legacy} \ {None} \subseteq Envelope
      BY TxManagerAssumptions, Zenon
    <3>2. PICK P \in SUBSET ({Legacy[t] : t \in DOMAIN Legacy} \ {None}) : NodeInit(P)
      BY Zenon DEF Init
    <3>3. P \subseteq Envelope
      BY <3>1, Zenon
    <3> QED BY <3>2, <3>3, Zenon DEF NodeInit, NodeType, Signers
  <2>3. ClockType
    BY Zenon DEF Init, ClockType
  <2>4. LocalType
    BY EmptyValues, Zenon DEF Init, LocalType, Stages
  <2>5. CopyType
    BY Zenon DEF Init, CopyType
  <2> QED BY <2>1, <2>2, <2>3, <2>4, <2>5, Zenon DEF TypeInv
<1>2. TypeInv /\ [Next]_vars => TypeInv'
  <2> SUFFICES ASSUME TypeInv, [Next]_vars PROVE TypeInv'
    BY Zenon
  <2>1. ASSUME NEW m \in Managers, Manage(m) PROVE TypeInv'
    BY <2>1, ProcessRowTypes, AttemptTypes, BroadcastTypes, LaneTypes, Zenon DEF Manage
  <2>2. CASE UNCHANGED vars
    BY <2>2, Zenon DEF vars, storeVars, nodeVars, clockVars, localVars,
                TypeInv, StoreType, NodeType, ClockType, LocalType, CopyType
  <2> QED BY <2>1, <2>2, EnvironmentTypes, Zenon DEF Next, Quiescent
<1> QED BY <1>1, <1>2, Zenon

\* Every variable keeps its type in every behaviour of the manager, with any
\* number of rows, replicas and attempts, and with lock loss allowed.
THEOREM TypeCorrect == Spec => []TypeOK
<1>1. TypeInv => TypeOK
  BY Zenon DEF TypeInv, TypeOK, StoreType, NodeType, ClockType, LocalType
<1> QED BY <1>1, TypeInvInductive, PTL DEF Spec
=============================================================================
