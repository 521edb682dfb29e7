------------------------------ MODULE TxManager ------------------------------
(***************************************************************************)
(* The transaction manager: replicas that advance the rows of one lane     *)
(* (one signer on one chain) over the shared store, against the network.   *)
(*                                                                         *)
(* A processing step is cut where the outside can observe or interrupt it: *)
(* at each durable write and at SendTransaction.  RPC reads happen in the  *)
(* action of the write they lead to; the endpoint's lag covers the delay.  *)
(* Time is abstracted to what it decides: whether an attempt has outlived  *)
(* recoveredAttemptRejectionGrace (aged), whether a consumed nonce has     *)
(* outlived consumedNonceGrace (elapsed), and, by choice, whether a row is *)
(* due and its next fee bump has come.                                     *)
(***************************************************************************)
EXTENDS TxStore, GasFee, EthNode

CONSTANTS Reverts,             \* payloads whose execution fails
          Legacy,              \* rows of the old schema, and their raw transaction or None
          Prices,              \* what SuggestGasPrice may answer
          maxFeeReplacements,
          maxTransactionsPerLane,
          ReceiptReadsFail,    \* TransactionReceipt may fail with an RPC error
          LockLoss,            \* the session behind a lane lock may die under its holder
          MaxNonce             \* bound on the pending nonces TLC tries

ASSUME TxManagerAssumptions ==
  /\ None \notin Nat /\ None \notin Envelope /\ None \notin Txs /\ None \notin Managers
  /\ Prices \subseteq Nat /\ MaxNonce \in Nat
  /\ DOMAIN Legacy \subseteq Txs
  /\ \A t \in DOMAIN Legacy : Legacy[t] \in Envelope \cup {None}
  /\ \A t \in Txs : Payload[t] # "foreign"   \* what only the account's other users send

VARIABLES aged,     \* per row: its latest attempt is older than the rejection grace
          elapsed,  \* per row: its NonceConsumedAt is older than the consumed-nonce grace
          pc, lane, snap, cur, tx, policy, reply   \* volatile state of each manager

clockVars == <<aged, elapsed>>
localVars == <<pc, lane, snap, cur, tx, policy, reply>>
vars == <<storeVars, nodeVars, clockVars, localVars>>

Stages == {"idle", "batch", "sign", "record", "send", "reply", "reconcile", "fail"}
Policy == [firstAttemptThisPass : BOOLEAN, nonceReleasable : BOOLEAN]
NoPolicy == [firstAttemptThisPass |-> FALSE, nonceReleasable |-> FALSE]
EmptyBatch == [t \in Txs |-> AbsentRow]

\* Rows written before attempts, senders and assigned nonces were stored.
LegacyRow(e) == [AbsentRow EXCEPT !.status = IF e = None THEN "pending" ELSE "confirming", !.env = e]

Init ==
  /\ rows = [t \in Txs |-> IF t \in DOMAIN Legacy THEN LegacyRow(Legacy[t]) ELSE AbsentRow]
  /\ attempts = [t \in Txs |-> <<>>]
  /\ lock = None
  /\ \E P \in SUBSET ({Legacy[t] : t \in DOMAIN Legacy} \ {None}) : NodeInit(P)
  /\ aged = [t \in Txs |-> FALSE] /\ elapsed = [t \in Txs |-> FALSE]
  /\ pc = [m \in Managers |-> "idle"]
  /\ lane = [m \in Managers |-> EmptyLane]
  /\ snap = [m \in Managers |-> EmptyBatch]
  /\ cur = [m \in Managers |-> None]
  /\ tx = [m \in Managers |-> AbsentRow]
  /\ policy = [m \in Managers |-> NoPolicy]
  /\ reply = [m \in Managers |-> None]

-----------------------------------------------------------------------------
(* SendTxAsync: a new pending row of the managers' signer.                 *)

SendTxAsync(t) ==
  /\ rows[t] = AbsentRow
  /\ rows' = [rows EXCEPT ![t] = [AbsentRow EXCEPT !.status = "pending", !.sender = "self"]]
  /\ UNCHANGED <<attempts, lock, nodeVars, clockVars, localVars>>

(* How a manager's volatile state moves on.                                *)

GoTo(m, stage) ==
  /\ pc' = [pc EXCEPT ![m] = stage]
  /\ UNCHANGED <<lane, snap, cur, tx, policy, reply>>

\* Done with row t: on to the rest of the batch.
Continue(m, t, l) ==
  /\ pc' = [pc EXCEPT ![m] = "batch"]
  /\ lane' = [lane EXCEPT ![m] = l]
  /\ snap' = [snap EXCEPT ![m][t] = AbsentRow]
  /\ cur' = [cur EXCEPT ![m] = None]
  /\ tx' = [tx EXCEPT ![m] = AbsentRow]
  /\ policy' = [policy EXCEPT ![m] = NoPolicy]
  /\ reply' = [reply EXCEPT ![m] = None]

\* processLaneBatch returns: the deferred Unlock runs, the lane is forgotten.
LeaveLane(m) ==
  /\ Unlock(m)
  /\ pc' = [pc EXCEPT ![m] = "idle"]
  /\ lane' = [lane EXCEPT ![m] = EmptyLane]
  /\ snap' = [snap EXCEPT ![m] = EmptyBatch]
  /\ cur' = [cur EXCEPT ![m] = None]
  /\ tx' = [tx EXCEPT ![m] = AbsentRow]
  /\ policy' = [policy EXCEPT ![m] = NoPolicy]
  /\ reply' = [reply EXCEPT ![m] = None]

\* Row t is worked on with local copy r under policy p.
WorkOn(m, t, r, l, p, stage) ==
  /\ pc' = [pc EXCEPT ![m] = stage]
  /\ lane' = [lane EXCEPT ![m] = l]
  /\ snap' = [snap EXCEPT ![m][t] = AbsentRow]
  /\ cur' = [cur EXCEPT ![m] = t]
  /\ tx' = [tx EXCEPT ![m] = r]
  /\ policy' = [policy EXCEPT ![m] = p]
  /\ reply' = [reply EXCEPT ![m] = None]

\* An error that is not row-local: the row is rescheduled and the batch ends.
Fail(m, t) ==
  /\ pc' = [pc EXCEPT ![m] = "fail"]
  /\ cur' = [cur EXCEPT ![m] = t]
  /\ lane' = [lane EXCEPT ![m] = EmptyLane]
  /\ snap' = [snap EXCEPT ![m] = EmptyBatch]
  /\ tx' = [tx EXCEPT ![m] = AbsentRow]
  /\ policy' = [policy EXCEPT ![m] = NoPolicy]
  /\ reply' = [reply EXCEPT ![m] = None]

\* A write that ends the step.  It may commit and still report an error, which
\* the batch treats like any other infrastructure failure of the row.
SaveAndContinue(m, t, r, l) ==
  /\ rows' = UpdateIfActive(t, r)
  /\ \/ Continue(m, t, l)
     \/ Fail(m, t)
  /\ UNCHANGED <<attempts, lock>>

\* A write that releases a nonce ends the batch (errLaneStateChanged), unless
\* the row was already terminal (ErrStaleTransaction).
SaveAndLeave(m, t, r, l) ==
  /\ rows' = UpdateIfActive(t, r)
  /\ \/ Active(rows[t]) /\ LeaveLane(m)
     \/ ~Active(rows[t]) /\ Continue(m, t, l) /\ UNCHANGED lock
     \/ Fail(m, t) /\ UNCHANGED lock
  /\ UNCHANGED attempts

-----------------------------------------------------------------------------
(* Row transitions.                                                        *)

scheduleNextCheck(t, r) == IF attempts[t] # <<>> THEN [r EXCEPT !.status = "confirming"] ELSE r

finalizeTransaction(r, winner) ==
  [r EXCEPT !.env = winner, !.rejected = None,
            !.status = IF winner.payload \in Reverts THEN "failed" ELSE "succeed"]

\* Fault: a status the schema does not have.
abandonUnknownStatus(r) == [r EXCEPT !.status = "abandoned", !.rejected = None]

abandonTransaction(r) == [r EXCEPT !.status = "errored", !.rejected = None]

\* findKnownReceipt: at most one attempt of a row has a receipt to find.
ReceiptFound(t, e) == e \in Envelopes(t) \cap receipts
NoReceipt(t) == Envelopes(t) \cap receipts = {}
ReceiptReadFailed(t) == ReceiptReadsFail /\ attempts[t] # <<>>

-----------------------------------------------------------------------------
(* processLaneBatch: lock, read the high-water mark, select the due rows.  *)

LockLane(m) ==
  /\ pc[m] = "idle"
  /\ TryLockLane(m)
  /\ \E due \in SUBSET LaneWork :
       /\ due # {} /\ Cardinality(due) <= maxTransactionsPerLane
       /\ snap' = [snap EXCEPT ![m] = [t \in Txs |-> IF t \in due THEN rows[t] ELSE AbsentRow]]
  /\ \/ AssignedNonces = {} /\ lane' = [lane EXCEPT ![m] = EmptyLane]
     \/ \E n \in AssignedNonces :
          IsMaxAssignedNonce(n) /\ lane' = [lane EXCEPT ![m] = [known |-> TRUE, next |-> n + 1]]
  /\ pc' = [pc EXCEPT ![m] = "batch"]
  /\ UNCHANGED <<rows, attempts, nodeVars, clockVars, cur, tx, policy, reply>>

Batch(m) == {t \in Txs : snap[m][t].status # "absent"}

UnlockLane(m) ==
  /\ pc[m] = "batch" /\ Batch(m) = {}
  /\ LeaveLane(m)
  /\ UNCHANGED <<rows, attempts, nodeVars, clockVars>>

\* Row t is being stepped already, or it is the first of those left.
NextInBatch(m, t) ==
  /\ pc[m] = "batch" /\ t \in Batch(m)
  /\ cur[m] # None => cur[m] = t
  /\ cur[m] = None => \A u \in Batch(m) : OrderedBefore(snap[m][t], snap[m][u])

-----------------------------------------------------------------------------
(* processTransactionStep, up to where it signs or sends.                  *)

\* A row with a raw transaction and no attempt: adopt it as the attempt.
RecoverLegacy(m, t) ==
  /\ NextInBatch(m, t)
  /\ attempts[t] = <<>> /\ snap[m][t].env # None
  /\ ~OwnedByAnother(t, snap[m][t].env)
  /\ attempts' = InsertAttempt(t, snap[m][t].env)
  /\ snap' = [snap EXCEPT ![m][t].pending = TRUE]
  /\ cur' = [cur EXCEPT ![m] = t]
  /\ UNCHANGED <<rows, lock, nodeVars, clockVars, pc, lane, tx, policy, reply>>

\* Fault: the raw transaction of an old row is not recovered.
LoadedWithoutRecovery(m, t) == NextInBatch(m, t)

Loaded(m, t) == NextInBatch(m, t) /\ (attempts[t] # <<>> \/ snap[m][t].env = None)

\* The local copy after the durable attempts have repaired it.
Repaired(m, t) ==
  LET r == snap[m][t] IN
  IF attempts[t] = <<>>
  THEN IF r.sender = "unset" THEN [r EXCEPT !.sender = "self"] ELSE r
  ELSE [r EXCEPT !.sender = Latest(t).signer, !.nonce = Latest(t).nonce,
                 !.status = "confirming", !.env = Latest(t),
                 !.pending = @ \/ r.env # Latest(t)]

LaneAfterLoad(m, t) ==
  IF attempts[t] # <<>> /\ Latest(t).signer = "self" THEN observe(lane[m], Latest(t).nonce) ELSE lane[m]

FinalizeReceipt(m, t) ==
  /\ Loaded(m, t)
  /\ \E e \in Envelopes(t) :
       /\ ReceiptFound(t, e)
       /\ SaveAndContinue(m, t, finalizeTransaction(Repaired(m, t), e), LaneAfterLoad(m, t))
  /\ UNCHANGED <<nodeVars, clockVars>>

\* Past the receipt check, in the state the rest of the step starts from.
Unmined(m, t) == Loaded(m, t) /\ (NoReceipt(t) \/ ReceiptReadFailed(t))

\* Fault: a row signed by another key is worked on.
unprocessableAnySender(m, t) ==
  LET r == snap[m][t] IN
  \/ attempts[t] # <<>> /\ r.nonce # None /\ r.nonce # Latest(t).nonce
  \/ r.rejected # None /\ (attempts[t] # <<>> => r.rejected # Latest(t))

unprocessable(m, t) ==
  LET r == snap[m][t] IN
  \/ attempts[t] # <<>> /\ r.nonce # None /\ r.nonce # Latest(t).nonce
  \/ attempts[t] # <<>> /\ r.sender # "unset" /\ r.sender # Latest(t).signer
  \/ Repaired(m, t).sender # "self"
  \/ r.rejected # None /\ (attempts[t] # <<>> => r.rejected # Latest(t))

\* rescheduleTransaction works on the stored row, not on the local copy.
rescheduled(t) ==
  IF rows[t].env # None \/ rows[t].nonce # None
  THEN [rows[t] EXCEPT !.status = "confirming"]
  ELSE rows[t]

ParkUnprocessable(m, t) ==
  /\ Unmined(m, t) /\ unprocessable(m, t)
  /\ rows' \in {rows, UpdateIfActive(t, rescheduled(t))}
  /\ Continue(m, t, LaneAfterLoad(m, t))
  /\ UNCHANGED <<attempts, lock, nodeVars, clockVars>>

Workable(m, t) == Unmined(m, t) /\ ~unprocessable(m, t)

-----------------------------------------------------------------------------
(* reconcileRejectedSubmission on local copy r, once no receipt was found. *)

\* A failed lookup, a node behind, or a nonce that is not the tip: try later.
RetryReconciliation(m, t, r, l) ==
  /\ SaveAndContinue(m, t, scheduleNextCheck(t, r), l)
  /\ UNCHANGED elapsed

RejectedIsKnown(m, t, r, l) ==
  /\ \E e \in Envelopes(t) \cap seen :
       SaveAndContinue(m, t, scheduleNextCheck(t, [r EXCEPT !.env = e, !.pending = FALSE, !.rejected = None]), l)
  /\ UNCHANGED elapsed

\* Fault: the other attempts are not looked up before the nonce is released.
ReleaseWithoutLookup(m, t, r, l, tip) ==
  /\ PendingNonceAt("self", r.env.nonce)
  /\ tip
  /\ SaveAndLeave(m, t, abandonTransaction([r EXCEPT !.nonce = None, !.pending = FALSE]), l)
  /\ UNCHANGED elapsed

ReleaseRejected(m, t, r, l, tip) ==
  /\ Envelopes(t) \cap seen = {}
  /\ PendingNonceAt("self", r.env.nonce)
  /\ tip
  /\ SaveAndLeave(m, t, abandonTransaction([r EXCEPT !.nonce = None, !.pending = FALSE]), l)
  /\ UNCHANGED elapsed

RejectedIsConsumed(m, t, r, l) ==
  /\ Envelopes(t) \cap seen = {}
  /\ PendingNonceAt("self", r.env.nonce + 1)
  /\ SaveAndContinue(m, t, scheduleNextCheck(t, [r EXCEPT !.consumed = TRUE, !.pending = FALSE, !.rejected = None]), l)
  /\ elapsed' = [elapsed EXCEPT ![t] = FALSE]

reconcileRejectedSubmission(m, t, r, l, tip) ==
  \/ RetryReconciliation(m, t, r, l)
  \/ RejectedIsKnown(m, t, r, l)
  \/ ReleaseRejected(m, t, r, l, tip)
  \/ RejectedIsConsumed(m, t, r, l)

\* A durable rejection left by an earlier pass is settled before anything else.
ResumeReconciliation(m, t) ==
  /\ Workable(m, t) /\ snap[m][t].rejected # None
  /\ LET r == Repaired(m, t)
         l == LaneAfterLoad(m, t)
     IN  \/ ReceiptReadFailed(t) /\ RetryReconciliation(m, t, r, l)
         \/ NoReceipt(t) /\ reconcileRejectedSubmission(m, t, r, l, isTip(l, r.nonce))
  /\ UNCHANGED <<nodeVars, aged>>

-----------------------------------------------------------------------------
(* The rest of the step, for a row without rejection evidence.             *)

resumeBroadcast(m, t) == attempts[t] # <<>> /\ Repaired(m, t).pending

pollConsumedNonce(m, t) ==
  /\ Workable(m, t) /\ snap[m][t].rejected = None
  /\ snap[m][t].consumed /\ ~resumeBroadcast(m, t)
  /\ LET r == Repaired(m, t)
     IN  SaveAndContinue(m, t, IF elapsed[t] THEN abandonTransaction(r) ELSE scheduleNextCheck(t, r),
                         LaneAfterLoad(m, t))
  /\ UNCHANGED <<nodeVars, clockVars>>

\* Fault: a row with unsettled rejection evidence is replaced.
ReadyDespiteRejection(m, t) ==
  Workable(m, t) /\ ~(snap[m][t].consumed /\ ~resumeBroadcast(m, t))

Ready(m, t) ==
  /\ Workable(m, t) /\ snap[m][t].rejected = None
  /\ ~(snap[m][t].consumed /\ ~resumeBroadcast(m, t))

\* The next bump is not due, or the admission hook asked to wait.
Defer(m, t) ==
  /\ Ready(m, t)
  /\ SaveAndContinue(m, t, scheduleNextCheck(t, Repaired(m, t)), LaneAfterLoad(m, t))
  /\ UNCHANGED <<nodeVars, clockVars>>

\* The admission hook reports ErrUnsignedTransactionExpired.
ExpireUnsigned(m, t) ==
  /\ Ready(m, t)
  /\ LET r == Repaired(m, t)
         l == LaneAfterLoad(m, t)
     IN  /\ attempts[t] = <<>>
         /\ r.nonce # None => isTip(l, r.nonce)
         /\ SaveAndLeave(m, t, abandonTransaction([r EXCEPT !.nonce = None]), l)
  /\ UNCHANGED <<nodeVars, clockVars>>

ResumeBroadcast(m, t) ==
  /\ Ready(m, t) /\ resumeBroadcast(m, t)
  /\ LET r == Repaired(m, t)
         l == LaneAfterLoad(m, t)
     IN  WorkOn(m, t, r, l, [NoPolicy EXCEPT !.nonceReleasable = isTip(l, r.nonce)], "send")
  /\ UNCHANGED <<storeVars, nodeVars, clockVars>>

FirstAttempt(l, n) == [firstAttemptThisPass |-> TRUE, nonceReleasable |-> isTip(l, n)]

\* Fault: the lane counts on without waiting for the node.
NextLocalNonce(l, n) == IF l.known THEN n = l.next ELSE PendingNonceAt("self", n)

\* reserve, given what PendingNonceAt answers.
NonceOnOffer(l, n) == PendingNonceAt("self", n) /\ reserveReady(l, n)

AssignNonce(m, t) ==
  /\ Ready(m, t) /\ Repaired(m, t).nonce = None
  /\ \E n \in 0..MaxNonce :
       LET r == [Repaired(m, t) EXCEPT !.nonce = n, !.status = "processing"]
           l == observe(lane[m], n)
       IN  /\ NonceOnOffer(lane[m], n)
           /\ rows' = UpdateIfActive(t, r)
           /\ \/ Active(rows[t]) /\ WorkOn(m, t, r, l, FirstAttempt(l, n), "sign")
              \/ ~Active(rows[t]) /\ Continue(m, t, lane[m])
              \/ Fail(m, t)
  /\ UNCHANGED <<attempts, lock, nodeVars, clockVars>>

\* errLaneAwaitingNodeNonce.
AwaitNodeNonce(m, t) ==
  /\ Ready(m, t) /\ Repaired(m, t).nonce = None
  /\ \E n \in 0..MaxNonce : PendingNonceAt("self", n) /\ ~reserveReady(lane[m], n)
  /\ LeaveLane(m)
  /\ UNCHANGED <<rows, attempts, nodeVars, clockVars>>

\* Fault: once the replacements are used up nothing is sent again.
BeginAttemptUpToCap(m, t) ==
  /\ Ready(m, t) /\ Repaired(m, t).nonce # None /\ ~resumeBroadcast(m, t)
  /\ LET r == Repaired(m, t)
         l == LaneAfterLoad(m, t)
     IN  \/ attempts[t] = <<>> /\ WorkOn(m, t, r, l, FirstAttempt(l, r.nonce), "sign")
         \/ /\ attempts[t] # <<>> /\ Len(attempts[t]) < maxFeeReplacements
            /\ WorkOn(m, t, r, l, NoPolicy, "sign")
  /\ UNCHANGED <<storeVars, nodeVars, clockVars>>

BeginAttempt(m, t) ==
  /\ Ready(m, t) /\ Repaired(m, t).nonce # None /\ ~resumeBroadcast(m, t)
  /\ LET r == Repaired(m, t)
         l == LaneAfterLoad(m, t)
     IN  \/ attempts[t] = <<>> /\ WorkOn(m, t, r, l, FirstAttempt(l, r.nonce), "sign")
         \/ /\ attempts[t] # <<>> /\ Len(attempts[t]) < maxFeeReplacements
            /\ WorkOn(m, t, r, l, NoPolicy, "sign")
         \/ /\ attempts[t] # <<>> /\ Len(attempts[t]) >= maxFeeReplacements
            /\ WorkOn(m, t, r, l, [NoPolicy EXCEPT !.nonceReleasable = isTip(l, r.nonce)], "send")
  /\ UNCHANGED <<storeVars, nodeVars, clockVars>>

-----------------------------------------------------------------------------
(* createAndBroadcastAttempt: sign and commit the attempt, commit the row, *)
(* and only then send.                                                     *)

\* Fault: a replacement moves on to the next nonce.
SignedAtNextNonce(t, n, price, floor) ==
  [signer |-> "self", payload |-> Payload[t], nonce |-> n + Len(attempts[t]),
   fee |-> suggestGasPrice(price, floor, Len(attempts[t]) + 1)]

Signed(t, n, price, floor) ==
  LET prev == IF attempts[t] = <<>> THEN 0 ELSE Latest(t).fee
  IN  [signer |-> "self", payload |-> Payload[t], nonce |-> n,
       fee |-> suggestGasPrice(price, maxFee(prev, floor), Len(attempts[t]) + 1)]

\* highestAttemptFee over SelectAttemptsByNonce, as a set of at most one fee.
FeesAtNonce(n) == {e.fee : e \in {f \in UNION {Envelopes(u) : u \in Txs} :
                                   f.signer = "self" /\ f.nonce = n}}
highestAttemptFee(n) == {f \in FeesAtNonce(n) : \A g \in FeesAtNonce(n) : g <= f}

\* persistUniqueAttempt: an envelope another row owns is signed again above
\* every fee used at the nonce.  Signing a third time changes nothing: either
\* the fee rose above all of them, or it is zero and cannot rise.
uniqueAttempts(t, n) ==
  LET signed == {Signed(t, n, p, 0) : p \in Prices}
      mine   == {e \in signed : ~OwnedByAnother(t, e)}
  IN  IF mine = signed
      THEN mine
      ELSE mine \cup {Signed(t, n, p, f) : p \in Prices, f \in highestAttemptFee(n)}

SignAttempt(m) ==
  /\ pc[m] = "sign"
  /\ \E e \in uniqueAttempts(cur[m], tx[m].nonce) :
       LET t == cur[m]
           r == [tx[m] EXCEPT !.env = e, !.status = "confirming", !.pending = TRUE, !.rejected = None]
       IN  \/ /\ OwnedByAnother(t, e)          \* re-signing did not change the hash
              /\ Fail(m, t) /\ UNCHANGED <<attempts, aged>>
           \/ /\ ~OwnedByAnother(t, e)
              /\ attempts' = InsertAttempt(t, e)
              /\ aged' = [aged EXCEPT ![t] = FALSE]
              /\ WorkOn(m, t, r, lane[m], policy[m], "record") \/ Fail(m, t)
  /\ UNCHANGED <<rows, lock, nodeVars, elapsed>>

RecordAttempt(m) ==
  /\ pc[m] = "record"
  /\ rows' = UpdateIfActive(cur[m], tx[m])
  /\ \/ Active(rows[cur[m]]) /\ GoTo(m, "send")
     \/ ~Active(rows[cur[m]]) /\ Continue(m, cur[m], lane[m])
     \/ Fail(m, cur[m])
  /\ UNCHANGED <<attempts, lock, nodeVars, clockVars>>

-----------------------------------------------------------------------------
(* broadcastAndSchedule and handleBroadcastFailure.                        *)

Broadcast(m) ==
  /\ pc[m] = "send"
  /\ \E rep \in Replies :
       /\ SendTransaction(tx[m].env, rep)
       /\ reply' = [reply EXCEPT ![m] = rep]
  /\ pc' = [pc EXCEPT ![m] = "reply"]
  /\ UNCHANGED <<storeVars, clockVars, lane, snap, cur, tx, policy>>

Accepted(m) ==
  /\ pc[m] = "reply" /\ reply[m] = "accepted"
  /\ SaveAndContinue(m, cur[m],
       scheduleNextCheck(cur[m], [tx[m] EXCEPT !.pending = FALSE, !.rejected = None]), lane[m])
  /\ UNCHANGED <<nodeVars, clockVars>>

\* Fault: a rejection is final at any age of the attempt.
mayReconcileAtOnce(m) == TRUE

mayReconcile(m) ==
  \/ policy[m].firstAttemptThisPass /\ policy[m].nonceReleasable
  \/ aged[cur[m]]

\* The row after a failed send, before rejection evidence is armed.
AfterFailure(r, rep) ==
  [r EXCEPT !.rejected = None,
            !.pending  = rep \in {"rejectedPermanent", "rejectedRetryable", "ambiguous"},
            !.consumed = @ \/ rep = "nonceConsumed"]

\* A receipt wins over what the node said about the send.
Unconfirmed(m) ==
  /\ pc[m] = "reply" /\ reply[m] # "accepted"
  /\ ~(reply[m] = "rejectedPermanent" /\ mayReconcile(m))
  /\ LET t == cur[m]
         r == AfterFailure(tx[m], reply[m])
     IN  /\ \/ \E e \in Envelopes(t) : ReceiptFound(t, e) /\ SaveAndContinue(m, t, finalizeTransaction(r, e), lane[m])
            \/ /\ NoReceipt(t) \/ ReceiptReadFailed(t)
               /\ SaveAndContinue(m, t, scheduleNextCheck(t, r), lane[m])
         /\ elapsed' = [elapsed EXCEPT ![t] = @ /\ reply[m] # "nonceConsumed"]
  /\ UNCHANGED <<nodeVars, aged>>

\* Rejection evidence is durable before anything more is asked of the node.
RecordRejection(m) ==
  /\ pc[m] = "reply" /\ reply[m] = "rejectedPermanent" /\ mayReconcile(m)
  /\ LET t == cur[m]
         r == scheduleNextCheck(t, [AfterFailure(tx[m], reply[m]) EXCEPT !.pending = FALSE, !.rejected = tx[m].env])
     IN  /\ rows' = UpdateIfActive(t, r)
         /\ \/ Active(rows[t]) /\ WorkOn(m, t, r, lane[m], policy[m], "reconcile")
            \/ ~Active(rows[t]) /\ Continue(m, t, lane[m])
            \/ Fail(m, t)
  /\ UNCHANGED <<attempts, lock, nodeVars, clockVars>>

ReconcileRejection(m) ==
  /\ pc[m] = "reconcile"
  /\ LET t == cur[m]
         r == tx[m]
     IN  \/ \E e \in Envelopes(t) : ReceiptFound(t, e) /\ SaveAndContinue(m, t, finalizeTransaction(r, e), lane[m])
                                 /\ UNCHANGED elapsed
         \/ ReceiptReadFailed(t) /\ RetryReconciliation(m, t, r, lane[m])
         \/ NoReceipt(t) /\ reconcileRejectedSubmission(m, t, r, lane[m], policy[m].nonceReleasable)
  /\ UNCHANGED <<nodeVars, aged>>

-----------------------------------------------------------------------------
(* Failures, crashes, the lock's session, and the two clocks.              *)

\* An RPC, signing, admission or database error with nothing written.
StepError(m) ==
  /\ \/ pc[m] \in {"sign", "record", "reply", "reconcile"} /\ Fail(m, cur[m])
     \/ \E t \in Txs : NextInBatch(m, t) /\ Fail(m, t)
  /\ UNCHANGED <<storeVars, nodeVars, clockVars>>

\* rescheduleTransaction, which may itself fail, then the batch ends.
Reschedule(m) ==
  /\ pc[m] = "fail"
  /\ rows' \in {rows, UpdateIfActive(cur[m], rescheduled(cur[m]))}
  /\ LeaveLane(m)
  /\ UNCHANGED <<attempts, nodeVars, clockVars>>

\* A crash, or a Stop that cancels the batch: the session ends, the lock goes.
Crash(m) ==
  /\ pc[m] # "idle"
  /\ LeaveLane(m)
  /\ UNCHANGED <<rows, attempts, nodeVars, clockVars>>

LoseLock(m) ==
  /\ LockLoss /\ lock = m
  /\ lock' = None
  /\ UNCHANGED <<rows, attempts, nodeVars, clockVars, localVars>>

\* The grace periods are long enough for what they wait for: an attempt the
\* network holds has reached the endpoint, a mined one has its receipt there.
Age(t) ==
  /\ attempts[t] # <<>> /\ ~aged[t]
  /\ Envelopes(t) \cap (pool \cup mined) \subseteq seen
  /\ aged' = [aged EXCEPT ![t] = TRUE]
  /\ UNCHANGED <<storeVars, nodeVars, elapsed, localVars>>

Elapse(t) ==
  /\ rows[t].consumed /\ ~elapsed[t]
  /\ Envelopes(t) \cap mined \subseteq receipts
  /\ elapsed' = [elapsed EXCEPT ![t] = TRUE]
  /\ UNCHANGED <<storeVars, nodeVars, aged, localVars>>

Network ==
  /\ Mine \/ ForeignMine \/ Publish \/ Propagate \/ Evict
  /\ UNCHANGED <<storeVars, clockVars, localVars>>

-----------------------------------------------------------------------------
ProcessRow(m, t) ==
  \/ RecoverLegacy(m, t)
  \/ FinalizeReceipt(m, t)
  \/ ParkUnprocessable(m, t)
  \/ ResumeReconciliation(m, t)
  \/ pollConsumedNonce(m, t)
  \/ Defer(m, t)
  \/ ExpireUnsigned(m, t)
  \/ ResumeBroadcast(m, t)
  \/ AssignNonce(m, t)
  \/ AwaitNodeNonce(m, t)
  \/ BeginAttempt(m, t)

Manage(m) ==
  \/ LockLane(m)
  \/ UnlockLane(m)
  \/ \E t \in Txs : ProcessRow(m, t)
  \/ SignAttempt(m)
  \/ RecordAttempt(m)
  \/ Broadcast(m)
  \/ Accepted(m)
  \/ Unconfirmed(m)
  \/ RecordRejection(m)
  \/ ReconcileRejection(m)
  \/ StepError(m)
  \/ Reschedule(m)
  \/ Crash(m)
  \/ LoseLock(m)

\* Every row is terminal and the passes find no work.
Quiescent ==
  /\ \A t \in Txs : IsCompleted(rows[t])
  /\ \A m \in Managers : pc[m] = "idle"
  /\ UNCHANGED vars

Next ==
  \/ \E m \in Managers : Manage(m)
  \/ \E t \in Txs : SendTxAsync(t) \/ Age(t) \/ Elapse(t)
  \/ Network
  \/ Quiescent

Spec == Init /\ [][Next]_vars

-----------------------------------------------------------------------------
(* The contract, with the on-chain history read off the mined envelopes.   *)

Outcome == [t \in Txs |-> IF Active(rows[t]) THEN "queued" ELSE rows[t].status]
RawTx(t) == IF t \in DOMAIN Legacy THEN {Legacy[t]} ELSE {}
Executions == [t \in Txs |-> Cardinality((Envelopes(t) \cup RawTx(t)) \cap mined)]

C == INSTANCE TxContract WITH Ids <- Txs, Reverting <- {t \in Txs : Payload[t] \in Reverts},
                              outcome <- Outcome, executions <- Executions

\* The manager implements its contract: whatever crashes, lost replies, fee
\* replacements and releases a transaction goes through, it executes at most
\* once, WaitTxCompleted reports succeed or failed only after that execution
\* and errored only if there never is one, and a terminal status is final.
ImplementsContract == C!Spec

-----------------------------------------------------------------------------
TypeOK ==
  /\ rows \in [Txs -> Row]
  /\ attempts \in [Txs -> Seq(Envelope)]
  /\ lock \in Managers \cup {None}
  /\ pool \subseteq Envelope /\ seen \subseteq Envelope /\ mined \subseteq Envelope
  /\ receipts \subseteq Envelope /\ refused \subseteq Envelope
  /\ chainNonce \in [Signers -> Nat]
  /\ aged \in [Txs -> BOOLEAN] /\ elapsed \in [Txs -> BOOLEAN]
  /\ pc \in [Managers -> Stages]
  /\ lane \in [Managers -> Lane]
  /\ snap \in [Managers -> [Txs -> Row]]
  /\ cur \in [Managers -> Txs \cup {None}]
  /\ tx \in [Managers -> Row]
  /\ policy \in [Managers -> Policy]
  /\ reply \in [Managers -> Replies \cup {None}]

\* No logical transaction is mined twice, whatever crashes, lost replies, fee
\* replacements and resent envelopes it goes through (createAndBroadcastAttempt
\* and the recovery in processTransactionStep).
MinedAtMostOnce ==
  \A t \in Txs : \A e, f \in Envelopes(t) \cap mined : e = f

\* A row is reported as succeeded or failed only if an attempt of it is in the
\* chain, and as what that attempt came to (finalizeTransaction).
ReportIsMined ==
  \A t \in Txs : rows[t].status \in {"succeed", "failed"} =>
    \E e \in Envelopes(t) \cap mined : rows[t].status = IF e.payload \in Reverts THEN "failed" ELSE "succeed"

\* A completed row is never written again, by whichever replica still works on a
\* copy of it (UpdateIfActive).
CompletionIsFinal == [][\A t \in Txs : IsCompleted(rows[t]) => rows'[t] = rows[t]]_vars

\* "Every candidate for one logical transaction uses the same nonce; only fees
\* differ" (TransactionAttempt), and one key signs them all, so that at most
\* one of them can ever execute.
AttemptsCompete ==
  \A t \in Txs : \A e, f \in Envelopes(t) : e.nonce = f.nonce /\ e.signer = f.signer

\* Why at most one attempt of a row is mined, as an inductive invariant: whoever
\* works on the lane holds its lock, a row about to be signed keeps the nonce and
\* the key of all it has signed, and the chain takes one envelope for each nonce
\* (processLaneBatch, the attempt repair in processTransactionStep).
AttemptInv ==
  /\ AttemptsCompete
  /\ \A m \in Managers :
       /\ pc[m] # "idle" => lock = m
       /\ pc[m] = "sign" => \A e \in Envelopes(cur[m]) : e.nonce = tx[m].nonce /\ e.signer = "self"
  /\ \A e \in mined : e.nonce < chainNonce[e.signer]
  /\ \A e, f \in mined : e.nonce = f.nonce /\ e.signer = f.signer => e = f

\* Two rows never hold one nonce of the lane, across replicas, crashes and
\* writes that committed but reported an error (nonceLane.reserve).
NonceHasOneOwner ==
  \A t, u \in Txs :
    /\ rows[t].sender = "self" /\ rows[u].sender = "self"
    /\ rows[t].nonce # None /\ rows[t].nonce = rows[u].nonce
    => t = u

\* No node holds, and no block contains, an attempt of an abandoned row
\* (abandonTransaction records "a transaction that can never be mined").
AbandonedNeverMined ==
  \A t \in Txs : rows[t].status = "errored" => Envelopes(t) \cap (pool \cup mined) = {}

\* Every envelope the network holds is a durable attempt of exactly one row: it
\* was committed before it was sent (persistUniqueAttempt), so any replica can
\* resume it after a crash, and its receipt settles one row only.
BroadcastIsDurable ==
  \A e \in pool \cup mined :
    e.payload # "foreign" => \E t \in Txs : \A u \in Txs : e \in Envelopes(u) <=> u = t

\* Below the lane's highest nonce there is no assigned nonce the network still
\* waits for: one that was not admitted never cascades into signed successors
\* (nonceLane.reserve).  An eviction may undo an admission, so it is excluded.
NoCascade ==
  \A n, k \in AssignedNonces :
    n < k => \/ n < chainNonce["self"]
             \/ \E e \in pool : e.signer = "self" /\ e.nonce = n

\* A nonce is given up only while no other row holds a higher one, so no
\* assigned follower is left behind a gap (nonceLane.isTip).
ReleasesOnlyTip ==
  [][\A t \in Txs : rows[t].nonce # None /\ rows'[t].nonce = None
       => \A n \in AssignedNonces : n <= rows[t].nonce]_vars

\* Rejection evidence always names the row's latest attempt and a nonce is never
\* at odds with the signed attempts: no row the manager itself wrote is ever
\* parked as unprocessable (processTransactionStep, handleBroadcastFailure).
NeverParked ==
  \A m \in Managers, t \in Txs : Loaded(m, t) => ~unprocessable(m, t)

=============================================================================
