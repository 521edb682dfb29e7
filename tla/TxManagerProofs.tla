--------------------------- MODULE TxManagerProofs ---------------------------
(***************************************************************************)
(* What is sent is durable first, at most one attempt of a row is ever     *)
(* mined, and what the caller is told is so and stays: proofs for any      *)
(* number of rows, replicas and attempts.  Only the second needs the lane  *)
(* lock to hold, or a single replica.                                      *)
(***************************************************************************)
EXTENDS TxManagerTypes

-----------------------------------------------------------------------------
(* The frame of a manager's step: what it leaves alone.                    *)

\* The volatile state of the other managers.
Frame(m) ==
  \A k \in Managers \ {m} : pc'[k] = pc[k] /\ cur'[k] = cur[k] /\ tx'[k] = tx[k]

\* The step ends for its row: nothing is about to be signed, committed or sent.
Dropped(m) == pc'[m] \in {"idle", "batch", "fail"}

KeepsLock(m) == lock' = lock \/ (Unlock(m) /\ pc'[m] = "idle")

\* The moves touch their manager only.
LEMMA MoveFrames ==
  ASSUME LocalType, NEW m \in Managers, NEW t \in Txs
  PROVE  /\ \A l : Continue(m, t, l) => Frame(m) /\ pc'[m] = "batch"
         /\ Fail(m, t) => Frame(m) /\ pc'[m] = "fail"
         /\ LeaveLane(m) => Frame(m) /\ pc'[m] = "idle" /\ Unlock(m)
         /\ \A stage : GoTo(m, stage) => Frame(m) /\ pc'[m] = stage /\ cur'[m] = cur[m] /\ tx'[m] = tx[m]
         /\ \A r, l, p, stage : WorkOn(m, t, r, l, p, stage)
              => Frame(m) /\ pc'[m] = stage /\ cur'[m] = t /\ tx'[m] = r
BY Zenon DEF LocalType, Frame, Continue, Fail, LeaveLane, GoTo, WorkOn

\* A write that ends a step.
LEMMA WriteFrames ==
  ASSUME LocalType, NEW m \in Managers, NEW t \in Txs, NEW r, NEW l,
         SaveAndContinue(m, t, r, l) \/ SaveAndLeave(m, t, r, l)
  PROVE  Frame(m) /\ Dropped(m) /\ KeepsLock(m) /\ attempts' = attempts
BY MoveFrames, Zenon DEF SaveAndContinue, SaveAndLeave, Dropped, KeepsLock

\* reconcileRejectedSubmission ends its step.
LEMMA ReconciliationFrame ==
  ASSUME LocalType, NEW m \in Managers, NEW t \in Txs, NEW r, NEW l, NEW tip,
         \/ RetryReconciliation(m, t, r, l)
         \/ reconcileRejectedSubmission(m, t, r, l, tip)
  PROVE  Frame(m) /\ Dropped(m) /\ KeepsLock(m) /\ attempts' = attempts
BY WriteFrames, Zenon DEF RetryReconciliation, reconcileRejectedSubmission, RejectedIsKnown,
                   ReleaseRejected, RejectedIsConsumed

\* Steps that end without an attempt being inserted, assigned or sent.
Ending(m, t) ==
  \/ FinalizeReceipt(m, t) \/ ParkUnprocessable(m, t) \/ ResumeReconciliation(m, t)
  \/ pollConsumedNonce(m, t) \/ Defer(m, t) \/ ExpireUnsigned(m, t) \/ AwaitNodeNonce(m, t)

LEMMA EndingFrame ==
  ASSUME LocalType, NEW m \in Managers, NEW t \in Txs, Ending(m, t)
  PROVE  /\ Frame(m) /\ Dropped(m) /\ KeepsLock(m)
         /\ pc[m] = "batch" /\ attempts' = attempts /\ UNCHANGED nodeVars
<1>1. pc[m] = "batch"
  BY Zenon DEF Ending, FinalizeReceipt, ParkUnprocessable, ResumeReconciliation, pollConsumedNonce, Defer,
         ExpireUnsigned, AwaitNodeNonce, Ready, Workable, Unmined, Loaded, NextInBatch
<1>2. UNCHANGED nodeVars
  BY Zenon DEF Ending, FinalizeReceipt, ParkUnprocessable, ResumeReconciliation, pollConsumedNonce, Defer,
         ExpireUnsigned, AwaitNodeNonce
<1>3. Frame(m) /\ Dropped(m) /\ KeepsLock(m) /\ attempts' = attempts
  <2>1. CASE FinalizeReceipt(m, t) \/ pollConsumedNonce(m, t) \/ Defer(m, t) \/ ExpireUnsigned(m, t)
    BY <2>1, WriteFrames, Zenon DEF FinalizeReceipt, pollConsumedNonce, Defer, ExpireUnsigned
  <2>2. CASE ParkUnprocessable(m, t) \/ AwaitNodeNonce(m, t)
    BY <2>2, MoveFrames, Zenon DEF ParkUnprocessable, AwaitNodeNonce, Dropped, KeepsLock
  <2>3. CASE ResumeReconciliation(m, t)
    BY <2>3, ReconciliationFrame, Zenon DEF ResumeReconciliation
  <2> QED BY <2>1, <2>2, <2>3, Zenon DEF Ending
<1> QED BY <1>1, <1>2, <1>3, Zenon

\* The same for what follows a send, and for errors, crashes and unlocking.
Settling(m) ==
  \/ Accepted(m) \/ Unconfirmed(m) \/ RecordRejection(m) \/ ReconcileRejection(m)
  \/ StepError(m) \/ Reschedule(m) \/ Crash(m) \/ UnlockLane(m)

LEMMA SettlingFrame ==
  ASSUME TypeInv, NEW m \in Managers, Settling(m)
  PROVE  /\ Frame(m) /\ (Dropped(m) \/ pc'[m] = "reconcile") /\ KeepsLock(m)
         /\ pc[m] # "idle" /\ attempts' = attempts /\ UNCHANGED nodeVars
<1>1. LocalType /\ CopyType
  BY Zenon DEF TypeInv
<1>2. pc[m] # "idle" /\ UNCHANGED nodeVars
  BY Zenon DEF Settling, Accepted, Unconfirmed, RecordRejection, ReconcileRejection, StepError, NextInBatch,
         Reschedule, Crash, UnlockLane
<1>3. CASE Accepted(m) \/ Unconfirmed(m) \/ ReconcileRejection(m)
  <2>1. cur[m] \in Txs
    BY <1>1, <1>3, Zenon DEF Accepted, Unconfirmed, ReconcileRejection, CopyType
  <2> QED BY <1>1, <1>2, <1>3, <2>1, WriteFrames, ReconciliationFrame, Zenon
       DEF Accepted, Unconfirmed, ReconcileRejection
<1>4. CASE RecordRejection(m)
  <2>1. cur[m] \in Txs
    BY <1>1, <1>4, Zenon DEF RecordRejection, CopyType
  <2> QED BY <1>1, <1>2, <1>4, <2>1, MoveFrames DEF RecordRejection, Dropped, KeepsLock
<1>5. CASE StepError(m)
  <2>1. PICK t \in Txs : Fail(m, t)
    BY <1>1, <1>5, Zenon DEF StepError, CopyType
  <2> QED BY <1>1, <1>2, <1>5, <2>1, MoveFrames, Zenon DEF StepError, storeVars, Dropped, KeepsLock
<1>6. CASE Reschedule(m) \/ Crash(m) \/ UnlockLane(m)
  <2>1. LeaveLane(m) /\ attempts' = attempts
    BY <1>6, Zenon DEF Reschedule, Crash, UnlockLane
  <2>2. Frame(m) /\ pc'[m] = "idle" /\ Unlock(m)
    BY <1>1, <2>1, Zenon DEF LocalType, Frame, LeaveLane
  <2> QED BY <1>2, <2>1, <2>2, Zenon DEF Dropped, KeepsLock
<1> QED BY <1>3, <1>4, <1>5, <1>6, Zenon DEF Settling

-----------------------------------------------------------------------------
(* Durability: attempts have one owner, and only they are sent.            *)

OneOwner == \A t, u \in Txs : t # u => Envelopes(t) \cap Envelopes(u) = {}

SendsDurable ==
  \A m \in Managers : pc[m] \in {"record", "send"} => tx[m].env \in Envelopes(cur[m])

OnNetwork ==
  \A e \in pool \cup mined : e.payload # "foreign" => \E t \in Txs : e \in Envelopes(t)

\* InsertAttempt adds one envelope to one row.
LEMMA InsertionAdds ==
  ASSUME StoreType, NEW t \in Txs, NEW e \in Envelope, attempts' = InsertAttempt(t, e)
  PROVE  /\ Envelopes(t)' = Envelopes(t) \cup {e}
         /\ \A u \in Txs \ {t} : Envelopes(u)' = Envelopes(u)
<1>1. CASE e \in Envelopes(t)
  BY <1>1, Zenon DEF InsertAttempt, Envelopes
<1>2. CASE e \notin Envelopes(t)
  <2>1. attempts' = [attempts EXCEPT ![t] = Append(attempts[t], e)]
    BY <1>2, Zenon DEF InsertAttempt
  <2>2. attempts'[t] = Append(attempts[t], e) /\ \A u \in Txs \ {t} : attempts'[u] = attempts[u]
    BY <2>1, Zenon DEF StoreType
  <2>3. attempts[t] \in Seq(Envelope)
    BY Zenon DEF StoreType
  <2> QED BY <2>2, <2>3 DEF Envelopes
<1> QED BY <1>1, <1>2, Zenon

\* A step either leaves the attempts alone or inserts an envelope no other row
\* owns: a signed one, or the raw transaction of an old row without attempts.
Inserts(m, t, e) ==
  /\ attempts' = InsertAttempt(t, e)
  /\ e \in Envelope /\ ~OwnedByAnother(t, e)
  /\ \/ attempts[t] = <<>> /\ pc[m] = "batch"
     \/ pc[m] = "sign" /\ cur[m] = t /\ e.signer = "self" /\ e.nonce = tx[m].nonce

\* What RecoverLegacy and SignAttempt do to the attempts.
LEMMA SigningInserts ==
  ASSUME TypeInv, NEW m \in Managers
  PROVE  /\ \A t \in Txs : RecoverLegacy(m, t) => \E e : Inserts(m, t, e)
         /\ SignAttempt(m) => \/ attempts' = attempts /\ pc'[m] = "fail"
                              \/ \E e : /\ Inserts(m, cur[m], e)
                                        /\ pc'[m] = "fail" \/ (pc'[m] = "record" /\ cur'[m] = cur[m] /\ tx'[m].env = e)
<1>1. StoreType /\ LocalType /\ CopyType
  BY Zenon DEF TypeInv
<1>2. ASSUME NEW t \in Txs, RecoverLegacy(m, t) PROVE \E e : Inserts(m, t, e)
  <2>1. snap[m][t] \in Row
    BY <1>1, Zenon DEF LocalType
  <2>2. snap[m][t].env \in Envelope
    BY <1>2, <2>1, Zenon DEF RecoverLegacy, Row
  <2> QED BY <1>2, <2>2, Zenon DEF RecoverLegacy, NextInBatch, Inserts
<1>3. ASSUME SignAttempt(m)
      PROVE  \/ attempts' = attempts /\ pc'[m] = "fail"
             \/ \E e : /\ Inserts(m, cur[m], e)
                       /\ pc'[m] = "fail" \/ (pc'[m] = "record" /\ cur'[m] = cur[m] /\ tx'[m].env = e)
  <2>1. pc[m] = "sign" /\ cur[m] \in Txs /\ tx[m].nonce \in Nat /\ tx[m] \in Row
    BY <1>1, <1>3, Zenon DEF SignAttempt, CopyType, LocalType
  <2> DEFINE t == cur[m]
             r(e) == [tx[m] EXCEPT !.env = e, !.status = "confirming", !.pending = TRUE, !.rejected = None]
  <2>2. PICK e \in uniqueAttempts(t, tx[m].nonce) :
          \/ Fail(m, t) /\ attempts' = attempts
          \/ /\ ~OwnedByAnother(t, e)
             /\ attempts' = InsertAttempt(t, e)
             /\ WorkOn(m, t, r(e), lane[m], policy[m], "record") \/ Fail(m, t)
    BY <1>3, Zenon DEF SignAttempt
  <2>3. e \in Envelope
    BY <1>1, <2>1, SignedIsEnvelope, Zenon
  <2>4. e.signer = "self" /\ e.nonce = tx[m].nonce
    BY DEF uniqueAttempts, Signed
  <2>5. r(e).env = e
    BY <2>1, Zenon DEF Row
  <2> HIDE DEF r
  <2> QED BY <1>1, <2>1, <2>2, <2>3, <2>4, <2>5, MoveFrames DEF Inserts
<1> QED BY <1>2, <1>3, Zenon

\* A step of a manager that starts work on row t, with what it installs.
LEMMA StartingFrame ==
  ASSUME TypeInv, NEW m \in Managers, NEW t \in Txs,
         AssignNonce(m, t) \/ ResumeBroadcast(m, t) \/ BeginAttempt(m, t)
  PROVE  /\ Frame(m) /\ pc[m] = "batch" /\ UNCHANGED <<attempts, lock, nodeVars>>
         /\ \/ Dropped(m)
            \/ /\ pc'[m] = "sign" /\ cur'[m] = t
               /\ attempts[t] # <<>> => /\ tx'[m].nonce = Latest(t).nonce
                                        /\ Latest(t).signer = "self"
            \/ pc'[m] = "send" /\ cur'[m] = t /\ attempts[t] # <<>> /\ tx'[m].env = Latest(t)
<1> DEFINE r == Repaired(m, t)
<1>1. StoreType /\ LocalType
  BY Zenon DEF TypeInv
<1>2. attempts[t] # <<>> => r.env = Latest(t) /\ r.nonce = Latest(t).nonce /\ Latest(t).nonce \in Nat
  BY <1>1, LoadedRow, EnvelopeFields, Zenon
<1>3. attempts[t] # <<>> /\ ~unprocessable(m, t) => Latest(t).signer = "self"
  <2>1. snap[m][t] \in Row
    BY <1>1, Zenon DEF LocalType
  <2> QED BY <2>1, Zenon DEF unprocessable, Repaired, Row
<1>4. pc[m] = "batch" /\ ~unprocessable(m, t) /\ UNCHANGED <<attempts, lock, nodeVars>>
  BY Zenon
       DEF AssignNonce, ResumeBroadcast, BeginAttempt, Ready, Workable, Unmined, Loaded, NextInBatch,
           storeVars
<1> HIDE DEF r
<1>5. CASE AssignNonce(m, t)
  <2>1. r.nonce = None
    BY <1>5, Zenon DEF AssignNonce, r
  <2>2. attempts[t] = <<>>
    BY <1>2, <2>1, TxManagerAssumptions, Zenon
  <2>3. \/ \E s, l, p : WorkOn(m, t, s, l, p, "sign")
        \/ Continue(m, t, lane[m])
        \/ Fail(m, t)
    BY <1>5, Zenon DEF AssignNonce
  <2> QED BY <1>1, <1>4, <2>2, <2>3, MoveFrames DEF Dropped
<1>6. CASE ResumeBroadcast(m, t)
  <2>1. attempts[t] # <<>> /\ \E l, p : WorkOn(m, t, r, l, p, "send")
    BY <1>6, Zenon DEF ResumeBroadcast, resumeBroadcast, r
  <2> QED BY <1>1, <1>2, <1>4, <2>1, MoveFrames
<1>7. CASE BeginAttempt(m, t)
  <2>1. \E l, p : \/ WorkOn(m, t, r, l, p, "sign")
                  \/ attempts[t] # <<>> /\ WorkOn(m, t, r, l, p, "send")
    BY <1>7, Zenon DEF BeginAttempt, r
  <2> QED BY <1>1, <1>2, <1>3, <1>4, <2>1, MoveFrames
<1> QED BY <1>5, <1>6, <1>7, Zenon

\* Attempts are never removed, and keep one owner.
LEMMA AttemptsGrow ==
  ASSUME TypeInv, NEW m \in Managers, NEW t \in Txs, NEW e, Inserts(m, t, e)
  PROVE  /\ \A u \in Txs : Envelopes(u) \subseteq Envelopes(u)'
         /\ e \in Envelopes(t)'
         /\ OneOwner => OneOwner'
<1>1. Envelopes(t)' = Envelopes(t) \cup {e} /\ \A u \in Txs \ {t} : Envelopes(u)' = Envelopes(u)
  BY InsertionAdds, Zenon DEF Inserts, TypeInv
<1>2. \A u \in Txs \ {t} : e \notin Envelopes(u)
  BY Zenon DEF Inserts, OwnedByAnother
<1> QED BY <1>1, <1>2 DEF OneOwner

\* Without an insertion they are the same.
LEMMA AttemptsStay ==
  ASSUME attempts' = attempts
  PROVE  /\ \A u \in Txs : Envelopes(u)' = Envelopes(u)
         /\ OneOwner => OneOwner'
<1>1. \A u \in Txs : Envelopes(u)' = Envelopes(u)
  BY Zenon DEF Envelopes
<1> QED BY <1>1, Zenon DEF OneOwner

Durable == OneOwner /\ SendsDurable /\ OnNetwork

\* The attempts stay, and no manager starts to send anything but an attempt.
LEMMA DurableFrame ==
  ASSUME TypeInv, Durable, NEW m \in Managers, Frame(m), OneOwner', UNCHANGED nodeVars,
         \A u \in Txs : Envelopes(u) \subseteq Envelopes(u)',
         pc'[m] \in {"record", "send"} => (tx[m].env \in Envelopes(cur[m]))'
  PROVE  Durable'
<1>1. ASSUME NEW k \in Managers \ {m}, pc'[k] \in {"record", "send"}
      PROVE  (tx[k].env \in Envelopes(cur[k]))'
  <2>1. cur[k] \in Txs /\ tx[k].env \in Envelopes(cur[k]) /\ cur'[k] = cur[k] /\ tx'[k] = tx[k]
    BY <1>1, Zenon DEF Durable, SendsDurable, Frame, TypeInv, CopyType
  <2> QED BY <2>1, ZenonT(30) DEF Envelopes
<1>2. SendsDurable'
  BY <1>1, Zenon DEF SendsDurable
<1>3. OnNetwork'
  BY Zenon DEF Durable, OnNetwork, nodeVars
<1> QED BY <1>2, <1>3, Zenon DEF Durable

\* Each step of a manager preserves durability.
LEMMA ManageDurable ==
  ASSUME TypeInv, Durable, NEW m \in Managers, Manage(m)
  PROVE  Durable'
<1>1. StoreType /\ LocalType /\ CopyType
  BY Zenon DEF TypeInv
<1>2. attempts' = attempts => OneOwner' /\ \A u \in Txs : Envelopes(u) \subseteq Envelopes(u)'
  BY AttemptsStay, Zenon DEF Durable
<1>3. ASSUME NEW t \in Txs, Ending(m, t) PROVE Durable'
  BY <1>1, <1>2, <1>3, EndingFrame, DurableFrame, Zenon DEF Dropped
<1>4. CASE Settling(m)
  BY <1>2, <1>4, SettlingFrame, DurableFrame, Zenon DEF Dropped
<1>5. ASSUME NEW t \in Txs, AssignNonce(m, t) \/ ResumeBroadcast(m, t) \/ BeginAttempt(m, t) PROVE Durable'
  <2>1. attempts[t] # <<>> => Latest(t) \in Envelopes(t)
    BY <1>1, AttemptsAreEnvelopes, Zenon
  <2>2. pc'[m] \in {"record", "send"} => (tx[m].env \in Envelopes(cur[m]))'
    BY <1>5, <2>1, StartingFrame DEF Dropped, Envelopes
  <2> QED BY <1>2, <1>5, <2>2, StartingFrame, DurableFrame, Zenon
<1>6. ASSUME NEW t \in Txs, RecoverLegacy(m, t) PROVE Durable'
  <2>1. PICK e : Inserts(m, t, e)
    BY <1>6, SigningInserts, Zenon
  <2>2. Frame(m) /\ pc'[m] = "batch" /\ UNCHANGED nodeVars
    BY <1>1, <1>6, Zenon DEF RecoverLegacy, NextInBatch, Frame, LocalType
  <2> QED BY <2>1, <2>2, AttemptsGrow, DurableFrame, Zenon DEF Durable
<1>7. CASE SignAttempt(m)
  <2>1. Frame(m) /\ UNCHANGED nodeVars /\ cur[m] \in Txs
    BY <1>1, <1>7, MoveFrames, Zenon DEF SignAttempt, CopyType
  <2>2. CASE attempts' = attempts /\ pc'[m] = "fail"
    BY <1>2, <2>1, <2>2, DurableFrame, Zenon
  <2>3. ASSUME NEW e, Inserts(m, cur[m], e),
               pc'[m] = "fail" \/ (pc'[m] = "record" /\ cur'[m] = cur[m] /\ tx'[m].env = e)
        PROVE  Durable'
    <3> DEFINE t == cur[m]
    <3>1. \A u \in Txs : Envelopes(u) \subseteq Envelopes(u)'
      BY <2>1, <2>3, AttemptsGrow, Zenon
    <3>2. OneOwner'
      BY <2>1, <2>3, AttemptsGrow, Zenon DEF Durable
    <3>3. \A u \in Txs : u = t => e \in Envelopes(u)'
      BY <2>1, <2>3, AttemptsGrow, Zenon
    <3>4. pc'[m] \in {"record", "send"} => (tx[m].env \in Envelopes(cur[m]))'
      BY <2>1, <2>3, <3>3, Zenon DEF Envelopes
    <3> QED BY <2>1, <3>1, <3>2, <3>4, DurableFrame, Zenon
  <2> QED BY <1>7, <2>2, <2>3, SigningInserts, Zenon
<1>8. CASE RecordAttempt(m)
  <2>1. cur[m] \in Txs /\ UNCHANGED <<attempts, nodeVars>> /\ pc[m] = "record"
    BY <1>1, <1>8, Zenon DEF RecordAttempt, CopyType
  <2>2. Frame(m) /\ (pc'[m] \in {"batch", "fail"} \/ (cur'[m] = cur[m] /\ tx'[m] = tx[m]))
    BY <1>1, <1>8, <2>1, MoveFrames, Zenon DEF RecordAttempt
  <2>3. pc'[m] \in {"record", "send"} => (tx[m].env \in Envelopes(cur[m]))'
    BY <2>1, <2>2, Zenon DEF Durable, SendsDurable, Envelopes
  <2> QED BY <1>2, <2>1, <2>2, <2>3, DurableFrame, Zenon
<1>9. CASE Broadcast(m)
  <2>1. tx[m].env \in Envelopes(cur[m]) /\ cur[m] \in Txs
    BY <1>1, <1>9, Zenon DEF Broadcast, Durable, SendsDurable, CopyType
  <2>2. pool' \cup mined' \subseteq (pool \cup mined) \cup {tx[m].env}
    BY <1>9, Zenon DEF Broadcast, SendTransaction
  <2>3. OnNetwork'
    BY <1>9, <2>1, <2>2 DEF Broadcast, storeVars, Durable, OnNetwork, Envelopes
  <2>4. SendsDurable'
    BY <1>1, <1>9 DEF Broadcast, storeVars, Durable, SendsDurable, Envelopes, LocalType
  <2> QED BY <1>2, <1>9, <2>3, <2>4, Zenon DEF Broadcast, storeVars, Durable
<1>10. CASE LockLane(m) \/ LoseLock(m)
  <2>1. Frame(m) /\ UNCHANGED <<attempts, nodeVars, cur, tx>> /\ (pc'[m] = "batch" \/ pc' = pc)
    BY <1>1, <1>10, Zenon DEF LockLane, LoseLock, localVars, Frame, LocalType
  <2>2. pc'[m] \in {"record", "send"} => (tx[m].env \in Envelopes(cur[m]))'
    BY <2>1, Zenon DEF Durable, SendsDurable, Envelopes
  <2> QED BY <1>2, <2>1, <2>2, DurableFrame, Zenon
<1> QED BY <1>3, <1>4, <1>5, <1>6, <1>7, <1>8, <1>9, <1>10, Zenon DEF Manage, ProcessRow, Ending, Settling

\* The environment puts nothing but its own envelopes on the network.
LEMMA EnvironmentDurable ==
  ASSUME TypeInv, Durable, Network \/ \E t \in Txs : SendTxAsync(t) \/ Age(t) \/ Elapse(t)
  PROVE  Durable'
<1>1. UNCHANGED <<attempts, pc, cur, tx>>
  BY Zenon DEF Network, SendTxAsync, Age, Elapse, storeVars, localVars
<1>2. OneOwner' /\ SendsDurable'
  <2>1. SendsDurable'
    BY <1>1, Zenon DEF Durable, SendsDurable, Envelopes
  <2> QED BY <1>1, <2>1, AttemptsStay, Zenon DEF Durable
<1>3. \A e \in pool' \cup mined' : e \in pool \cup mined \/ e.payload = "foreign"
  BY DEF Network, Mine, ForeignMine, MineEnvelope, Foreign, Publish, Propagate, Evict,
         SendTxAsync, Age, Elapse, nodeVars
<1>4. OnNetwork'
  BY <1>1, <1>3 DEF Durable, OnNetwork, Envelopes
<1> QED BY <1>2, <1>4, Zenon DEF Durable

\* Durable is inductive, with lock loss and failing receipt reads allowed.
LEMMA DurableInductive ==
  /\ DOMAIN Legacy = {} /\ Init => Durable
  /\ TypeInv /\ Durable /\ [Next]_vars => Durable'
<1>1. ASSUME DOMAIN Legacy = {}, Init PROVE Durable
  <2>1. \A t \in Txs : Envelopes(t) = {}
    BY <1>1 DEF Init, Envelopes
  <2>2. pool = {} /\ mined = {}
    BY <1>1, Zenon DEF Init, NodeInit
  <2>3. SendsDurable
    BY <1>1, Zenon DEF Init, SendsDurable
  <2> QED BY <2>1, <2>2, <2>3, Zenon DEF Durable, OneOwner, OnNetwork
<1>2. ASSUME TypeInv, Durable, [Next]_vars PROVE Durable'
  <2>1. CASE UNCHANGED vars
    <3>1. UNCHANGED <<attempts, pc, cur, tx, pool, mined>>
      BY <2>1, Zenon DEF vars, storeVars, nodeVars, localVars
    <3>2. SendsDurable' /\ OnNetwork'
      BY <1>2, <3>1 DEF Durable, SendsDurable, OnNetwork, Envelopes
    <3> QED BY <1>2, <3>1, <3>2, AttemptsStay, Zenon DEF Durable
  <2> QED BY <1>2, <2>1, ManageDurable, EnvironmentDurable, Zenon DEF Next, Quiescent
<1> QED BY <1>1, <1>2, Zenon

\* BroadcastIsDurable holds whenever there are no rows of the old schema, with
\* lock loss and failing receipt reads allowed: an envelope is committed before
\* it is sent and belongs to one row (persistUniqueAttempt).
THEOREM DurableBeforeBroadcast ==
  ASSUME DOMAIN Legacy = {}
  PROVE  Spec => []BroadcastIsDurable
<1>1. Durable => BroadcastIsDurable
  BY Zenon DEF Durable, OneOwner, OnNetwork, BroadcastIsDurable
<1> QED BY <1>1, DurableInductive, TypeInvInductive, PTL DEF Spec

-----------------------------------------------------------------------------
(* At most one attempt is mined: one replica at a time works on the lane.  *)

\* No session dies under its holder, or there is no other replica to take the lock.
Exclusive == ~LockLoss \/ \A m, k \in Managers : m = k

LockHeld == \A m \in Managers : pc[m] # "idle" => lock = m
LaneHeld == \A m \in Managers : pc[m] # "idle" => lock = m \/ \A k \in Managers : k = m

SignsSame ==
  \A m \in Managers :
    pc[m] = "sign" => \A e \in Envelopes(cur[m]) : e.nonce = tx[m].nonce /\ e.signer = "self"

OneEnvelopePerNonce ==
  /\ \A e \in mined : e.nonce < chainNonce[e.signer]
  /\ \A e, f \in mined : e.nonce = f.nonce /\ e.signer = f.signer => e = f

LEMMA AttemptInvParts ==
  AttemptInv <=> AttemptsCompete /\ LockHeld /\ SignsSame /\ OneEnvelopePerNonce
BY Zenon DEF AttemptInv, LockHeld, SignsSame, OneEnvelopePerNonce

\* Mining takes the nonce the chain is at, so it never takes one twice.
LEMMA ChainStep ==
  ASSUME TypeInv, OneEnvelopePerNonce, [Next]_vars
  PROVE  OneEnvelopePerNonce'
<1>1. CASE UNCHANGED <<mined, chainNonce>>
  BY <1>1, Zenon DEF OneEnvelopePerNonce
<1>2. ASSUME NEW e, e.nonce \in Nat, e.signer \in Signers, MineEnvelope(e) PROVE OneEnvelopePerNonce'
  <2>1. /\ mined' = mined \cup {e} /\ e.nonce = chainNonce[e.signer]
        /\ chainNonce' = [chainNonce EXCEPT ![e.signer] = chainNonce[e.signer] + 1]
    BY <1>2, Zenon DEF MineEnvelope
  <2>2. \A f \in mined : f.signer \in Signers /\ f.nonce \in Nat
    BY EnvelopeFields, Zenon DEF TypeInv, NodeType
  <2>3. chainNonce \in [Signers -> Nat]
    BY Zenon DEF TypeInv, NodeType
  <2> QED BY <1>2, <2>1, <2>2, <2>3 DEF OneEnvelopePerNonce
<1>3. CASE Network
  <2>1. ASSUME NEW e \in pool, MineEnvelope(e) PROVE OneEnvelopePerNonce'
    <3>1. e.nonce \in Nat /\ e.signer \in Signers
      BY EnvelopeFields, Zenon DEF TypeInv, NodeType
    <3> QED BY <1>2, <2>1, <3>1, Zenon
  <2>2. ASSUME ForeignMine PROVE OneEnvelopePerNonce'
    <3>1. Foreign("self").nonce \in Nat /\ Foreign("self").signer \in Signers
      BY Zenon DEF TypeInv, NodeType, Foreign, Signers
    <3> QED BY <1>2, <2>2, <3>1, Zenon DEF ForeignMine
  <2> QED BY <1>1, <1>3, <2>1, <2>2, Zenon DEF Network, Mine, Publish, Propagate, Evict
<1>4. ASSUME NEW m \in Managers, Manage(m) PROVE UNCHANGED <<mined, chainNonce>>
  BY <1>4, SettlingFrame, EndingFrame, StartingFrame, Zenon
     DEF TypeInv, Manage, ProcessRow, Ending, Settling, RecoverLegacy, SignAttempt, RecordAttempt, Broadcast,
         SendTransaction, LockLane, LoseLock, nodeVars
<1>5. CASE UNCHANGED vars \/ Quiescent \/ \E t \in Txs : SendTxAsync(t) \/ Age(t) \/ Elapse(t)
  BY <1>1, <1>5, Zenon DEF vars, nodeVars, Quiescent, SendTxAsync, Age, Elapse
<1> QED BY <1>1, <1>3, <1>4, <1>5, Zenon DEF Next

\* While a manager works on the lane every other one is idle.
LEMMA OthersIdle ==
  ASSUME LaneHeld, NEW m \in Managers, pc[m] # "idle"
  PROVE  \A k \in Managers \ {m} : pc[k] = "idle"
BY Zenon DEF LaneHeld

\* When a manager takes the lock, no other is at work either.
LEMMA LaneIsFree ==
  ASSUME LaneHeld, NEW m \in Managers, LockLane(m)
  PROVE  \A k \in Managers : pc[k] = "idle"
BY TxManagerAssumptions, Zenon DEF LaneHeld, LockLane, TryLockLane

\* A manager takes the lock, loses it, or does what a manager at work does.
LEMMA ManageMoves ==
  ASSUME TypeInv, NEW m \in Managers, Manage(m)
  PROVE  LockLane(m) \/ LoseLock(m) \/ (pc[m] # "idle" /\ Frame(m) /\ KeepsLock(m))
<1>1. LocalType /\ CopyType
  BY Zenon DEF TypeInv
<1>2. ASSUME NEW t \in Txs, ProcessRow(m, t) PROVE pc[m] # "idle" /\ Frame(m) /\ KeepsLock(m)
  <2>1. CASE RecoverLegacy(m, t)
    BY <1>1, <2>1, Zenon DEF RecoverLegacy, NextInBatch, Frame, LocalType, KeepsLock
  <2>2. CASE AssignNonce(m, t) \/ ResumeBroadcast(m, t) \/ BeginAttempt(m, t)
    BY <2>2, StartingFrame, Zenon DEF KeepsLock
  <2> QED BY <1>1, <1>2, <2>1, <2>2, EndingFrame, Zenon DEF ProcessRow, Ending
<1>3. CASE SignAttempt(m)
  <2>1. cur[m] \in Txs
    BY <1>1, <1>3, Zenon DEF SignAttempt, CopyType
  <2> QED BY <1>1, <1>3, <2>1, MoveFrames, Zenon DEF SignAttempt, KeepsLock
<1>4. CASE RecordAttempt(m)
  <2>1. cur[m] \in Txs
    BY <1>1, <1>4, Zenon DEF RecordAttempt, CopyType
  <2> QED BY <1>1, <1>4, <2>1, MoveFrames, Zenon DEF RecordAttempt, KeepsLock
<1>5. CASE Broadcast(m)
  BY <1>1, <1>5, Zenon DEF Broadcast, Frame, LocalType, KeepsLock, storeVars
<1>6. CASE Settling(m)
  BY <1>6, SettlingFrame, Zenon
<1> QED BY <1>2, <1>3, <1>4, <1>5, <1>6, Zenon DEF Manage, Settling

\* Losing the lock concerns nobody if there is no other replica.
LEMMA LostAlone ==
  ASSUME Exclusive, NEW m \in Managers, LoseLock(m)
  PROVE  /\ \A k \in Managers : k = m
         /\ UNCHANGED <<rows, attempts, nodeVars, clockVars, localVars>>
BY Zenon DEF Exclusive, LoseLock

\* Who works still holds the lock after a step, or is the only replica.
LEMMA ManageHeld ==
  ASSUME Exclusive, TypeInv, LaneHeld, NEW m \in Managers, Manage(m)
  PROVE  LaneHeld' /\ \A k \in Managers \ {m} : pc'[k] = "idle"
<1>1. CASE LockLane(m)
  <2>1. lock' = m /\ pc' = [pc EXCEPT ![m] = "batch"] /\ LocalType
    BY <1>1, Zenon DEF LockLane, TryLockLane, TypeInv
  <2>2. \A k \in Managers \ {m} : pc'[k] = "idle"
    BY <1>1, <2>1, LaneIsFree, Zenon DEF LocalType
  <2> QED BY <2>1, <2>2, Zenon DEF LaneHeld
<1>2. CASE LoseLock(m)
  BY <1>2, LostAlone, Zenon DEF LaneHeld
<1>3. CASE pc[m] # "idle" /\ Frame(m) /\ KeepsLock(m)
  <2>1. \A k \in Managers \ {m} : pc'[k] = "idle"
    BY <1>3, OthersIdle, Zenon DEF Frame
  <2>2. pc'[m] # "idle" => lock' = m \/ \A k \in Managers : k = m
    BY <1>3, Zenon DEF KeepsLock, LaneHeld
  <2> QED BY <2>1, <2>2, Zenon DEF LaneHeld
<1> QED BY <1>1, <1>2, <1>3, ManageMoves, Zenon

Competing == AttemptsCompete /\ LaneHeld /\ SignsSame

\* What a step of one manager has to keep, the others being idle.
LEMMA CompetingFrame ==
  ASSUME Exclusive, TypeInv, Competing, NEW m \in Managers, Manage(m), AttemptsCompete',
         pc'[m] = "sign" => (\A e \in Envelopes(cur[m]) : e.nonce = tx[m].nonce /\ e.signer = "self")'
  PROVE  Competing'
<1>1. LaneHeld' /\ \A k \in Managers \ {m} : pc'[k] = "idle"
  BY ManageHeld, Zenon DEF Competing
<1>2. SignsSame'
  BY <1>1, Zenon DEF SignsSame
<1> QED BY <1>1, <1>2, Zenon DEF Competing

\* An inserted envelope competes with the row's other attempts.
LEMMA InsertedCompetes ==
  ASSUME TypeInv, Competing, NEW m \in Managers, NEW t \in Txs, NEW e, Inserts(m, t, e)
  PROVE  AttemptsCompete'
<1>1. Envelopes(t)' = Envelopes(t) \cup {e} /\ \A u \in Txs \ {t} : Envelopes(u)' = Envelopes(u)
  BY InsertionAdds, Zenon DEF Inserts, TypeInv
<1>2. \A f \in Envelopes(t) : f.nonce = e.nonce /\ f.signer = e.signer
  <2>1. CASE attempts[t] = <<>>
    BY <2>1 DEF Envelopes
  <2>2. CASE attempts[t] # <<>>
    BY <2>2, Zenon DEF Inserts, Competing, SignsSame
  <2> QED BY <2>1, <2>2, Zenon
<1>3. \A u \in Txs : \A f, g \in Envelopes(u)' : f.nonce = g.nonce /\ f.signer = g.signer
  BY <1>1, <1>2 DEF Competing, AttemptsCompete
<1> QED BY <1>3, Zenon DEF AttemptsCompete

\* Without an insertion nothing changes.
LEMMA UnchangedCompetes ==
  ASSUME AttemptsCompete, attempts' = attempts
  PROVE  AttemptsCompete'
BY DEF AttemptsCompete, Envelopes

\* Each step of a manager keeps the attempts of every row competing.
LEMMA ManageCompeting ==
  ASSUME Exclusive, TypeInv, Competing, NEW m \in Managers, Manage(m)
  PROVE  Competing'
<1>1. StoreType /\ LocalType /\ CopyType
  BY Zenon DEF TypeInv
<1>2. attempts' = attempts => AttemptsCompete'
  BY UnchangedCompetes, Zenon DEF Competing
<1>3. ASSUME NEW t \in Txs, Ending(m, t) PROVE Competing'
  BY <1>1, <1>2, <1>3, EndingFrame, CompetingFrame, Zenon DEF Dropped
<1>4. CASE Settling(m)
  BY <1>2, <1>4, SettlingFrame, CompetingFrame, Zenon DEF Dropped
<1>5. ASSUME NEW t \in Txs, AssignNonce(m, t) \/ ResumeBroadcast(m, t) \/ BeginAttempt(m, t) PROVE Competing'
  <2>1. \A e \in Envelopes(t) : attempts[t] # <<>> /\ e.nonce = Latest(t).nonce /\ e.signer = Latest(t).signer
    <3>1. \A e \in Envelopes(t) : attempts[t] # <<>>
      BY DEF Envelopes
    <3> QED BY <1>1, <3>1, AttemptsAreEnvelopes, Zenon DEF Competing, AttemptsCompete
  <2>2. pc'[m] = "sign" => cur'[m] = t /\ \A e \in Envelopes(t) : e.nonce = tx'[m].nonce /\ e.signer = "self"
    BY <1>5, <2>1, StartingFrame DEF Dropped
  <2>3. pc'[m] = "sign" => (\A e \in Envelopes(cur[m]) : e.nonce = tx[m].nonce /\ e.signer = "self")'
    BY <1>5, <2>2, StartingFrame DEF Envelopes
  <2> QED BY <1>2, <1>5, <2>3, StartingFrame, CompetingFrame, Zenon
<1>6. ASSUME NEW t \in Txs, RecoverLegacy(m, t) PROVE Competing'
  <2>1. PICK e : Inserts(m, t, e)
    BY <1>6, SigningInserts, Zenon
  <2>2. pc'[m] = "batch"
    BY <1>6, Zenon DEF RecoverLegacy, NextInBatch
  <2> QED BY <2>1, <2>2, InsertedCompetes, CompetingFrame, Zenon
<1>7. CASE SignAttempt(m)
  <2>1. cur[m] \in Txs /\ pc[m] = "sign"
    BY <1>1, <1>7, Zenon DEF SignAttempt, CopyType
  <2>2. AttemptsCompete' /\ pc'[m] # "sign"
    BY <1>2, <1>7, <2>1, SigningInserts, InsertedCompetes, Zenon
  <2> QED BY <2>2, CompetingFrame, Zenon
<1>8. CASE RecordAttempt(m)
  <2>1. cur[m] \in Txs /\ attempts' = attempts
    BY <1>1, <1>8, Zenon DEF RecordAttempt, CopyType
  <2>2. pc'[m] \in {"send", "batch", "fail"}
    BY <1>1, <1>8, <2>1, MoveFrames, Zenon DEF RecordAttempt
  <2> QED BY <1>2, <2>1, <2>2, CompetingFrame, Zenon
<1>9. CASE Broadcast(m)
  <2>1. pc'[m] = "reply" /\ attempts' = attempts
    BY <1>1, <1>9, Zenon DEF Broadcast, LocalType, storeVars
  <2> QED BY <1>2, <2>1, CompetingFrame, Zenon
<1>10. CASE LockLane(m)
  <2>1. attempts' = attempts /\ pc'[m] = "batch"
    BY <1>1, <1>10, Zenon DEF LockLane, LocalType
  <2> QED BY <1>2, <2>1, CompetingFrame, Zenon
<1>11. CASE LoseLock(m)
  <2>1. UNCHANGED <<attempts, pc, cur, tx>>
    BY <1>11, Zenon DEF LoseLock, localVars
  <2>2. SignsSame'
    BY <2>1 DEF Competing, SignsSame, Envelopes
  <2> QED BY <1>2, <2>1, <2>2, ManageHeld, Zenon DEF Competing
<1> QED BY <1>3, <1>4, <1>5, <1>6, <1>7, <1>8, <1>9, <1>10, <1>11, Zenon
     DEF Manage, ProcessRow, Ending, Settling

\* Why attempts of one row compete, as an inductive invariant.
CompetingInv == Competing /\ OneEnvelopePerNonce

\* What does not move the managers, the lock or the attempts.
LEMMA EnvironmentFrame ==
  ASSUME Network \/ Quiescent \/ UNCHANGED vars \/ \E t \in Txs : SendTxAsync(t) \/ Age(t) \/ Elapse(t)
  PROVE  UNCHANGED <<attempts, lock, localVars>>
BY Zenon DEF Network, Quiescent, SendTxAsync, Age, Elapse, vars, storeVars

LEMMA CompetingInductive ==
  ASSUME Exclusive
  PROVE  /\ Init => CompetingInv
         /\ TypeInv /\ CompetingInv /\ [Next]_vars => CompetingInv'
<1>1. ASSUME Init PROVE CompetingInv
  <2>1. \A t \in Txs : Envelopes(t) = {}
    BY <1>1 DEF Init, Envelopes
  <2>2. mined = {} /\ \A m \in Managers : pc[m] = "idle"
    BY <1>1, Zenon DEF Init, NodeInit
  <2> QED BY <2>1, <2>2, Zenon
       DEF CompetingInv, Competing, AttemptsCompete, LaneHeld, SignsSame, OneEnvelopePerNonce
<1>2. ASSUME TypeInv, CompetingInv, [Next]_vars PROVE CompetingInv'
  <2>1. OneEnvelopePerNonce'
    BY <1>2, ChainStep, Zenon DEF CompetingInv
  <2>2. ASSUME UNCHANGED <<attempts, lock, localVars>> PROVE Competing'
    <3>1. LaneHeld' /\ SignsSame'
      BY <1>2, <2>2 DEF CompetingInv, Competing, LaneHeld, SignsSame, Envelopes, localVars
    <3> QED BY <1>2, <2>2, <3>1, UnchangedCompetes, Zenon DEF CompetingInv, Competing
  <2>3. Competing'
    BY <1>2, <2>2, EnvironmentFrame, ManageCompeting, Zenon DEF Next, CompetingInv
  <2> QED BY <2>1, <2>3, Zenon DEF CompetingInv
<1> QED BY <1>1, <1>2, Zenon

\* While no lock is lost, who works on the lane holds its lock.
LEMMA LockHeldInductive ==
  ASSUME ~LockLoss
  PROVE  /\ Init => LockHeld
         /\ TypeInv /\ LockHeld /\ [Next]_vars => LockHeld'
<1>1. Init => LockHeld
  BY Zenon DEF Init, LockHeld
<1>2. ASSUME TypeInv, LockHeld, [Next]_vars PROVE LockHeld'
  <2>1. LaneHeld
    BY <1>2, Zenon DEF LockHeld, LaneHeld
  <2>2. ASSUME NEW m \in Managers, Manage(m) PROVE LockHeld'
    <3>1. \A k \in Managers \ {m} : pc'[k] = "idle"
      BY <1>2, <2>1, <2>2, ManageHeld, Zenon DEF Exclusive
    <3>2. pc'[m] # "idle" => lock' = m
      BY <1>2, <2>2, ManageMoves, Zenon DEF LockHeld, KeepsLock, LockLane, TryLockLane, LoseLock
    <3> QED BY <3>1, <3>2, Zenon DEF LockHeld
  <2>3. CASE UNCHANGED <<attempts, lock, localVars>>
    BY <1>2, <2>3, Zenon DEF LockHeld, localVars
  <2> QED BY <1>2, <2>2, <2>3, EnvironmentFrame, Zenon DEF Next
<1> QED BY <1>1, <1>2, Zenon

\* While no session is lost under its holder, AttemptInv holds in every reachable
\* state, whatever the schema the rows started from.
THEOREM AttemptInvHolds ==
  ASSUME ~LockLoss
  PROVE  Spec => []AttemptInv
<1>1. Exclusive
  BY Zenon DEF Exclusive
<1>2. CompetingInv /\ LockHeld => AttemptInv
  BY AttemptInvParts, Zenon DEF CompetingInv, Competing
<1> QED BY <1>1, <1>2, CompetingInductive, LockHeldInductive, TypeInvInductive, PTL DEF Spec

\* Attempts of one row share key and nonce, mined envelopes do not.
LEMMA CompetingMinesOnce ==
  ASSUME CompetingInv
  PROVE  MinedAtMostOnce
BY DEF CompetingInv, Competing, OneEnvelopePerNonce, AttemptsCompete, MinedAtMostOnce

\* No logical transaction is mined twice: its attempts compete for one nonce of
\* one key, and the chain takes one envelope for each nonce.  A replica that is
\* alone does not even need its lock.
THEOREM NoDoubleExecution ==
  ASSUME Exclusive
  PROVE  Spec => []MinedAtMostOnce
BY CompetingMinesOnce, CompetingInductive, TypeInvInductive, PTL DEF Spec

-----------------------------------------------------------------------------
(* What the caller is told, whatever locks are lost and reads fail.        *)

Undecided(r) == r.status \notin {"succeed", "failed"}

Report(t, r) ==
  r.status \in {"succeed", "failed"} =>
    \E e \in Envelopes(t) \cap mined : r.status = IF e.payload \in Reverts THEN "failed" ELSE "succeed"

\* No copy in a manager's hands is of a reported row, however old the copy is.
Unsettled(m) == Undecided(tx[m]) /\ \A t \in Txs : Undecided(snap[m][t])

ReportInv == receipts \subseteq mined /\ ReportIsMined /\ \A m \in Managers : Unsettled(m)

\* A step writes nothing, or one row that is not completed, and a true report.
ReportStep ==
  \/ rows' = rows
  \/ \E t \in Txs, r \in Row : ~IsCompleted(rows[t]) /\ Report(t, r) /\ rows' = [rows EXCEPT ![t] = r]

\* The moves put away reported copies.
LEMMA MovesUnsettled ==
  ASSUME LocalType, \A k \in Managers : Unsettled(k), NEW m \in Managers, NEW t \in Txs
  PROVE  /\ \A l : Continue(m, t, l) => \A k \in Managers : Unsettled(k)'
         /\ Fail(m, t) => \A k \in Managers : Unsettled(k)'
         /\ LeaveLane(m) => \A k \in Managers : Unsettled(k)'
         /\ \A r, l, p, stage : WorkOn(m, t, r, l, p, stage) /\ Undecided(r) => \A k \in Managers : Unsettled(k)'
<1>1. Undecided(AbsentRow)
  BY DEF AbsentRow, Undecided
<1>2. \A u \in Txs : Undecided(EmptyBatch[u])
  BY <1>1, Zenon DEF EmptyBatch
<1>3. ASSUME NEW l, Continue(m, t, l) PROVE \A k \in Managers : Unsettled(k)'
  BY <1>1, <1>3, Zenon DEF Continue, LocalType, Unsettled, Undecided
<1>4. ASSUME Fail(m, t) \/ LeaveLane(m) PROVE \A k \in Managers : Unsettled(k)'
  BY <1>1, <1>2, <1>4, Zenon DEF Fail, LeaveLane, LocalType, Unsettled, Undecided
<1>5. ASSUME NEW r, NEW l, NEW p, NEW stage, WorkOn(m, t, r, l, p, stage), Undecided(r)
      PROVE  \A k \in Managers : Unsettled(k)'
  BY <1>1, <1>5, Zenon DEF WorkOn, LocalType, Unsettled, Undecided
<1> QED BY <1>3, <1>4, <1>5, Zenon

\* UpdateIfActive leaves completed rows alone.
LEMMA ReportedSave ==
  ASSUME NEW t \in Txs, NEW r \in Row, rows' = UpdateIfActive(t, r), Report(t, r)
  PROVE  ReportStep
BY Zenon DEF UpdateIfActive, ReportStep, Active, IsCompleted, ActiveStatuses, TerminalStatuses

\* A write that ends a step.
LEMMA SavesReport ==
  ASSUME LocalType, \A k \in Managers : Unsettled(k), NEW m \in Managers, NEW t \in Txs, NEW r \in Row, NEW l,
         Report(t, r), SaveAndContinue(m, t, r, l) \/ SaveAndLeave(m, t, r, l)
  PROVE  ReportStep /\ (\A k \in Managers : Unsettled(k)') /\ attempts' = attempts
<1>1. rows' = UpdateIfActive(t, r) /\ attempts' = attempts
  BY Zenon DEF SaveAndContinue, SaveAndLeave
<1>2. \A k \in Managers : Unsettled(k)'
  BY MovesUnsettled, Zenon DEF SaveAndContinue, SaveAndLeave
<1> QED BY <1>1, <1>2, ReportedSave, Zenon

\* What the row transitions make of an undecided copy.
LEMMA ReportTransitions ==
  ASSUME receipts \subseteq mined, NEW t \in Txs, NEW r \in Row, Undecided(r)
  PROVE  /\ Undecided(scheduleNextCheck(t, r)) /\ Undecided(abandonTransaction(r))
         /\ \A e : ReceiptFound(t, e) => Report(t, finalizeTransaction(r, e))
<1>1. Undecided(scheduleNextCheck(t, r)) /\ Undecided(abandonTransaction(r))
  BY Zenon DEF Undecided, scheduleNextCheck, abandonTransaction, Row
<1>2. ASSUME NEW e, ReceiptFound(t, e) PROVE Report(t, finalizeTransaction(r, e))
  <2>1. finalizeTransaction(r, e).status = IF e.payload \in Reverts THEN "failed" ELSE "succeed"
    BY Zenon DEF finalizeTransaction, Row
  <2> QED BY <1>2, <2>1, Zenon DEF Report, ReceiptFound
<1> QED BY <1>1, <1>2, Zenon

LEMMA UndecidedReports ==
  ASSUME NEW t, NEW r, Undecided(r)
  PROVE  Report(t, r)
BY Zenon DEF Report, Undecided

\* Undecided goes with the status, which the other fields do not touch.
LEMMA UndecidedFields ==
  ASSUME NEW r \in Row, Undecided(r)
  PROVE  /\ \A e \in Envelope, b \in BOOLEAN, x \in Envelope \cup {None} :
              LET q == [r EXCEPT !.env = e, !.pending = b, !.rejected = x] IN q \in Row /\ Undecided(q)
         /\ \A b \in BOOLEAN, x \in Envelope \cup {None} :
              LET q == [r EXCEPT !.pending = b, !.rejected = x] IN q \in Row /\ Undecided(q)
         /\ LET q == [r EXCEPT !.consumed = TRUE, !.pending = FALSE, !.rejected = None] IN q \in Row /\ Undecided(q)
         /\ LET q == [r EXCEPT !.nonce = None, !.pending = FALSE] IN q \in Row /\ Undecided(q)
         /\ LET q == [r EXCEPT !.nonce = None] IN q \in Row /\ Undecided(q)
         /\ \A rep : AfterFailure(r, rep) \in Row /\ Undecided(AfterFailure(r, rep))
<1>1. ASSUME NEW e \in Envelope, NEW b \in BOOLEAN, NEW x \in Envelope \cup {None}
      PROVE  LET q == [r EXCEPT !.env = e, !.pending = b, !.rejected = x] IN q \in Row /\ Undecided(q)
  BY <1>1, Zenon DEF Row, Undecided
<1>2. ASSUME NEW b \in BOOLEAN, NEW x \in Envelope \cup {None}
      PROVE  LET q == [r EXCEPT !.pending = b, !.rejected = x] IN q \in Row /\ Undecided(q)
  BY <1>2, Zenon DEF Row, Undecided
<1>3. LET q == [r EXCEPT !.consumed = TRUE, !.pending = FALSE, !.rejected = None] IN q \in Row /\ Undecided(q)
  BY Zenon DEF Row, Undecided
<1>4. LET q == [r EXCEPT !.nonce = None, !.pending = FALSE] IN q \in Row /\ Undecided(q)
  BY Zenon DEF Row, Undecided
<1>5. LET q == [r EXCEPT !.nonce = None] IN q \in Row /\ Undecided(q)
  BY Zenon DEF Row, Undecided
<1>6. ASSUME NEW rep PROVE AfterFailure(r, rep) \in Row /\ Undecided(AfterFailure(r, rep))
  <2>1. AfterFailure(r, rep) \in Row
    BY FailureIsRow, Zenon
  <2>2. AfterFailure(r, rep).status = r.status
    BY Zenon DEF AfterFailure, Row
  <2> QED BY <2>1, <2>2, Zenon DEF Undecided
<1> QED BY <1>1, <1>2, <1>3, <1>4, <1>5, <1>6, Zenon

\* What a step of a manager has to show.
Tells == ReportStep /\ (\A k \in Managers : Unsettled(k)') /\ \A t \in Txs : Envelopes(t) \subseteq Envelopes(t)'

\* A save of the transitions of an undecided copy.
LEMMA SavesTell ==
  ASSUME TypeInv, ReportInv, NEW m \in Managers, NEW t \in Txs, NEW r \in Row, Undecided(r), NEW l
  PROVE  /\ SaveAndContinue(m, t, scheduleNextCheck(t, r), l) => Tells
         /\ SaveAndContinue(m, t, abandonTransaction(r), l) => Tells
         /\ SaveAndLeave(m, t, abandonTransaction(r), l) => Tells
         /\ \A e \in Envelopes(t) : ReceiptFound(t, e) /\ SaveAndContinue(m, t, finalizeTransaction(r, e), l) => Tells
<1>1. LocalType /\ StoreType /\ receipts \subseteq mined /\ \A k \in Managers : Unsettled(k)
  BY Zenon DEF TypeInv, ReportInv
<1>2. ASSUME NEW q \in Row, Report(t, q), SaveAndContinue(m, t, q, l) \/ SaveAndLeave(m, t, q, l) PROVE Tells
  BY <1>1, <1>2, SavesReport, AttemptsStay, Zenon DEF Tells
<1>3. \A q \in Row : Undecided(q) => Report(t, q)
  BY UndecidedReports, Zenon
<1>4. Envelopes(t) \subseteq Envelope
  BY <1>1, AttemptsAreEnvelopes, Zenon
<1> QED BY <1>1, <1>2, <1>3, <1>4, ReportTransitions, RowTransitions, Zenon

LEMMA ReconciliationTells ==
  ASSUME TypeInv, ReportInv, NEW m \in Managers, NEW t \in Txs, NEW r \in Row, Undecided(r), NEW l, NEW tip,
         RetryReconciliation(m, t, r, l) \/ reconcileRejectedSubmission(m, t, r, l, tip)
  PROVE  Tells
<1>1. Envelopes(t) \subseteq Envelope
  BY AttemptsAreEnvelopes, Zenon DEF TypeInv
<1>2. CASE RetryReconciliation(m, t, r, l)
  BY <1>2, SavesTell, Zenon DEF RetryReconciliation
<1>3. CASE RejectedIsKnown(m, t, r, l)
  <2>1. PICK e \in Envelopes(t) :
          SaveAndContinue(m, t, scheduleNextCheck(t, [r EXCEPT !.env = e, !.pending = FALSE, !.rejected = None]), l)
    BY <1>3, Zenon DEF RejectedIsKnown
  <2>2. [r EXCEPT !.env = e, !.pending = FALSE, !.rejected = None] \in Row
        /\ Undecided([r EXCEPT !.env = e, !.pending = FALSE, !.rejected = None])
    BY <1>1, UndecidedFields, Zenon
  <2> QED BY <2>1, <2>2, SavesTell, Zenon
<1>4. CASE ReleaseRejected(m, t, r, l, tip)
  BY <1>4, UndecidedFields, SavesTell, Zenon DEF ReleaseRejected
<1>5. CASE RejectedIsConsumed(m, t, r, l)
  BY <1>5, UndecidedFields, SavesTell, Zenon DEF RejectedIsConsumed
<1> QED BY <1>2, <1>3, <1>4, <1>5, Zenon DEF reconcileRejectedSubmission

\* A copy repaired from its attempts is undecided.
LEMMA RepairedUndecided ==
  ASSUME TypeInv, ReportInv, NEW m \in Managers, NEW t \in Txs
  PROVE  Repaired(m, t) \in Row /\ Undecided(Repaired(m, t))
<1>1. snap[m][t] \in Row /\ Undecided(snap[m][t]) /\ Repaired(m, t) \in Row
  BY LoadedRow, Zenon DEF TypeInv, ReportInv, Unsettled
<1>2. Repaired(m, t).status \in {snap[m][t].status, "confirming"}
  BY <1>1, Zenon DEF Repaired, Row
<1> QED BY <1>1, <1>2, Zenon DEF Undecided

\* rescheduleTransaction writes no report.
LEMMA RescheduledReports ==
  ASSUME TypeInv, NEW t \in Txs, rows' \in {rows, UpdateIfActive(t, rescheduled(t))}
  PROVE  ReportStep
<1>1. rows[t] \in Row /\ rescheduled(t) \in Row
  BY StoredRows, Zenon DEF TypeInv, StoreType
<1>2. CASE Active(rows[t])
  <2>1. Undecided(rescheduled(t))
    BY <1>1, <1>2, Zenon DEF rescheduled, Undecided, Active, ActiveStatuses, Row
  <2> QED BY <1>1, <2>1, UndecidedReports, ReportedSave, Zenon DEF ReportStep
<1>3. CASE ~Active(rows[t])
  BY <1>3, Zenon DEF UpdateIfActive, ReportStep
<1> QED BY <1>2, <1>3, Zenon

\* The steps of a batch.
LEMMA ProcessRowTells ==
  ASSUME TypeInv, ReportInv, NEW m \in Managers, NEW t \in Txs, ProcessRow(m, t)
  PROVE  Tells
<1> DEFINE r == Repaired(m, t)
<1>1. /\ LocalType /\ StoreType /\ \A k \in Managers : Unsettled(k)
      /\ r \in Row /\ Undecided(r) /\ Envelopes(t) \subseteq Envelope
  BY RepairedUndecided, AttemptsAreEnvelopes, Zenon DEF TypeInv, ReportInv
<1> HIDE DEF r
<1>2. CASE RecoverLegacy(m, t)
  <2>1. PICK e : Inserts(m, t, e)
    BY <1>2, SigningInserts, Zenon
  <2>2. rows' = rows /\ tx' = tx /\ snap' = [snap EXCEPT ![m][t].pending = TRUE]
    BY <1>2, Zenon DEF RecoverLegacy
  <2>3. \A k \in Managers, u \in Txs : snap'[k][u].status = snap[k][u].status
    BY <1>1, <2>2, SMTT(20) DEF LocalType, Row
  <2>4. \A k \in Managers : Unsettled(k)'
    BY <1>1, <2>2, <2>3, Zenon DEF Unsettled, Undecided
  <2> QED BY <2>1, <2>2, <2>4, AttemptsGrow, Zenon DEF Tells, ReportStep
<1>3. CASE FinalizeReceipt(m, t)
  BY <1>1, <1>3, SavesTell, Zenon DEF FinalizeReceipt, r
<1>4. CASE ParkUnprocessable(m, t)
  BY <1>1, <1>4, RescheduledReports, MovesUnsettled, AttemptsStay, Zenon DEF ParkUnprocessable, Tells
<1>5. CASE ResumeReconciliation(m, t)
  BY <1>1, <1>5, ReconciliationTells, Zenon DEF ResumeReconciliation, r
<1>6. CASE pollConsumedNonce(m, t) \/ Defer(m, t)
  BY <1>1, <1>6, SavesTell, Zenon DEF pollConsumedNonce, Defer, r
<1>7. CASE ExpireUnsigned(m, t)
  BY <1>1, <1>7, UndecidedFields, SavesTell, Zenon DEF ExpireUnsigned, r
<1>8. CASE ResumeBroadcast(m, t) \/ BeginAttempt(m, t)
  <2>1. UNCHANGED <<rows, attempts>> /\ \E l, p, stage : WorkOn(m, t, r, l, p, stage)
    BY <1>8, Zenon DEF ResumeBroadcast, BeginAttempt, storeVars, r
  <2> QED BY <1>1, <2>1, MovesUnsettled, AttemptsStay, Zenon DEF Tells, ReportStep
<1>9. CASE AssignNonce(m, t)
  <2> DEFINE q(n) == [r EXCEPT !.nonce = n, !.status = "processing"]
  <2>1. PICK n \in 0..MaxNonce :
          /\ rows' = UpdateIfActive(t, q(n)) /\ attempts' = attempts
          /\ \/ \E l, p : WorkOn(m, t, q(n), l, p, "sign")
             \/ Continue(m, t, lane[m])
             \/ Fail(m, t)
    BY <1>9, Zenon DEF AssignNonce, r
  <2>2. n \in Nat
    BY TxManagerAssumptions
  <2>3. q(n) \in Row /\ Undecided(q(n))
    BY <1>1, <2>2, Zenon DEF Row, ActiveStatuses, Undecided
  <2> HIDE DEF q
  <2>4. ReportStep
    BY <2>1, <2>3, UndecidedReports, ReportedSave, Zenon
  <2> QED BY <1>1, <2>1, <2>3, <2>4, MovesUnsettled, AttemptsStay, Zenon DEF Tells
<1>10. CASE AwaitNodeNonce(m, t)
  BY <1>1, <1>10, MovesUnsettled, AttemptsStay, Zenon DEF AwaitNodeNonce, Tells, ReportStep
<1> QED BY <1>2, <1>3, <1>4, <1>5, <1>6, <1>7, <1>8, <1>9, <1>10, Zenon DEF ProcessRow

\* The steps of an attempt.
LEMMA AttemptTells ==
  ASSUME TypeInv, ReportInv, NEW m \in Managers,
         \/ SignAttempt(m) \/ RecordAttempt(m) \/ Broadcast(m)
         \/ Accepted(m) \/ Unconfirmed(m) \/ RecordRejection(m) \/ ReconcileRejection(m)
  PROVE  Tells
<1> DEFINE t == cur[m]
<1>1. LocalType /\ StoreType /\ CopyType /\ \A k \in Managers : Unsettled(k)
  BY Zenon DEF TypeInv, ReportInv
<1>2. t \in Txs /\ tx[m] \in Row /\ Undecided(tx[m])
  BY <1>1, Zenon DEF SignAttempt, RecordAttempt, Broadcast, Accepted, Unconfirmed, RecordRejection,
         ReconcileRejection, CopyType, LocalType, Unsettled
<1>3. CASE SignAttempt(m)
  <2>1. rows' = rows /\ \A u \in Txs : Envelopes(u) \subseteq Envelopes(u)'
    BY <1>2, <1>3, SigningInserts, AttemptsGrow, AttemptsStay, Zenon DEF SignAttempt
  <2>2. \/ Fail(m, t)
        \/ \E e, l, p : WorkOn(m, t, [tx[m] EXCEPT !.env = e, !.status = "confirming", !.pending = TRUE,
                                                   !.rejected = None], l, p, "record")
    BY <1>3, Zenon DEF SignAttempt
  <2>3. \A e : Undecided([tx[m] EXCEPT !.env = e, !.status = "confirming", !.pending = TRUE, !.rejected = None])
    BY <1>2, Zenon DEF Row, Undecided
  <2>4. \A k \in Managers : Unsettled(k)'
    BY <1>1, <1>2, <2>2, <2>3, MovesUnsettled, Zenon
  <2> QED BY <2>1, <2>4, Zenon DEF Tells, ReportStep
<1>4. CASE RecordAttempt(m)
  <2>1. rows' = UpdateIfActive(t, tx[m]) /\ attempts' = attempts
    BY <1>4, Zenon DEF RecordAttempt
  <2>2. GoTo(m, "send") => \A k \in Managers : Unsettled(k)'
    BY <1>1, Zenon DEF GoTo, Unsettled
  <2>3. \A k \in Managers : Unsettled(k)'
    BY <1>1, <1>2, <1>4, <2>2, MovesUnsettled, Zenon DEF RecordAttempt
  <2> QED BY <1>2, <2>1, <2>3, UndecidedReports, ReportedSave, AttemptsStay, Zenon DEF Tells
<1>5. CASE Broadcast(m)
  <2>1. UNCHANGED <<rows, attempts, tx, snap>>
    BY <1>5, Zenon DEF Broadcast, storeVars
  <2> QED BY <1>1, <2>1, AttemptsStay, Zenon DEF Tells, ReportStep, Unsettled
<1>6. CASE Accepted(m)
  BY <1>2, <1>6, UndecidedFields, SavesTell, Zenon DEF Accepted
<1>7. CASE Unconfirmed(m)
  BY <1>2, <1>7, UndecidedFields, SavesTell, Zenon DEF Unconfirmed
<1>8. CASE RecordRejection(m)
  <2> DEFINE f == AfterFailure(tx[m], reply[m])
             q == scheduleNextCheck(t, [f EXCEPT !.pending = FALSE, !.rejected = tx[m].env])
  <2>1. f \in Row /\ Undecided(f)
    BY <1>2, UndecidedFields, Zenon
  <2> HIDE DEF f
  <2>2. tx[m].env \in Envelope \cup {None} /\ FALSE \in BOOLEAN
    BY <1>2, Zenon DEF Row
  <2>3. [f EXCEPT !.pending = FALSE, !.rejected = tx[m].env] \in Row
        /\ Undecided([f EXCEPT !.pending = FALSE, !.rejected = tx[m].env])
    BY <2>1, <2>2, UndecidedFields, Zenon
  <2>4. q \in Row /\ Undecided(q)
    BY <1>2, <2>3, RowTransitions, ReportTransitions, Zenon DEF ReportInv
  <2> HIDE DEF q
  <2>5. /\ rows' = UpdateIfActive(t, q) /\ attempts' = attempts
        /\ \/ \E l, p : WorkOn(m, t, q, l, p, "reconcile")
           \/ Continue(m, t, lane[m])
           \/ Fail(m, t)
    BY <1>8, Zenon DEF RecordRejection, f, q
  <2> QED BY <1>1, <1>2, <2>4, <2>5, UndecidedReports, ReportedSave, MovesUnsettled, AttemptsStay, Zenon
       DEF Tells
<1>9. CASE ReconcileRejection(m)
  BY <1>2, <1>9, SavesTell, ReconciliationTells, Zenon DEF ReconcileRejection
<1> QED BY <1>3, <1>4, <1>5, <1>6, <1>7, <1>8, <1>9, Zenon

\* Taking and leaving the lane.
LEMMA LaneTells ==
  ASSUME TypeInv, ReportInv, NEW m \in Managers,
         \/ LockLane(m) \/ UnlockLane(m) \/ StepError(m)
         \/ Reschedule(m) \/ Crash(m) \/ LoseLock(m)
  PROVE  Tells
<1>1. LocalType /\ StoreType /\ CopyType /\ \A k \in Managers : Unsettled(k)
  BY Zenon DEF TypeInv, ReportInv
<1>2. attempts' = attempts
  BY Zenon DEF LockLane, UnlockLane, StepError, Reschedule, Crash, LoseLock, storeVars
<1>3. CASE LockLane(m)
  <2>1. PICK due \in SUBSET LaneWork :
          snap' = [snap EXCEPT ![m] = [t \in Txs |-> IF t \in due THEN rows[t] ELSE AbsentRow]]
    BY <1>3, Zenon DEF LockLane
  <2>2. \A t \in LaneWork : Undecided(rows[t])
    BY DEF LaneWork, Active, ActiveStatuses, Undecided
  <2>3. Undecided(AbsentRow)
    BY DEF AbsentRow, Undecided
  <2>4. \A k \in Managers : Unsettled(k)'
    BY <1>1, <1>3, <2>1, <2>2, <2>3, Zenon DEF LockLane, LocalType, Unsettled
  <2> QED BY <1>2, <1>3, <2>4, AttemptsStay, Zenon DEF LockLane, Tells, ReportStep
<1>4. CASE LoseLock(m)
  BY <1>1, <1>2, <1>4, AttemptsStay, Zenon DEF LoseLock, localVars, Tells, ReportStep, Unsettled
<1>5. ASSUME LeaveLane(m) \/ \E t \in Txs : Fail(m, t) PROVE \A k \in Managers : Unsettled(k)'
  <2>1. ASSUME LeaveLane(m) PROVE \A k \in Managers : Unsettled(k)'
    <3>1. Undecided(AbsentRow) /\ \A u \in Txs : Undecided(EmptyBatch[u])
      BY DEF AbsentRow, Undecided, EmptyBatch
    <3> QED BY <1>1, <2>1, <3>1, Zenon DEF LeaveLane, LocalType, Unsettled
  <2> QED BY <1>1, <1>5, <2>1, MovesUnsettled, Zenon
<1>6. CASE UnlockLane(m) \/ Crash(m)
  BY <1>2, <1>5, <1>6, AttemptsStay, Zenon DEF UnlockLane, Crash, Tells, ReportStep
<1>7. CASE StepError(m)
  <2>1. rows' = rows /\ \E t \in Txs : Fail(m, t)
    BY <1>1, <1>7, Zenon DEF StepError, storeVars, CopyType
  <2> QED BY <1>2, <1>5, <2>1, AttemptsStay, Zenon DEF Tells, ReportStep
<1>8. CASE Reschedule(m)
  <2>1. cur[m] \in Txs
    BY <1>1, <1>8, Zenon DEF Reschedule, CopyType
  <2> QED BY <1>2, <1>5, <1>8, <2>1, RescheduledReports, AttemptsStay, Zenon DEF Reschedule, Tells
<1> QED BY <1>3, <1>4, <1>6, <1>7, <1>8, Zenon

\* ReportInv is inductive, and completed rows stay, whatever is lost.
LEMMA ReportInvInductive ==
  /\ Init => ReportInv
  /\ TypeInv /\ ReportInv /\ [Next]_vars => ReportInv' /\ ReportStep
<1>1. ASSUME Init PROVE ReportInv
  <2>1. /\ receipts = {}
        /\ rows = [t \in Txs |-> IF t \in DOMAIN Legacy THEN LegacyRow(Legacy[t]) ELSE AbsentRow]
        /\ \A m \in Managers : tx[m] = AbsentRow /\ \A t \in Txs : snap[m][t] = AbsentRow
    BY <1>1, Zenon DEF Init, NodeInit, EmptyBatch
  <2>2. Undecided(AbsentRow) /\ \A e : Undecided(LegacyRow(e))
    BY DEF AbsentRow, LegacyRow, Undecided
  <2>3. ReportIsMined
    BY <2>1, <2>2, Zenon DEF ReportIsMined, Undecided
  <2> QED BY <2>1, <2>2, <2>3, Zenon DEF ReportInv, Unsettled
<1>2. ASSUME TypeInv, ReportInv, [Next]_vars PROVE ReportInv' /\ ReportStep
  <2>1. mined \subseteq mined' /\ receipts' \subseteq mined'
    <3>1. CASE UNCHANGED nodeVars
      BY <1>2, <3>1, Zenon DEF nodeVars, ReportInv
    <3>2. CASE Network
      BY <1>2, <3>2, Zenon DEF Network, Mine, ForeignMine, MineEnvelope, Publish, Propagate, Evict, ReportInv
    <3>3. ASSUME NEW m \in Managers, Broadcast(m) PROVE mined \subseteq mined' /\ receipts' \subseteq mined'
      BY <1>2, <3>3, Zenon DEF Broadcast, SendTransaction, ReportInv
    <3>4. ASSUME NEW m \in Managers, Manage(m) PROVE UNCHANGED nodeVars \/ Broadcast(m)
      BY <1>2, <3>4, SettlingFrame, EndingFrame, StartingFrame, Zenon
         DEF TypeInv, Manage, ProcessRow, Ending, Settling, RecoverLegacy, SignAttempt, RecordAttempt,
             LockLane, LoseLock
    <3>5. ASSUME UNCHANGED vars \/ Quiescent \/ \E t \in Txs : SendTxAsync(t) \/ Age(t) \/ Elapse(t)
          PROVE  UNCHANGED nodeVars
      BY <3>5, Zenon DEF vars, Quiescent, SendTxAsync, Age, Elapse
    <3> QED BY <1>2, <3>1, <3>2, <3>3, <3>4, <3>5, Zenon DEF Next
  <2>2. ASSUME Tells PROVE ReportInv' /\ ReportStep
    <3>1. rows \in [Txs -> Row]
      BY <1>2, Zenon DEF TypeInv, StoreType
    <3>2. \A t \in Txs : Report(t, rows'[t])
      BY <1>2, <2>2, <3>1, Zenon DEF Tells, ReportStep, ReportInv, ReportIsMined, Report
    <3>3. ReportIsMined'
      BY <2>1, <2>2, <3>2, Zenon DEF Tells, Report, ReportIsMined
    <3> QED BY <2>1, <2>2, <3>3, Zenon DEF ReportInv, Tells
  <2>3. ASSUME NEW m \in Managers, Manage(m) PROVE Tells
    BY <1>2, <2>3, ProcessRowTells, AttemptTells, LaneTells, Zenon DEF Manage
  <2>4. ASSUME Network \/ Quiescent \/ UNCHANGED vars \/ \E t \in Txs : SendTxAsync(t) \/ Age(t) \/ Elapse(t)
        PROVE  Tells
    <3>1. attempts' = attempts /\ \A k \in Managers : Unsettled(k)'
      BY <1>2, <2>4, EnvironmentFrame, Zenon DEF localVars, ReportInv, Unsettled
    <3>2. ASSUME NEW t \in Txs, SendTxAsync(t) PROVE ReportStep
      <4> DEFINE q == [AbsentRow EXCEPT !.status = "pending", !.sender = "self"]
      <4>1. rows[t] = AbsentRow /\ rows' = [rows EXCEPT ![t] = q]
        BY <3>2, Zenon DEF SendTxAsync
      <4>2. q \in Row /\ Undecided(q) /\ ~IsCompleted(AbsentRow)
        BY Zenon DEF AbsentRow, Row, ActiveStatuses, TerminalStatuses, Signers, Undecided, IsCompleted
      <4> HIDE DEF q
      <4> QED BY <4>1, <4>2, UndecidedReports, Zenon DEF ReportStep
    <3>3. (\A t \in Txs : ~SendTxAsync(t)) => rows' = rows
      BY <2>4, Zenon DEF Network, Quiescent, Age, Elapse, vars, storeVars
    <3> QED BY <3>1, <3>2, <3>3, AttemptsStay, Zenon DEF Tells, ReportStep
  <2> QED BY <1>2, <2>2, <2>3, <2>4, Zenon DEF Next
<1> QED BY <1>1, <1>2, Zenon

\* A caller of WaitTxCompleted is told of a success or a failure only if it is in
\* the chain, whatever locks are lost, reads fail or rows are of the old schema.
THEOREM ReportsAreMined == Spec => []ReportIsMined
<1>1. ReportInv => ReportIsMined
  BY Zenon DEF ReportInv
<1> QED BY <1>1, ReportInvInductive, TypeInvInductive, PTL DEF Spec

\* What a caller is told stays: no replica overwrites a completed row, not even
\* one that lost its lock and holds an older copy.
THEOREM CompletedForGood == Spec => CompletionIsFinal
<1>1. TypeInv /\ ReportStep => \A t \in Txs : IsCompleted(rows[t]) => rows'[t] = rows[t]
  BY Zenon DEF ReportStep, TypeInv, StoreType
<1> QED BY <1>1, ReportInvInductive, TypeInvInductive, PTL DEF Spec, CompletionIsFinal
=============================================================================
