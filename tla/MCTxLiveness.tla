----------------------------- MODULE MCTxLiveness -----------------------------
(***************************************************************************)
(* The transaction manager in an environment that fails finitely often.    *)
(*                                                                         *)
(* A fault is a crash, an RPC or database error, a write or a send whose   *)
(* answer is lost, a fee the node finds too low, and a rejection that      *)
(* could be retried.  After MaxFaults of them every step is calm.          *)
(***************************************************************************)
EXTENDS MCTxManager

CONSTANT MaxFaults
VARIABLE faults

liveVars == <<vars, faults>>

Transient == {"feeRejected", "rejectedRetryable", "ambiguous"}

\* A step in which nothing fails.
Calm ==
  /\ \A m \in Managers :
       /\ pc'[m] = "fail" => pc[m] = "fail"
       /\ reply'[m] \in Transient => reply[m] \in Transient
  /\ UNCHANGED faults

LiveInit == Init /\ faults = 0

CalmStep(m) ==
  /\ \/ LockLane(m) \/ UnlockLane(m)
     \/ \E t \in Txs : ProcessRow(m, t)
     \/ SignAttempt(m) \/ RecordAttempt(m) \/ Broadcast(m) \/ Accepted(m)
     \/ Unconfirmed(m) \/ RecordRejection(m) \/ ReconcileRejection(m)
     \/ Reschedule(m)
  /\ Calm

LiveNext ==
  \/ \E m \in Managers : CalmStep(m)
  \/ UNCHANGED faults /\ (Network \/ Quiescent)
  \/ UNCHANGED faults /\ \E t \in Txs : SendTxAsync(t) \/ Age(t) \/ Elapse(t)
  \/ faults < MaxFaults /\ faults' = faults + 1 /\ \E m \in Managers : Manage(m)

\* The row is due and is selected (FilterReadyBefore: next_action_at passes).
Select(m, t) == LockLane(m) /\ snap'[m][t] # AbsentRow /\ Calm

\* The pass neither waits for a bump that is due nor for the admission hook, and
\* the node's answers are not behind for ever.
Attempt(m, t) == (AssignNonce(m, t) \/ ResumeBroadcast(m, t) \/ BeginAttempt(m, t)) /\ Calm
Conclude(m, t) ==
  /\ ResumeReconciliation(m, t) \/ (cur[m] = t /\ ReconcileRejection(m))
  /\ rows'[t].rejected = None /\ Calm

\* The loops of a manager keep running; what is retried for ever works in the
\* end; the network mines, propagates and publishes, and time passes.
Fairness ==
  /\ \A m \in Managers :
       /\ WF_liveVars(CalmStep(m))
       /\ \A t \in Txs : /\ SF_liveVars(Select(m, t))
                         /\ SF_liveVars(Attempt(m, t))
                         /\ SF_liveVars(Conclude(m, t))
  /\ \A t \in Txs : WF_liveVars(Age(t) /\ UNCHANGED faults) /\ WF_liveVars(Elapse(t) /\ UNCHANGED faults)
  /\ WF_liveVars(Mine /\ UNCHANGED <<storeVars, clockVars, localVars, faults>>)
  /\ WF_liveVars(Publish /\ UNCHANGED <<storeVars, clockVars, localVars, faults>>)
  /\ WF_liveVars(Propagate /\ UNCHANGED <<storeVars, clockVars, localVars, faults>>)

LiveSpec == LiveInit /\ [][LiveNext]_liveVars /\ Fairness

\* Every queued transaction reaches a terminal status, so WaitTxCompleted
\* returns: no row waits for ever for a nonce, a receipt, a replacement or the
\* outcome of a rejection (runLoop, processTransactionStep).
EveryTransactionCompletes ==
  \A t \in Txs : Active(rows[t]) ~> IsCompleted(rows[t])
=============================================================================
