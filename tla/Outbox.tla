-------------------------------- MODULE Outbox --------------------------------
(***************************************************************************)
(* Terminal rows as a notification outbox.  The publishers of several      *)
(* replicas poll it without a lock: each loads the due rows, calls the     *)
(* status callback with its copy, and records the result.                  *)
(***************************************************************************)
EXTENDS Naturals, FiniteSets

CONSTANTS Txs,
          Intents,                \* rows with an intent, the ones with a consumer
          Publishers,             \* replicas with a status callback
          notificationWorkBatch,
          maxNotificationWorkers,
          MaxAttempts             \* bound on the failures TLC follows

ASSUME OutboxAssumption == Intents \subseteq Txs /\ MaxAttempts \in Nat

VARIABLES terminal,   \* rows with a terminal status
          notified,   \* rows whose NotifiedAt is set
          attempted,  \* NotificationAttempts of each row
          due,        \* rows whose NextNotificationAt has passed
          work,       \* per publisher and row: where its delivery stands
          copy,       \* per publisher and row: NotificationAttempts when loaded
          delivered   \* rows the consumer has received at least once

vars == <<terminal, notified, attempted, due, work, copy, delivered>>

WorkStages == {"none", "loaded", "calling", "ok", "error"}

Init ==
  /\ terminal = {} /\ notified = {} /\ due = {} /\ delivered = {}
  /\ attempted = [t \in Txs |-> 0]
  /\ work = [p \in Publishers |-> [t \in Txs |-> "none"]]
  /\ copy = [p \in Publishers |-> [t \in Txs |-> 0]]

Step(p, t, stage) == work' = [work EXCEPT ![p][t] = stage]

\* Fault: intent-backed rows are acknowledged as well.
persistAcknowledged(t) ==
  /\ t \notin terminal
  /\ terminal' = terminal \cup {t} /\ notified' = notified \cup {t} /\ due' = due \cup {t}
  /\ UNCHANGED <<attempted, work, copy, delivered>>

\* A row without a consumer is acknowledged at once.
persistTerminal(t) ==
  /\ t \notin terminal
  /\ terminal' = terminal \cup {t}
  /\ notified' = IF t \in Intents THEN notified ELSE notified \cup {t}
  /\ due' = due \cup {t}
  /\ UNCHANGED <<attempted, work, copy, delivered>>

Ready == {t \in terminal \cap Intents : t \notin notified /\ t \in due}

\* One batch at a time: the loop waits for its workers.
deliverStatusNotifications(p) ==
  /\ \A t \in Txs : work[p][t] = "none"
  /\ \E batch \in SUBSET Ready :
       /\ Cardinality(batch) <= notificationWorkBatch
       /\ batch = Ready \/ Cardinality(batch) = notificationWorkBatch
       /\ batch # {}
       /\ work' = [work EXCEPT ![p] = [t \in Txs |-> IF t \in batch THEN "loaded" ELSE "none"]]
       /\ copy' = [copy EXCEPT ![p] = [t \in Txs |-> IF t \in batch THEN attempted[t] ELSE 0]]
  /\ UNCHANGED <<terminal, notified, attempted, due, delivered>>

StartWorker(p, t) ==
  /\ work[p][t] = "loaded"
  /\ Cardinality({u \in Txs : work[p][u] \in {"calling", "ok", "error"}}) < maxNotificationWorkers
  /\ Step(p, t, "calling")
  /\ UNCHANGED <<terminal, notified, attempted, due, copy, delivered>>

\* A callback that fails, times out or panics may have reached the consumer.
callStatusCallback(p, t) ==
  /\ work[p][t] = "calling"
  /\ \/ Step(p, t, "ok") /\ delivered' = delivered \cup {t}
     \/ Step(p, t, "error") /\ delivered' \in {delivered, delivered \cup {t}}
  /\ UNCHANGED <<terminal, notified, attempted, due, copy>>

\* Fault: the acknowledgement does not match the row and is dropped.
recordNothing(p, t) ==
  /\ work[p][t] = "ok"
  /\ Step(p, t, "none")
  /\ UNCHANGED <<terminal, notified, attempted, due, copy, delivered>>

\* UpdateNotification: nothing is written once the row is acknowledged, and a
\* write may fail.  A write takes the counter and the schedule from the copy.
recordSuccess(p, t) ==
  /\ work[p][t] = "ok"
  /\ Step(p, t, "none")
  /\ \/ /\ t \notin notified
        /\ notified' = notified \cup {t}
        /\ attempted' = [attempted EXCEPT ![t] = copy[p][t]]
        /\ due' = due \cup {t}
     \/ UNCHANGED <<notified, attempted, due>>
  /\ UNCHANGED <<terminal, copy, delivered>>

\* Fault: the failure is written to an acknowledged row.
recordFailureAlways(p, t) ==
  /\ work[p][t] = "error"
  /\ Step(p, t, "none")
  /\ copy[p][t] < MaxAttempts
  /\ attempted' = [attempted EXCEPT ![t] = copy[p][t] + 1]
  /\ due' = due \ {t}
  /\ UNCHANGED <<terminal, notified, copy, delivered>>

recordFailure(p, t) ==
  /\ work[p][t] = "error"
  /\ Step(p, t, "none")
  /\ \/ /\ t \notin notified /\ copy[p][t] < MaxAttempts
        /\ attempted' = [attempted EXCEPT ![t] = copy[p][t] + 1]
        /\ due' = due \ {t}
     \/ UNCHANGED <<attempted, due>>
  /\ UNCHANGED <<terminal, notified, copy, delivered>>

\* A crash, or a Stop: results that were not recorded are forgotten.
Stop(p) ==
  /\ \E t \in Txs : work[p][t] # "none"
  /\ work' = [work EXCEPT ![p] = [t \in Txs |-> "none"]]
  /\ UNCHANGED <<terminal, notified, attempted, due, copy, delivered>>

\* NextNotificationAt passes.
BackoffEnds(t) ==
  /\ t \in terminal \ due
  /\ due' = due \cup {t}
  /\ UNCHANGED <<terminal, notified, attempted, work, copy, delivered>>

Deliver(p) ==
  \/ deliverStatusNotifications(p)
  \/ \E t \in Txs : \/ StartWorker(p, t) \/ callStatusCallback(p, t)
                    \/ recordSuccess(p, t) \/ recordFailure(p, t)

Acknowledged ==
  /\ terminal = Txs /\ notified = Txs
  /\ \A p \in Publishers, t \in Txs : work[p][t] = "none"
  /\ UNCHANGED vars

Next ==
  \/ \E t \in Txs : persistTerminal(t) \/ BackoffEnds(t)
  \/ \E p \in Publishers : Deliver(p) \/ Stop(p)
  \/ Acknowledged

Spec == Init /\ [][Next]_vars

\* The loops keep polling; of the replicas that load a row, call back and record
\* the result again and again, one gets through each of these in the end.
FairSpec ==
  /\ Spec
  /\ \A p \in Publishers : WF_vars(Deliver(p))
  /\ \A t \in Intents :
       /\ WF_vars(BackoffEnds(t))
       /\ SF_vars(\E p \in Publishers : deliverStatusNotifications(p) /\ work'[p][t] = "loaded")
       /\ SF_vars(\E p \in Publishers : StartWorker(p, t))
       /\ SF_vars(\E p \in Publishers : callStatusCallback(p, t) /\ work'[p][t] = "ok")
       /\ SF_vars(\E p \in Publishers : recordSuccess(p, t) /\ t \in notified')

-----------------------------------------------------------------------------
TypeOK ==
  /\ terminal \subseteq Txs /\ notified \subseteq Txs /\ due \subseteq Txs /\ delivered \subseteq Txs
  /\ attempted \in [Txs -> 0..MaxAttempts]
  /\ work \in [Publishers -> [Txs -> WorkStages]]
  /\ copy \in [Publishers -> [Txs -> 0..MaxAttempts]]

\* A row is acknowledged only after its consumer was told, whichever replica
\* called it and whatever crashed in between (persistTerminal keeps intent-backed
\* rows pending, deliverStatusNotification).
AcknowledgedWasDelivered == notified \cap Intents \subseteq delivered

\* An acknowledged row is left alone by a slower replica that failed to deliver
\* it (UpdateNotification).
AcknowledgementIsFinal ==
  [][\A t \in notified : t \in notified' /\ attempted'[t] = attempted[t]]_vars

\* Every terminal row with an intent is acknowledged in the end: no failed
\* callback, crash or race of two replicas drops it from the outbox.
EventuallyAcknowledged ==
  \A t \in Intents : t \in terminal ~> t \in notified
=============================================================================
