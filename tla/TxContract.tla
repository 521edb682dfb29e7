------------------------------ MODULE TxContract ------------------------------
(***************************************************************************)
(* What the transaction manager promises to a caller of SendTxAsync and    *)
(* WaitTxCompleted: a queued transaction executes on chain at most once,   *)
(* its terminal status tells whether it did, and neither changes again.    *)
(***************************************************************************)
EXTENDS Naturals

CONSTANTS Ids,       \* the logical transactions
          Reverting  \* those whose execution fails

VARIABLES outcome,   \* what WaitTxCompleted can observe
          executions \* how often the transaction has executed on chain

vars == <<outcome, executions>>

Init ==
  /\ outcome \in [Ids -> {"absent", "queued"}]
  /\ executions = [i \in Ids |-> 0]

Submit(i) ==
  /\ outcome[i] = "absent"
  /\ outcome' = [outcome EXCEPT ![i] = "queued"]
  /\ UNCHANGED executions

Execute(i) ==
  /\ outcome[i] = "queued" /\ executions[i] = 0
  /\ executions' = [executions EXCEPT ![i] = 1]
  /\ UNCHANGED outcome

Complete(i) ==
  /\ outcome[i] = "queued" /\ executions[i] = 1
  /\ outcome' = [outcome EXCEPT ![i] = IF i \in Reverting THEN "failed" ELSE "succeed"]
  /\ UNCHANGED executions

Abandon(i) ==
  /\ outcome[i] = "queued" /\ executions[i] = 0
  /\ outcome' = [outcome EXCEPT ![i] = "errored"]
  /\ UNCHANGED executions

Next == \E i \in Ids : Submit(i) \/ Execute(i) \/ Complete(i) \/ Abandon(i)

Spec == Init /\ [][Next]_vars
=============================================================================
