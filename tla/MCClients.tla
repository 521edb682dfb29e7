------------------------------ MODULE MCClients ------------------------------
(***************************************************************************)
(* Three concurrent callers of the clients, two of which ask for rates.    *)
(* For a provider call, a is the caller and b the network.                 *)
(***************************************************************************)
EXTENDS Clients, TLC

Processes == {"a", "b", "c"}

\* One signer's manager, another's, and one whose queue is scoped to the wrong signer
Managers ==
    "a" :> [sender |-> "s", scope |-> "s"] @@ "b" :> [sender |-> "t", scope |-> "t"]
      @@ "c" :> [sender |-> "s", scope |-> "t"]

\* Goroutines run, mutexes and channels are handed over, timers fire, every request is
\* answered or times out and every statement ends.
Progress(p) ==
    \/ Within("calls") /\ ((p = "a" /\ ClientStep) \/ (p = "b" /\ (Reply \/ Break)))
    \/ Within("rates") /\ p \in RateCallers /\ RateStep(p)
    \/ Within("share") /\ p \in Users /\ UserStep(p)
    \/ Within("table") /\ p \in Resolvers /\ TableStep(p)
    \/ Within("submit") /\ p \in Submitters /\ (SendStep(p) \/ WaitReturns(p))

MCSpec == ClientsSpec /\ \A p \in Processes : WF_allVars(Progress(p))

\* What is under way and has to end: a call of a provider (of the process a), of GetRate,
\* GetShareStatistics, ResolveCIK or SendTxAsync, and WaitTxCompleted once a transaction
\* that the caller's queue shows is completed.
Busy(p) ==
    \/ focus = "calls" /\ p = "a" /\ call.pc \notin {"returned", "crashed"}
    \/ focus = "rates" /\ p \in RateCallers /\ caller[p].pc # "idle"
    \/ focus = "share" /\ p \in Users /\ user[p].pc \notin {"ok", "failed"}
    \/ focus = "table" /\ p \in Resolvers /\ resolver[p].pc # "idle"
    \/ focus = "submit" /\ p \in Submitters /\ (Sending(p) \/ Told(p))

\* Every call returns, though it waits for the gate, the mutex, another caller's fetch
\* or another caller's insert, and though the one it waits for fails or is cancelled.
EveryCallReturns == \A p \in Processes : Busy(p) ~> ~Busy(p)
=============================================================================
