---------------------------- MODULE EventIndexer ----------------------------
(***************************************************************************)
(* The event indexer of evm/eventindexer: registrations that each own a    *)
(* goroutine and a log subscription, output channels shared by several     *)
(* registrations, a watcher that signals retries, and the life cycle       *)
(* operations, which any number of callers invoke concurrently.            *)
(*                                                                         *)
(* A registration (a *contractInfo) is a slot of Slots. The mutex i.mu is  *)
(* held over several steps only by AddContract, which dials under it; the  *)
(* other critical sections are single actions that need mu to be free.     *)
(***************************************************************************)
EXTENDS Naturals, FiniteSets

CONSTANTS
    Callers,        \* goroutines of the application that call the indexer
    Roles,          \* caller -> the operations it uses: "start", "stop", "add", "remove"
    Slots,          \* registrations; bounds how many are ever made
    Chans,          \* the application's event channels
    Keys,           \* records [chain, address, events]: getContractKey is injective
    Clients,        \* the chains with a client
    Requests,       \* the sets of keys an AddContract may ask for
    LateSharing,    \* may a channel be passed to a second AddContract?
    None

ASSUME EventIndexerAssumptions ==
    /\ IsFiniteSet(Slots)
    /\ \A ks \in Requests : ks \subseteq Keys
    /\ None \notin Slots /\ None \notin Callers

VARIABLES
    mu,             \* the caller inside AddContract, or None
    started, stopped,
    root,           \* has i.cancel been called?
    runDone,        \* is the context given to Start cancelled?
    watcher,        \* the watch goroutine
    contracts,      \* key -> slot or None
    outputs,        \* channel -> number of registrations using it
    closed,         \* channel -> has the indexer closed it?
    reg,            \* slot -> the contractInfo and its goroutine
    ctxDone,        \* caller -> is the context it passes to AddContract cancelled?
    api             \* caller -> the call it is in

vars == <<mu, started, stopped, root, runDone, watcher, contracts, outputs,
          closed, reg, ctxDone, api>>
lifecycle == <<started, stopped, root, runDone, watcher>>

Free == [pc |-> "free", key |-> None, chan |-> None, by |-> None,
         cancelled |-> FALSE, sub |-> "none", retry |-> FALSE]
Idle == [pc |-> "idle", keys |-> {}, chan |-> None, slots |-> {}]

\* Caller p, in no call, may make a call of this operation.
Calls(p, operation) == api[p].pc = "idle" /\ operation \in Roles[p]
\* A registration's goroutine is running or about to clean up.
Alive(r) == reg[r].pc \in {"run", "deliver", "resubscribe", "exit"}
\* contract.ctx.Err() # nil
Cancelled(r) == reg[r].cancelled \/ ctxDone[reg[r].by]
Cancel(rs) == [r \in Slots |-> IF r \in rs THEN [reg[r] EXCEPT !.cancelled = TRUE]
                                           ELSE reg[r]]
\* contracts[key] for every registered key
Registered == {contracts[k] : k \in Keys} \ {None}

Init ==
    /\ mu = None
    /\ started = FALSE /\ stopped = FALSE /\ root = FALSE /\ runDone = FALSE
    /\ watcher = "none"
    /\ contracts = [k \in Keys |-> None]
    /\ outputs = [c \in Chans |-> 0]
    /\ closed = [c \in Chans |-> FALSE]
    /\ reg = [r \in Slots |-> Free]
    /\ ctxDone = [p \in Callers |-> FALSE]
    /\ api = [p \in Callers |-> Idle]

-----------------------------------------------------------------------------
(* Start, Stop and shutdown *)

Start(p) ==
    /\ Calls(p, "start") /\ mu = None
    /\ ~stopped /\ ~started
    /\ started' = TRUE
    /\ watcher' = "run"
    /\ UNCHANGED <<mu, stopped, root, runDone, contracts, outputs, closed, reg, ctxDone, api>>

\* The part of shutdown under the lock.
Shutdown ==
    /\ mu = None
    /\ stopped' = TRUE
    /\ reg' = IF stopped THEN reg ELSE Cancel(Registered)

\* Fault: Stop does not cancel the root context.
BeginStopWithoutCancel(p) ==
    /\ Calls(p, "stop")
    /\ api' = [api EXCEPT ![p].pc = "shutdown"]
    /\ UNCHANGED <<mu, lifecycle, contracts, outputs, closed, reg, ctxDone>>

\* Stop cancels i.ctx before it asks for the lock.
BeginStop(p) ==
    /\ Calls(p, "stop")
    /\ root' = TRUE
    /\ api' = [api EXCEPT ![p].pc = "shutdown"]
    /\ UNCHANGED <<mu, started, stopped, runDone, watcher, contracts, outputs, closed, reg, ctxDone>>

StopLocked(p) ==
    /\ api[p].pc = "shutdown"
    /\ Shutdown
    /\ api' = [api EXCEPT ![p].pc = "join"]
    /\ UNCHANGED <<mu, started, root, runDone, watcher, contracts, outputs, closed, ctxDone>>

\* wg.Wait: the watcher and every registration's goroutine have ended.
StopReturns(p) ==
    /\ api[p].pc = "join"
    /\ watcher \in {"none", "done"}
    /\ \A r \in Slots : ~Alive(r)
    /\ api' = [api EXCEPT ![p].pc = "stopped"]
    /\ UNCHANGED <<mu, started, stopped, root, runDone, watcher, contracts, outputs, closed, reg, ctxDone>>

-----------------------------------------------------------------------------
(* AddContract *)

\* A call is made with a channel the indexer has not closed. Unless channels are
\* shared late, no other call has used or is using the channel.
MayPass(c) ==
    /\ ~closed[c]
    /\ \/ LateSharing
       \/ outputs[c] = 0 /\ \A q \in Callers : api[q].chan # c

\* Channels that nobody uses are alike, so any of them will do.
Offered ==
    LET may == {c \in Chans : MayPass(c)}
    IN  IF LateSharing \/ may = {} THEN may ELSE {CHOOSE c \in may : TRUE}

CallAdd(p) ==
    /\ Calls(p, "add")
    /\ \E ks \in Requests, c \in Offered :
          /\ Cardinality(ks) <= Cardinality({r \in Slots : reg[r].pc = "free"})
          /\ api' = [api EXCEPT ![p] = [pc |-> "add", keys |-> ks, chan |-> c, slots |-> {}]]
    /\ UNCHANGED <<mu, lifecycle, contracts, outputs, closed, reg, ctxDone>>

\* Fault: a stopped indexer takes registrations.
AddRefusedIfUnknown(ks) == \E k \in ks : k.chain \notin Clients \/ contracts[k] # None

\* Stopped, no client, or already watched on one of the chains.
AddRefused(ks) ==
    stopped \/ \E k \in ks : k.chain \notin Clients \/ contracts[k] # None

AddLocked(p) ==
    /\ api[p].pc = "add" /\ mu = None
    /\ IF AddRefused(api[p].keys)
       THEN api' = [api EXCEPT ![p] = Idle] /\ UNCHANGED mu
       ELSE api' = [api EXCEPT ![p].pc = "dial"] /\ mu' = p
    /\ UNCHANGED <<lifecycle, contracts, outputs, closed, reg, ctxDone>>

\* subscribe succeeds for the next chain.
Dialed(p) ==
    /\ api[p].pc = "dial" /\ \E s \in Slots : reg[s].pc = "free"
    /\ \E k \in api[p].keys :
       LET r == CHOOSE s \in Slots : reg[s].pc = "free"
       IN /\ api' = [api EXCEPT ![p].keys = @ \ {k}, ![p].slots = @ \union {r}]
          /\ reg' = [reg EXCEPT ![r] = [Free EXCEPT !.pc = "dialed", !.key = k, !.by = p,
                                                    !.chan = api[p].chan, !.sub = "live"]]
    /\ UNCHANGED <<mu, lifecycle, contracts, outputs, closed, ctxDone>>

\* subscribe fails: the earlier chains are cancelled and unsubscribed.
DialFailed(p) ==
    /\ api[p].pc = "dial" /\ api[p].keys # {}
    /\ reg' = [r \in Slots |-> IF r \in api[p].slots THEN Free ELSE reg[r]]
    /\ api' = [api EXCEPT ![p] = Idle]
    /\ mu' = None
    /\ UNCHANGED <<lifecycle, contracts, outputs, closed, ctxDone>>

\* Every chain is subscribed: register, start the goroutines and unlock.
AddRegisters(p) ==
    /\ api[p].pc = "dial" /\ api[p].keys = {}
    /\ reg' = [r \in Slots |-> IF r \in api[p].slots THEN [reg[r] EXCEPT !.pc = "run"] ELSE reg[r]]
    /\ contracts' = [k \in Keys |-> IF \E r \in api[p].slots : reg[r].key = k
                                    THEN CHOOSE r \in api[p].slots : reg[r].key = k
                                    ELSE contracts[k]]
    /\ outputs' = [outputs EXCEPT ![api[p].chan] = @ + Cardinality(api[p].slots)]
    /\ api' = [api EXCEPT ![p] = Idle]
    /\ mu' = None
    /\ UNCHANGED <<lifecycle, closed, ctxDone>>

-----------------------------------------------------------------------------
(* RemoveContract *)

\* Fault: what is removed is not cancelled.
RemoveWithoutCancel(p) ==
    /\ Calls(p, "remove") /\ mu = None
    /\ Registered # {}
    /\ contracts' = [k \in Keys |-> None]
    /\ api' = [api EXCEPT ![p] = [Idle EXCEPT !.pc = "wait", !.slots = Registered]]
    /\ UNCHANGED <<mu, lifecycle, outputs, closed, reg, ctxDone>>

\* No chains given means all of them.
RemoveLocked(p) ==
    /\ Calls(p, "remove") /\ mu = None
    /\ \E chainIDs \in SUBSET {k.chain : k \in Keys}, address \in {k.address : k \in Keys} :
          LET removed == {k \in Keys : /\ contracts[k] # None
                                       /\ k.address = address
                                       /\ chainIDs = {} \/ k.chain \in chainIDs}
              slots == {contracts[k] : k \in removed}
          IN  /\ slots # {}
              /\ contracts' = [k \in Keys |-> IF k \in removed THEN None ELSE contracts[k]]
              /\ reg' = Cancel(slots)
              /\ api' = [api EXCEPT ![p] = [Idle EXCEPT !.pc = "wait", !.slots = slots]]
    /\ UNCHANGED <<mu, lifecycle, outputs, closed, ctxDone>>

\* <-contract.done for each removed registration
RemoveReturns(p) ==
    /\ api[p].pc = "wait"
    /\ \A r \in api[p].slots : reg[r].pc = "done"
    /\ api' = [api EXCEPT ![p] = Idle]
    /\ UNCHANGED <<mu, lifecycle, contracts, outputs, closed, reg, ctxDone>>

-----------------------------------------------------------------------------
(* watch *)

WatchTick ==
    /\ watcher = "run" /\ mu = None
    /\ reg' = [r \in Slots |-> IF r \in Registered THEN [reg[r] EXCEPT !.retry = TRUE] ELSE reg[r]]
    /\ UNCHANGED <<mu, lifecycle, contracts, outputs, closed, ctxDone, api>>

\* ctx.Done: the watcher runs shutdown itself.
WatchCancelled ==
    /\ watcher = "run" /\ runDone
    /\ watcher' = "shutdown"
    /\ root' = TRUE
    /\ UNCHANGED <<mu, started, stopped, runDone, contracts, outputs, closed, reg, ctxDone, api>>

WatchShutdown ==
    /\ watcher = "shutdown"
    /\ Shutdown
    /\ watcher' = "done"
    /\ UNCHANGED <<mu, started, root, runDone, contracts, outputs, closed, ctxDone, api>>

WatchStopped ==
    /\ watcher = "run" /\ stopped
    /\ watcher' = "done"
    /\ UNCHANGED <<mu, started, stopped, root, runDone, contracts, outputs, closed, reg, ctxDone, api>>

-----------------------------------------------------------------------------
(* processLogs, the goroutine of registration r *)

Step(r, from) == reg[r].pc = from /\ UNCHANGED <<mu, lifecycle, contracts, outputs, closed, ctxDone, api>>

\* ctx.Done or stop, waiting for input or for the consumer of the channel
Quit(r) ==
    /\ Step(r, reg[r].pc) /\ reg[r].pc \in {"run", "deliver"}
    /\ Cancelled(r) \/ stopped
    /\ reg' = [reg EXCEPT ![r].pc = "exit", ![r].cancelled = TRUE, ![r].sub = "none"]

\* Fault: the signal is taken and nothing is done.
TakeRetryOnly(r) ==
    /\ Step(r, "run") /\ reg[r].retry
    /\ reg' = [reg EXCEPT ![r].retry = FALSE]

TakeRetry(r) ==
    /\ Step(r, "run") /\ reg[r].retry
    /\ reg' = [reg EXCEPT ![r].retry = FALSE,
                          ![r].pc = IF reg[r].sub = "none" THEN "resubscribe" ELSE "run"]

Resubscribed(r) ==
    /\ Step(r, "resubscribe")
    /\ reg' = [reg EXCEPT ![r].pc = "run", ![r].sub = "live"]

ResubscribeFailed(r) ==
    /\ Step(r, "resubscribe")
    /\ reg' = [reg EXCEPT ![r].pc = "run"]

SubscriptionFailed(r) ==
    /\ Step(r, "run") /\ reg[r].sub = "broken"
    /\ reg' = [reg EXCEPT ![r].sub = "none"]

TakeLog(r) ==
    /\ Step(r, "run") /\ reg[r].sub = "live"
    /\ reg' = [reg EXCEPT ![r].pc = "deliver"]

\* The application receives from the channel.
Deliver(r) ==
    /\ Step(r, "deliver")
    /\ reg' = [reg EXCEPT ![r].pc = "run"]

\* Fault: the first goroutine that ends closes the channel.
CleanupClosing(r) ==
    /\ reg[r].pc = "exit" /\ mu = None
    /\ contracts' = [k \in Keys |-> IF contracts[k] = r THEN None ELSE contracts[k]]
    /\ outputs' = [outputs EXCEPT ![reg[r].chan] = @ - 1]
    /\ closed' = [closed EXCEPT ![reg[r].chan] = TRUE]
    /\ reg' = [reg EXCEPT ![r].pc = "done"]
    /\ UNCHANGED <<mu, lifecycle, ctxDone, api>>

\* Fault: the key is deleted whoever holds it now.
CleanupDeletingKey(r) ==
    /\ reg[r].pc = "exit" /\ mu = None
    /\ contracts' = [contracts EXCEPT ![reg[r].key] = None]
    /\ outputs' = [outputs EXCEPT ![reg[r].chan] = @ - 1]
    /\ closed' = [closed EXCEPT ![reg[r].chan] = @ \/ outputs[reg[r].chan] = 1]
    /\ reg' = [reg EXCEPT ![r].pc = "done"]
    /\ UNCHANGED <<mu, lifecycle, ctxDone, api>>

\* The deferred calls after contract.cancel and Unsubscribe: the registration is
\* deleted if it is still this one, the last user closes the channel.
Cleanup(r) ==
    LET key == reg[r].key
        c   == reg[r].chan
    IN  /\ reg[r].pc = "exit" /\ mu = None
        /\ contracts' = IF contracts[key] = r THEN [contracts EXCEPT ![key] = None] ELSE contracts
        /\ outputs' = [outputs EXCEPT ![c] = @ - 1]
        /\ closed' = [closed EXCEPT ![c] = @ \/ outputs[c] = 1]
        /\ reg' = [reg EXCEPT ![r].pc = "done"]
        /\ UNCHANGED <<mu, lifecycle, ctxDone, api>>

-----------------------------------------------------------------------------
(* The environment: contexts and subscriptions *)

\* context.AfterFunc(i.ctx, cancel)
AfterFunc(r) ==
    /\ root /\ ~reg[r].cancelled /\ reg[r].pc \notin {"free", "done"}
    /\ reg' = Cancel({r})
    /\ UNCHANGED <<mu, lifecycle, contracts, outputs, closed, ctxDone, api>>

CancelStart ==
    /\ started /\ ~runDone
    /\ runDone' = TRUE
    /\ UNCHANGED <<mu, started, stopped, root, watcher, contracts, outputs, closed, reg, ctxDone, api>>

CancelContext(p) ==
    /\ "add" \in Roles[p] /\ ~ctxDone[p]
    /\ ctxDone' = [ctxDone EXCEPT ![p] = TRUE]
    /\ UNCHANGED <<mu, lifecycle, contracts, outputs, closed, reg, api>>

Break(r) ==
    /\ reg[r].pc \in {"run", "deliver"} /\ reg[r].sub = "live"
    /\ reg' = [reg EXCEPT ![r].sub = "broken"]
    /\ UNCHANGED <<mu, lifecycle, contracts, outputs, closed, ctxDone, api>>

CallerStep(p) ==
    \/ Start(p) \/ BeginStop(p) \/ StopLocked(p) \/ StopReturns(p)
    \/ CallAdd(p) \/ AddLocked(p) \/ Dialed(p) \/ DialFailed(p) \/ AddRegisters(p)
    \/ RemoveLocked(p) \/ RemoveReturns(p)
    \/ CancelContext(p)

Goroutine(r) ==
    \/ Quit(r) \/ TakeRetry(r) \/ Resubscribed(r) \/ ResubscribeFailed(r)
    \/ SubscriptionFailed(r) \/ TakeLog(r) \/ Deliver(r) \/ Cleanup(r)

Next ==
    \/ \E p \in Callers : CallerStep(p)
    \/ \E r \in Slots : Goroutine(r) \/ AfterFunc(r) \/ Break(r)
    \/ WatchTick \/ WatchCancelled \/ WatchShutdown \/ WatchStopped
    \/ CancelStart

Spec == Init /\ [][Next]_vars

-----------------------------------------------------------------------------
(***************************************************************************)
(* Fairness. Goroutines run, so an enabled step that nothing disables is   *)
(* taken. sync.Mutex starves nobody, and select picks among ready cases at *)
(* random: hence strong fairness for taking the lock and for the ctx.Done  *)
(* and stop cases. A dial returns once its context is cancelled; otherwise *)
(* it may hang. The consumer of a channel need not read.                   *)
(***************************************************************************)
Fairness ==
    /\ \A p \in Callers :
          /\ WF_vars(AddLocked(p) \/ AddRegisters(p) \/ RemoveReturns(p) \/ StopReturns(p))
          /\ WF_vars(DialFailed(p) /\ (root \/ ctxDone[p]))
    /\ \A r \in Slots :
          /\ WF_vars(SubscriptionFailed(r))
          /\ WF_vars(ResubscribeFailed(r) /\ Cancelled(r))
          /\ WF_vars(AfterFunc(r))
    /\ WF_vars(WatchCancelled \/ WatchStopped)
    /\ SF_vars(WatchTick)
    /\ SF_vars(WatchShutdown \/ \E p \in Callers : StopLocked(p))
    /\ SF_vars(\E r \in Slots : Quit(r) \/ Cleanup(r))

LiveSpec == Spec /\ Fairness

\* Additionally: a retry signal is taken and of infinitely many dials to reconnect
\* some succeed.
ReconnectFairness ==
    \A r \in Slots : WF_vars(TakeRetry(r)) /\ SF_vars(Resubscribed(r))

ReconnectSpec == LiveSpec /\ ReconnectFairness

-----------------------------------------------------------------------------
(* Properties *)

\* A goroutine that may still send to its channel, or will still release it, never
\* finds the channel closed: "The indexer closes eventChan when the last registration
\* using it is removed or stops", so neither a send nor the close in processLogs panics.
ChannelOpenWhileUsed == \A r \in Slots : Alive(r) => ~closed[reg[r].chan]

\* The map of contracts and the goroutines agree: a registered key has a living
\* goroutine, and a goroutine whose registration was not cancelled is registered, so
\* that watch reaches it with retries, shutdown and RemoveContract can end it, and
\* AddContract sees the duplicate. In particular an ending goroutine does not delete
\* the registration that replaced its own.
RegisteredIffWatched ==
    /\ \A k \in Keys : contracts[k] # None => Alive(contracts[k]) /\ reg[contracts[k]].key = k
    /\ \A r \in Slots : Alive(r) /\ ~reg[r].cancelled => contracts[reg[r].key] = r

\* Once a Stop has returned, no goroutine of the indexer is left, none can be started
\* by an AddContract that was under way, and every channel that was registered is closed.
StopIsFinal ==
    (\E p \in Callers : api[p].pc = "stopped") =>
        /\ watcher \in {"none", "done"}
        /\ \A r \in Slots : /\ reg[r].pc \in {"free", "done"}
                            /\ reg[r].pc = "done" => closed[reg[r].chan]

\* Stop returns: although AddContract may hold the lock in a dial that hangs, a
\* goroutine may be blocked on a channel nobody reads, and the watcher may be shutting
\* down at the same time.
StopEventuallyReturns ==
    \A p \in Callers : api[p].pc = "shutdown" ~> api[p].pc = "stopped"

\* RemoveContract returns, unless another caller's AddContract keeps the lock for ever
\* in a dial that hangs.
RemoveEventuallyReturns ==
    []<>(mu = None) => \A p \in Callers : api[p].pc = "wait" ~> api[p].pc = "idle"

\* A registration whose subscription failed is subscribed again or ends, once the
\* indexer is started and as long as the lock is not held for ever: no retry signal is
\* lost for good although the signal is dropped when one is already queued.
SubscriptionRestored ==
    []<>(mu = None) =>
        \A r \in Slots : (started /\ reg[r].pc = "run" /\ reg[r].sub = "none")
                            ~> (reg[r].sub = "live" \/ ~Alive(r))
=============================================================================
