-------------------------- MODULE EventIndexerProofs --------------------------
(***************************************************************************)
(* The event indexer, for any callers, channels, contracts and number of   *)
(* registrations: no goroutine meets a closed channel, the map of          *)
(* contracts and the goroutines agree, and nothing survives a Stop.        *)
(***************************************************************************)
EXTENDS EventIndexer, FiniteSetTheorems, TLAPS

RegStages == {"free", "dialed", "run", "deliver", "resubscribe", "exit", "done"}
CallStages == {"idle", "add", "dial", "wait", "shutdown", "join", "stopped"}
Adding == {"add", "dial"}

Regs == [pc : RegStages, key : Keys \cup {None}, chan : Chans \cup {None}, by : Callers \cup {None},
         cancelled : BOOLEAN, sub : {"none", "live", "broken"}, retry : BOOLEAN]
ApiCalls == [pc : CallStages, keys : SUBSET Keys, chan : Chans \cup {None}, slots : SUBSET Slots]

\* A registration that was made has a key, a channel and the caller that made it.
SoundReg(x) ==
  /\ x \in Regs
  /\ x.pc # "free" => x.key \in Keys /\ x.chan \in Chans /\ x.by \in Callers

SoundCall(x) == x \in ApiCalls /\ (x.pc \in Adding => x.chan \in Chans)

TypeInv ==
  /\ mu \in Callers \cup {None}
  /\ stopped \in BOOLEAN
  /\ contracts \in [Keys -> Slots \cup {None}]
  /\ outputs \in [Chans -> Nat]
  /\ closed \in [Chans -> BOOLEAN]
  /\ reg \in [Slots -> Regs] /\ \A r \in Slots : SoundReg(reg[r])
  /\ api \in [Callers -> ApiCalls] /\ \A p \in Callers : SoundCall(api[p])

\* What has been dialed belongs to the AddContract that holds the lock; the keys it
\* still has to dial, and those it has dialed, are all different and not registered.
DialInv ==
  /\ \A p \in Callers : api[p].pc = "dial" => mu = p
  /\ \A r \in Slots : reg[r].pc = "dialed" => mu # None /\ api[mu].pc = "dial" /\ r \in api[mu].slots
  /\ \A p \in Callers : api[p].pc = "add" => api[p].slots = {}
  /\ \A p \in Callers : api[p].pc = "dial" =>
       /\ \A k \in api[p].keys : contracts[k] = None
       /\ \A r \in api[p].slots : /\ reg[r].pc = "dialed" /\ reg[r].chan = api[p].chan
                                  /\ contracts[reg[r].key] = None /\ reg[r].key \notin api[p].keys
       /\ \A r, s \in api[p].slots : reg[r].key = reg[s].key => r = s

\* outputs counts the goroutines that use a channel, which is closed once it had some
\* and has none.
Users(c) == {r \in Slots : Alive(r) /\ reg[r].chan = c}
CountInv ==
  /\ \A c \in Chans : outputs[c] = Cardinality(Users(c))
  /\ \A r \in Slots : reg[r].pc = "done" => closed[reg[r].chan] \/ outputs[reg[r].chan] # 0

\* Nothing is dialed once the indexer is stopped, and nothing runs once Stop has returned.
StopInv ==
  /\ stopped => mu = None
  /\ \A p \in Callers : api[p].pc \in {"join", "stopped"} => stopped
  /\ \A p \in Callers : api[p].pc = "stopped" =>
       watcher \in {"none", "done"} /\ \A r \in Slots : ~Alive(r)

IndexerInv == TypeInv /\ DialInv /\ CountInv /\ StopInv /\ RegisteredIffWatched

\* A closed channel has no users; a channel being passed to AddContract is open, has none
\* yet and is passed once.
OpenInv ==
  /\ \A c \in Chans : closed[c] => outputs[c] = 0
  /\ \A p \in Callers : api[p].pc \in Adding => ~closed[api[p].chan] /\ outputs[api[p].chan] = 0
  /\ \A p, q \in Callers : api[p].pc \in Adding /\ api[q].pc \in Adding /\ api[p].chan = api[q].chan
                              => p = q

-----------------------------------------------------------------------------
(* Steps that neither register, dial nor clean up *)

\* The registrations move between stages of the same kind and are at most cancelled.
RegMove(x, y) ==
  /\ SoundReg(y) /\ y.key = x.key /\ y.chan = x.chan
  /\ \A s \in {"free", "dialed", "done"} : y.pc = s <=> x.pc = s
  /\ ~y.cancelled => ~x.cancelled

Moves == reg' \in [Slots -> Regs] /\ \A r \in Slots : RegMove(reg[r], reg'[r])

\* No call of AddContract begins, goes on or returns.
AddsStay ==
  /\ api' \in [Callers -> ApiCalls]
  /\ \A p \in Callers : /\ SoundCall(api'[p])
                        /\ api'[p].pc \in Adding \/ api[p].pc \in Adding => api'[p] = api[p]

\* The goroutine of a registration lives on exactly when it did before.
LEMMA MovesKeepAlive ==
  ASSUME TypeInv, Moves
  PROVE  /\ \A r \in Slots : Alive(r)' <=> Alive(r)
         /\ \A c \in Chans : Users(c)' = Users(c)
<1>1. ASSUME NEW r \in Slots PROVE Alive(r)' <=> Alive(r)
  <2>1. reg[r].pc \in RegStages /\ reg'[r].pc \in RegStages
    BY Zenon DEF TypeInv, Regs, Moves
  <2>2. /\ reg'[r].pc = "free" <=> reg[r].pc = "free"
        /\ reg'[r].pc = "dialed" <=> reg[r].pc = "dialed"
        /\ reg'[r].pc = "done" <=> reg[r].pc = "done"
    BY Zenon DEF Moves, RegMove
  <2>3. QED BY <2>1, <2>2, Zenon DEF Alive, RegStages
<1>2. \A r \in Slots : reg'[r].chan = reg[r].chan
  BY Zenon DEF Moves, RegMove
<1>3. QED BY <1>1, <1>2, Zenon DEF Users

\* Such a step keeps everything but, perhaps, what is said of a stopped indexer.
LEMMA QuietStep ==
  ASSUME IndexerInv, Moves, AddsStay, UNCHANGED <<mu, contracts, outputs, closed>>,
         stopped' \in BOOLEAN, StopInv'
  PROVE  IndexerInv' /\ (OpenInv => OpenInv')
<1>0. TypeInv /\ DialInv /\ CountInv /\ RegisteredIffWatched
  BY Zenon DEF IndexerInv
<1>1. /\ \A r \in Slots : Alive(r)' <=> Alive(r)
      /\ \A c \in Chans : Users(c)' = Users(c)
  BY <1>0, MovesKeepAlive, Zenon
<1>2. \A r \in Slots : /\ SoundReg(reg'[r])
                       /\ reg'[r].key = reg[r].key /\ reg'[r].chan = reg[r].chan
                       /\ reg'[r].pc = "dialed" <=> reg[r].pc = "dialed"
                       /\ reg'[r].pc = "done" <=> reg[r].pc = "done"
                       /\ ~reg'[r].cancelled => ~reg[r].cancelled
  BY Zenon DEF Moves, RegMove
<1>3. TypeInv'
  BY <1>0, <1>2, Zenon DEF TypeInv, Moves, AddsStay
<1>4. DialInv'
  <2>1. \A p \in Callers : /\ api'[p].pc = "dial" \/ api[p].pc = "dial" => api'[p] = api[p]
                           /\ api'[p].pc = "add" \/ api[p].pc = "add" => api'[p] = api[p]
    BY Zenon DEF AddsStay, Adding
  <2>2. mu \in Callers \cup {None} /\ mu' = mu /\ contracts' = contracts
    BY <1>0, Zenon DEF TypeInv
  <2>3. \A p \in Callers : api[p].pc \in Adding => api[p].slots \subseteq Slots
    BY <1>0, Zenon DEF TypeInv, ApiCalls
  <2>4. \A r \in Slots : reg'[r].pc = "dialed" => mu' # None /\ api'[mu'].pc = "dial" /\ r \in api'[mu'].slots
    BY <1>0, <1>2, <2>1, <2>2 DEF DialInv
  <2>5. \A p \in Callers : api'[p].pc = "dial" =>
          /\ \A k \in api'[p].keys : contracts'[k] = None
          /\ \A r \in api'[p].slots :
               /\ reg'[r].pc = "dialed" /\ reg'[r].chan = api'[p].chan
               /\ contracts'[reg'[r].key] = None /\ reg'[r].key \notin api'[p].keys
          /\ \A r, s \in api'[p].slots : reg'[r].key = reg'[s].key => r = s
    BY <1>0, <1>2, <2>1, <2>2, <2>3 DEF DialInv, Adding
  <2>6. \A p \in Callers : /\ api'[p].pc = "dial" => mu' = p
                           /\ api'[p].pc = "add" => api'[p].slots = {}
    BY <1>0, <2>1, <2>2, Zenon DEF DialInv
  <2>7. QED BY <2>4, <2>5, <2>6, Zenon DEF DialInv
<1>5. CountInv'
  BY <1>0, <1>1, <1>2, Zenon DEF CountInv
<1>6. RegisteredIffWatched'
  <2>1. \A k \in Keys : contracts[k] # None => contracts[k] \in Slots
    BY <1>0, Zenon DEF TypeInv
  <2>2. QED BY <1>0, <1>1, <1>2, <2>1, Zenon DEF RegisteredIffWatched
<1>7. OpenInv => OpenInv'
  BY Zenon DEF OpenInv, AddsStay
<1>8. QED BY <1>3, <1>4, <1>5, <1>6, <1>7, Zenon DEF IndexerInv

\* A step of one registration that keeps its kind of stage.
LEMMA OneMoves ==
  ASSUME IndexerInv, NEW r \in Slots, NEW y, RegMove(reg[r], y), reg' = [reg EXCEPT ![r] = y]
  PROVE  Moves
<1>1. TypeInv BY Zenon DEF IndexerInv
<1>2. reg' \in [Slots -> Regs] /\ reg'[r] = y /\ \A s \in Slots : s # r => reg'[s] = reg[s]
  BY <1>1, Zenon DEF TypeInv, RegMove, SoundReg
<1>3. \A s \in Slots : RegMove(reg[s], reg[s])
  BY <1>1, Zenon DEF TypeInv, RegMove
<1>4. QED BY <1>2, <1>3, Zenon DEF Moves

\* Cancelling registrations is such a step for all of them.
LEMMA CancelMoves ==
  ASSUME IndexerInv, NEW rs, reg' = Cancel(rs)
  PROVE  Moves
<1>1. TypeInv BY Zenon DEF IndexerInv
<1>2. reg' = [r \in Slots |-> reg'[r]]
  BY Zenon DEF Cancel
<1>3. ASSUME NEW r \in Slots PROVE RegMove(reg[r], reg'[r])
  <2>1. SoundReg(reg[r]) BY <1>1, Zenon DEF TypeInv
  <2>2. CASE r \notin rs
    <3>1. reg'[r] = reg[r] BY <2>2, Zenon DEF Cancel
    <3>2. QED BY <2>1, <3>1, Zenon DEF RegMove
  <2>3. CASE r \in rs
    <3>1. reg'[r] = [reg[r] EXCEPT !.cancelled = TRUE] BY <2>3, Zenon DEF Cancel
    <3>2. /\ reg'[r].pc = reg[r].pc /\ reg'[r].key = reg[r].key /\ reg'[r].chan = reg[r].chan
          /\ reg'[r].by = reg[r].by /\ reg'[r].cancelled
          /\ SoundReg(reg'[r])
      BY <2>1, <3>1, Zenon DEF SoundReg, Regs
    <3>3. QED BY <3>2, Zenon DEF RegMove
  <2>4. QED BY <2>2, <2>3, Zenon
<1>4. QED BY <1>2, <1>3, Zenon DEF Moves, RegMove, SoundReg

\* The goroutines' own steps, the end of a context and a broken subscription.
LEMMA GoroutineMoves ==
  ASSUME IndexerInv, NEW r \in Slots,
         \/ Quit(r) \/ TakeRetry(r) \/ Resubscribed(r) \/ ResubscribeFailed(r)
         \/ SubscriptionFailed(r) \/ TakeLog(r) \/ Deliver(r) \/ AfterFunc(r) \/ Break(r)
  PROVE  Moves /\ UNCHANGED <<mu, lifecycle, contracts, outputs, closed, ctxDone, api>>
<1>0. SoundReg(reg[r]) /\ r \in DOMAIN reg
  BY Zenon DEF IndexerInv, TypeInv
<1>1. CASE AfterFunc(r)
  BY <1>1, CancelMoves, Zenon DEF AfterFunc
<1>2. CASE Quit(r)
  <2> DEFINE y == [reg[r] EXCEPT !.pc = "exit", !.cancelled = TRUE, !.sub = "none"]
  <2>1. reg' = [reg EXCEPT ![r] = y]
    BY <1>0, <1>2, Zenon DEF Quit
  <2>2. RegMove(reg[r], y)
    BY <1>0, <1>2, Zenon DEF Quit, RegMove, SoundReg, Regs, RegStages
  <2>3. UNCHANGED <<mu, lifecycle, contracts, outputs, closed, ctxDone, api>>
    BY <1>2, Zenon DEF Quit, Step
  <2> HIDE DEF y
  <2>4. QED BY <2>1, <2>2, <2>3, OneMoves, Zenon
<1>3. CASE TakeRetry(r)
  <2> DEFINE y == [reg[r] EXCEPT !.retry = FALSE, !.pc = IF reg[r].sub = "none" THEN "resubscribe" ELSE "run"]
  <2>1. reg' = [reg EXCEPT ![r] = y]
    BY <1>0, <1>3, Zenon DEF TakeRetry
  <2>2. RegMove(reg[r], y)
    BY <1>0, <1>3, Zenon DEF TakeRetry, Step, RegMove, SoundReg, Regs, RegStages
  <2>3. UNCHANGED <<mu, lifecycle, contracts, outputs, closed, ctxDone, api>>
    BY <1>3, Zenon DEF TakeRetry, Step
  <2> HIDE DEF y
  <2>4. QED BY <2>1, <2>2, <2>3, OneMoves, Zenon
<1>4. CASE Resubscribed(r)
  <2> DEFINE y == [reg[r] EXCEPT !.pc = "run", !.sub = "live"]
  <2>1. reg' = [reg EXCEPT ![r] = y]
    BY <1>0, <1>4, Zenon DEF Resubscribed
  <2>2. RegMove(reg[r], y)
    BY <1>0, <1>4, Zenon DEF Resubscribed, Step, RegMove, SoundReg, Regs, RegStages
  <2>3. UNCHANGED <<mu, lifecycle, contracts, outputs, closed, ctxDone, api>>
    BY <1>4, Zenon DEF Resubscribed, Step
  <2> HIDE DEF y
  <2>4. QED BY <2>1, <2>2, <2>3, OneMoves, Zenon
<1>5. CASE ResubscribeFailed(r) \/ Deliver(r)
  <2> DEFINE y == [reg[r] EXCEPT !.pc = "run"]
  <2>1. reg' = [reg EXCEPT ![r] = y]
    BY <1>0, <1>5, Zenon DEF ResubscribeFailed, Deliver
  <2>2. RegMove(reg[r], y)
    BY <1>0, <1>5, Zenon DEF ResubscribeFailed, Deliver, Step, RegMove, SoundReg, Regs, RegStages
  <2>3. UNCHANGED <<mu, lifecycle, contracts, outputs, closed, ctxDone, api>>
    BY <1>5, Zenon DEF ResubscribeFailed, Deliver, Step
  <2> HIDE DEF y
  <2>4. QED BY <2>1, <2>2, <2>3, OneMoves, Zenon
<1>6. CASE SubscriptionFailed(r)
  <2> DEFINE y == [reg[r] EXCEPT !.sub = "none"]
  <2>1. reg' = [reg EXCEPT ![r] = y]
    BY <1>0, <1>6, Zenon DEF SubscriptionFailed
  <2>2. RegMove(reg[r], y)
    BY <1>0, Zenon DEF RegMove, SoundReg, Regs, RegStages
  <2>3. UNCHANGED <<mu, lifecycle, contracts, outputs, closed, ctxDone, api>>
    BY <1>6, Zenon DEF SubscriptionFailed, Step
  <2> HIDE DEF y
  <2>4. QED BY <2>1, <2>2, <2>3, OneMoves, Zenon
<1>7. CASE TakeLog(r)
  <2> DEFINE y == [reg[r] EXCEPT !.pc = "deliver"]
  <2>1. reg' = [reg EXCEPT ![r] = y]
    BY <1>0, <1>7, Zenon DEF TakeLog
  <2>2. RegMove(reg[r], y)
    BY <1>0, <1>7, Zenon DEF TakeLog, Step, RegMove, SoundReg, Regs, RegStages
  <2>3. UNCHANGED <<mu, lifecycle, contracts, outputs, closed, ctxDone, api>>
    BY <1>7, Zenon DEF TakeLog, Step
  <2> HIDE DEF y
  <2>4. QED BY <2>1, <2>2, <2>3, OneMoves, Zenon
<1>8. CASE Break(r)
  <2> DEFINE y == [reg[r] EXCEPT !.sub = "broken"]
  <2>1. reg' = [reg EXCEPT ![r] = y]
    BY <1>0, <1>8, Zenon DEF Break
  <2>2. RegMove(reg[r], y)
    BY <1>0, Zenon DEF RegMove, SoundReg, Regs, RegStages
  <2>3. UNCHANGED <<mu, lifecycle, contracts, outputs, closed, ctxDone, api>>
    BY <1>8, Zenon DEF Break
  <2> HIDE DEF y
  <2>4. QED BY <2>1, <2>2, <2>3, OneMoves, Zenon
<1>9. QED BY <1>1, <1>2, <1>3, <1>4, <1>5, <1>6, <1>7, <1>8, Zenon

\* A signal from the watcher changes no stage.
LEMMA TickMoves ==
  ASSUME IndexerInv, WatchTick
  PROVE  Moves /\ UNCHANGED <<mu, lifecycle, contracts, outputs, closed, ctxDone, api>>
<1>1. reg' = [r \in Slots |-> reg'[r]]
  BY Zenon DEF WatchTick
<1>2. ASSUME NEW r \in Slots PROVE RegMove(reg[r], reg'[r])
  <2>1. SoundReg(reg[r]) BY Zenon DEF IndexerInv, TypeInv
  <2>2. reg'[r] = reg[r] \/ reg'[r] = [reg[r] EXCEPT !.retry = TRUE]
    BY Zenon DEF WatchTick
  <2>3. QED BY <2>1, <2>2, Zenon DEF RegMove, SoundReg, Regs
<1>3. QED BY <1>1, <1>2, Zenon DEF Moves, WatchTick, RegMove, SoundReg

\* All the quiet actions together.
LEMMA QuietActions ==
  ASSUME IndexerInv,
         \/ \E p \in Callers : Start(p) \/ BeginStop(p) \/ StopLocked(p) \/ StopReturns(p)
                                 \/ RemoveReturns(p) \/ CancelContext(p)
         \/ \E r \in Slots : \/ Quit(r) \/ TakeRetry(r) \/ Resubscribed(r) \/ ResubscribeFailed(r)
                             \/ SubscriptionFailed(r) \/ TakeLog(r) \/ Deliver(r)
                             \/ AfterFunc(r) \/ Break(r)
         \/ WatchTick \/ WatchCancelled \/ WatchShutdown \/ WatchStopped \/ CancelStart
         \/ UNCHANGED vars
  PROVE  IndexerInv' /\ (OpenInv => OpenInv')
<1>0. TypeInv /\ StopInv
  BY Zenon DEF IndexerInv
<1>1. ASSUME UNCHANGED reg PROVE Moves
  BY <1>0, <1>1, Zenon DEF TypeInv, Moves, RegMove
<1>2. ASSUME UNCHANGED api PROVE AddsStay
  BY <1>0, <1>2, Zenon DEF TypeInv, AddsStay
<1>3. ASSUME Moves PROVE \A r \in Slots : Alive(r)' <=> Alive(r)
  BY <1>0, <1>3, MovesKeepAlive, Zenon
<1>4. ASSUME Moves, UNCHANGED <<mu, stopped, watcher, api>> PROVE StopInv'
  BY <1>0, <1>3, <1>4, Zenon DEF StopInv
<1>5. ASSUME NEW p \in Callers, NEW stage \in CallStages \ Adding, api[p].pc \notin Adding,
             api' = [api EXCEPT ![p].pc = stage]
      PROVE  AddsStay /\ api'[p].pc = stage /\ \A q \in Callers : q # p => api'[q] = api[q]
  <2>1. /\ api' \in [Callers -> ApiCalls] /\ api'[p].pc = stage
        /\ \A q \in Callers : q # p => api'[q] = api[q]
    BY <1>0, <1>5, Zenon DEF TypeInv, ApiCalls
  <2>2. QED BY <1>0, <1>5, <2>1, Zenon DEF TypeInv, AddsStay, SoundCall
<1>6. CASE \E p \in Callers : Start(p)
  <2>1. PICK p \in Callers : Start(p) BY <1>6, Zenon
  <2>2. Moves /\ AddsStay /\ UNCHANGED <<mu, contracts, outputs, closed, stopped>>
    BY <1>1, <1>2, <2>1, Zenon DEF Start
  <2>3. StopInv'
    BY <1>0, <1>3, <2>1, <2>2, Zenon DEF StopInv, Start
  <2>4. QED BY <1>0, <2>2, <2>3, QuietStep, Zenon DEF TypeInv
<1>7. CASE \E p \in Callers : BeginStop(p)
  <2>1. PICK p \in Callers : BeginStop(p) BY <1>7, Zenon
  <2>2. /\ Moves /\ UNCHANGED <<mu, contracts, outputs, closed, stopped, watcher>>
        /\ api[p].pc = "idle" /\ api' = [api EXCEPT ![p].pc = "shutdown"]
    BY <1>1, <2>1, Zenon DEF BeginStop, Calls
  <2>3. AddsStay /\ api'[p].pc = "shutdown" /\ \A q \in Callers : q # p => api'[q] = api[q]
    BY <1>5, <2>2, Zenon DEF CallStages, Adding
  <2>4. StopInv'
    BY <1>0, <1>3, <2>2, <2>3, Zenon DEF StopInv
  <2>5. QED BY <1>0, <2>2, <2>3, <2>4, QuietStep, Zenon DEF TypeInv
<1>8. CASE \E p \in Callers : StopLocked(p)
  <2>1. PICK p \in Callers : StopLocked(p) BY <1>8, Zenon
  <2>2. /\ UNCHANGED <<mu, contracts, outputs, closed, watcher>>
        /\ mu = None /\ stopped' = TRUE
        /\ api[p].pc = "shutdown" /\ api' = [api EXCEPT ![p].pc = "join"]
    BY <2>1, Zenon DEF StopLocked, Shutdown
  <2>3. Moves
    BY <1>1, <2>1, CancelMoves, Zenon DEF StopLocked, Shutdown
  <2>4. AddsStay /\ api'[p].pc = "join" /\ \A q \in Callers : q # p => api'[q] = api[q]
    BY <1>5, <2>2, Zenon DEF CallStages, Adding
  <2>5. StopInv'
    BY <1>0, <1>3, <2>2, <2>3, <2>4, Zenon DEF StopInv
  <2>6. QED BY <1>0, <2>2, <2>3, <2>4, <2>5, QuietStep, Zenon DEF TypeInv
<1>9. CASE \E p \in Callers : StopReturns(p)
  <2>1. PICK p \in Callers : StopReturns(p) BY <1>9, Zenon
  <2>2. /\ UNCHANGED <<mu, contracts, outputs, closed, watcher, stopped, reg>>
        /\ watcher \in {"none", "done"} /\ \A r \in Slots : ~Alive(r)
        /\ api[p].pc = "join" /\ api' = [api EXCEPT ![p].pc = "stopped"]
    BY <2>1, Zenon DEF StopReturns
  <2>3. Moves
    BY <1>1, <2>2, Zenon
  <2>4. AddsStay /\ api'[p].pc = "stopped" /\ \A q \in Callers : q # p => api'[q] = api[q]
    BY <1>5, <2>2, Zenon DEF CallStages, Adding
  <2>5. StopInv'
    BY <1>0, <1>3, <2>2, <2>3, <2>4, Zenon DEF StopInv
  <2>6. QED BY <1>0, <2>2, <2>3, <2>4, <2>5, QuietStep, Zenon DEF TypeInv
<1>10. CASE \E p \in Callers : RemoveReturns(p)
  <2>1. PICK p \in Callers : RemoveReturns(p) BY <1>10, Zenon
  <2>2. /\ UNCHANGED <<mu, contracts, outputs, closed, watcher, stopped, reg>>
        /\ api[p].pc = "wait" /\ api' = [api EXCEPT ![p] = Idle]
    BY <2>1, Zenon DEF RemoveReturns, lifecycle
  <2>3. Moves
    BY <1>1, <2>2, Zenon
  <2>4. /\ api' \in [Callers -> ApiCalls] /\ api'[p] = Idle /\ Idle \in ApiCalls
        /\ \A q \in Callers : q # p => api'[q] = api[q]
    BY <1>0, <2>2, Zenon DEF TypeInv, ApiCalls, CallStages, Idle
  <2>5. AddsStay /\ api'[p].pc = "idle"
    BY <1>0, <2>2, <2>4, Zenon DEF AddsStay, TypeInv, SoundCall, Adding, Idle
  <2>6. StopInv'
    BY <1>0, <1>3, <2>2, <2>3, <2>4, <2>5, Zenon DEF StopInv
  <2>7. QED BY <1>0, <2>2, <2>3, <2>5, <2>6, QuietStep, Zenon DEF TypeInv
<1>11. CASE \/ \E p \in Callers : CancelContext(p)
            \/ CancelStart \/ UNCHANGED vars
  <2>1. UNCHANGED <<mu, contracts, outputs, closed, watcher, stopped, reg, api>>
    BY <1>11, Zenon DEF CancelContext, CancelStart, vars, lifecycle
  <2>2. Moves /\ AddsStay
    BY <1>1, <1>2, <2>1, Zenon
  <2>3. QED BY <1>0, <1>4, <2>1, <2>2, QuietStep, Zenon DEF TypeInv
<1>12. CASE WatchTick \/ \E r \in Slots :
              \/ Quit(r) \/ TakeRetry(r) \/ Resubscribed(r) \/ ResubscribeFailed(r)
              \/ SubscriptionFailed(r) \/ TakeLog(r) \/ Deliver(r) \/ AfterFunc(r) \/ Break(r)
  <2>1. Moves /\ UNCHANGED <<mu, lifecycle, contracts, outputs, closed, ctxDone, api>>
    BY <1>12, GoroutineMoves, TickMoves, Zenon
  <2>2. QED BY <1>0, <1>2, <1>4, <2>1, QuietStep, Zenon DEF TypeInv, lifecycle
<1>13. CASE WatchCancelled \/ WatchStopped
  <2>1. /\ UNCHANGED <<mu, contracts, outputs, closed, stopped, reg, api>>
        /\ watcher = "run"
    BY <1>13, Zenon DEF WatchCancelled, WatchStopped
  <2>2. Moves /\ AddsStay
    BY <1>1, <1>2, <2>1, Zenon
  <2>3. StopInv'
    BY <1>0, <1>3, <2>1, <2>2, Zenon DEF StopInv
  <2>4. QED BY <1>0, <2>1, <2>2, <2>3, QuietStep, Zenon DEF TypeInv
<1>14. CASE WatchShutdown
  <2>1. /\ UNCHANGED <<mu, contracts, outputs, closed, api>>
        /\ watcher' = "done" /\ mu = None /\ stopped' = TRUE
    BY <1>14, Zenon DEF WatchShutdown, Shutdown
  <2>2. Moves
    BY <1>1, <1>14, CancelMoves, Zenon DEF WatchShutdown, Shutdown
  <2>3. StopInv'
    BY <1>0, <1>3, <2>1, <2>2, Zenon DEF StopInv
  <2>4. QED BY <1>0, <1>2, <2>1, <2>2, <2>3, QuietStep, Zenon DEF TypeInv
<1>15. QED BY <1>6, <1>7, <1>8, <1>9, <1>10, <1>11, <1>12, <1>13, <1>14, Zenon

-----------------------------------------------------------------------------
(* AddContract, RemoveContract and the end of a goroutine *)

\* While the lock is free nothing is dialed.
LEMMA UnlockedIsUndialed ==
  ASSUME TypeInv, DialInv, mu = None
  PROVE  /\ \A p \in Callers : api[p].pc # "dial"
         /\ \A r \in Slots : reg[r].pc # "dialed"
BY EventIndexerAssumptions, Zenon DEF DialInv

\* A call of AddContract with a channel that may be passed.
LEMMA CallAddStep ==
  ASSUME IndexerInv, NEW p \in Callers, CallAdd(p)
  PROVE  IndexerInv' /\ (~LateSharing /\ OpenInv => OpenInv')
<1>0. TypeInv /\ DialInv /\ CountInv /\ StopInv /\ RegisteredIffWatched
  BY Zenon DEF IndexerInv
<1>1. PICK ks \in Requests, c \in Offered :
        api' = [api EXCEPT ![p] = [pc |-> "add", keys |-> ks, chan |-> c, slots |-> {}]]
  BY Zenon DEF CallAdd
<1>2. /\ UNCHANGED <<mu, stopped, watcher, contracts, outputs, closed, reg>>
      /\ api[p].pc = "idle"
  BY Zenon DEF CallAdd, lifecycle, Calls
<1>3. c \in Chans /\ MayPass(c)
  <2> DEFINE may == {d \in Chans : MayPass(d)}
  <2>1. may # {} => (CHOOSE d \in may : TRUE) \in may
    BY Zenon
  <2>2. c \in may
    BY <2>1, Zenon DEF Offered
  <2>3. QED BY <2>2, Zenon
<1>4. /\ api' \in [Callers -> ApiCalls]
      /\ api'[p] = [pc |-> "add", keys |-> ks, chan |-> c, slots |-> {}]
      /\ \A q \in Callers : q # p => api'[q] = api[q]
  BY <1>0, <1>1, <1>3, EventIndexerAssumptions, Zenon DEF TypeInv, ApiCalls, CallStages
<1>5. api'[p].pc = "add" /\ api'[p].chan = c /\ api'[p].slots = {}
  BY <1>4
<1>6. TypeInv'
  BY <1>0, <1>2, <1>3, <1>4, <1>5, Zenon DEF TypeInv, SoundCall
<1>7. DialInv'
  <2>1. \A q \in Callers : api'[q].pc = "dial" \/ api[q].pc = "dial" => api'[q] = api[q]
    BY <1>2, <1>4, <1>5, Zenon
  <2>2. mu \in Callers \cup {None}
    BY <1>0, Zenon DEF TypeInv
  <2>3. \A q \in Callers : api'[q].pc = "add" => api'[q].slots = {}
    BY <1>0, <1>4, <1>5, Zenon DEF DialInv
  <2>4. QED BY <1>0, <1>2, <2>1, <2>2, <2>3 DEF DialInv
<1>8. CountInv' /\ RegisteredIffWatched'
  BY <1>0, <1>2 DEF CountInv, RegisteredIffWatched, Users, Alive
<1>9. StopInv'
  BY <1>0, <1>2, <1>4, <1>5, Zenon DEF StopInv, Alive
<1>10. ASSUME ~LateSharing, OpenInv PROVE OpenInv'
  <2>1. ~closed[c] /\ outputs[c] = 0 /\ \A q \in Callers : api[q].chan # c
    BY <1>3, <1>10, Zenon DEF MayPass
  <2>2. QED BY <1>2, <1>4, <1>5, <1>10, <2>1 DEF OpenInv
<1>11. QED BY <1>6, <1>7, <1>8, <1>9, <1>10, Zenon DEF IndexerInv

\* AddContract under the lock: refused, or dialing begins.
LEMMA AddLockedStep ==
  ASSUME IndexerInv, NEW p \in Callers, AddLocked(p)
  PROVE  IndexerInv' /\ (OpenInv => OpenInv')
<1>0. TypeInv /\ DialInv /\ CountInv /\ StopInv /\ RegisteredIffWatched
  BY Zenon DEF IndexerInv
<1>1. /\ UNCHANGED <<stopped, watcher, contracts, outputs, closed, reg>>
      /\ api[p].pc = "add" /\ mu = None
  BY Zenon DEF AddLocked, lifecycle
<1>2. CountInv' /\ RegisteredIffWatched'
  BY <1>0, <1>1 DEF CountInv, RegisteredIffWatched, Users, Alive
<1>3. /\ \A q \in Callers : api[q].pc # "dial"
      /\ \A r \in Slots : reg[r].pc # "dialed"
  BY <1>0, <1>1, UnlockedIsUndialed, Zenon
<1>4. CASE AddRefused(api[p].keys)
  <2>1. mu' = mu /\ api' = [api EXCEPT ![p] = Idle]
    BY <1>4, Zenon DEF AddLocked
  <2>2. /\ api' \in [Callers -> ApiCalls] /\ api'[p] = Idle
        /\ \A q \in Callers : q # p => api'[q] = api[q]
    BY <1>0, <2>1, Zenon DEF TypeInv, ApiCalls, CallStages, Idle
  <2>3. api'[p].pc = "idle"
    BY <2>2 DEF Idle
  <2>4. TypeInv'
    BY <1>0, <1>1, <2>1, <2>2, <2>3, Zenon DEF TypeInv, SoundCall, Adding
  <2>5. DialInv' /\ StopInv'
    BY <1>0, <1>1, <1>3, <2>1, <2>2, <2>3, Zenon DEF DialInv, StopInv, Alive
  <2>6. OpenInv => OpenInv'
    BY <1>1, <2>2, <2>3 DEF OpenInv, Adding
  <2>7. QED BY <1>2, <2>4, <2>5, <2>6, Zenon DEF IndexerInv
<1>5. CASE ~AddRefused(api[p].keys)
  <2>1. mu' = p /\ api' = [api EXCEPT ![p].pc = "dial"]
    BY <1>5, Zenon DEF AddLocked
  <2>2. /\ api' \in [Callers -> ApiCalls]
        /\ api'[p].pc = "dial" /\ api'[p].keys = api[p].keys /\ api'[p].chan = api[p].chan
        /\ api'[p].slots = api[p].slots
        /\ \A q \in Callers : q # p => api'[q] = api[q]
    BY <1>0, <2>1, Zenon DEF TypeInv, ApiCalls, CallStages
  <2>3. ~stopped /\ \A k \in api[p].keys : contracts[k] = None
    BY <1>5, Zenon DEF AddRefused
  <2>4. TypeInv'
    BY <1>0, <1>1, <2>1, <2>2, Zenon DEF TypeInv, SoundCall, Adding
  <2>5. api[p].slots = {}
    BY <1>0, <1>1, Zenon DEF DialInv
  <2>6. DialInv'
    BY <1>0, <1>1, <1>3, <2>1, <2>2, <2>3, <2>5 DEF DialInv
  <2>7. StopInv'
    BY <1>0, <1>1, <2>1, <2>2, <2>3, Zenon DEF StopInv
  <2>8. OpenInv => OpenInv'
    BY <1>1, <2>2 DEF OpenInv, Adding
  <2>9. QED BY <1>2, <2>4, <2>6, <2>7, <2>8, Zenon DEF IndexerInv
<1>6. QED BY <1>4, <1>5, Zenon

\* One more chain is subscribed.
LEMMA DialedStep ==
  ASSUME IndexerInv, NEW p \in Callers, Dialed(p)
  PROVE  IndexerInv' /\ (OpenInv => OpenInv')
<1>0. TypeInv /\ DialInv /\ CountInv /\ StopInv /\ RegisteredIffWatched
  BY Zenon DEF IndexerInv
<1>1. /\ UNCHANGED <<mu, stopped, watcher, contracts, outputs, closed>>
      /\ api[p].pc = "dial" /\ mu = p
  BY <1>0, Zenon DEF Dialed, lifecycle, DialInv
<1>2. PICK k \in api[p].keys, r \in Slots :
        /\ reg[r].pc = "free"
        /\ api' = [api EXCEPT ![p].keys = @ \ {k}, ![p].slots = @ \union {r}]
        /\ reg' = [reg EXCEPT ![r] = [Free EXCEPT !.pc = "dialed", !.key = k, !.by = p,
                                                  !.chan = api[p].chan, !.sub = "live"]]
  <2> DEFINE r == CHOOSE s \in Slots : reg[s].pc = "free"
  <2>1. r \in Slots /\ reg[r].pc = "free"
    BY Zenon DEF Dialed
  <2>2. QED BY <2>1, Zenon DEF Dialed
<1>3. /\ k \in Keys /\ api[p].chan \in Chans /\ api[p].slots \subseteq Slots /\ api[p].keys \subseteq Keys
      /\ SoundCall(api[p])
  BY <1>0, <1>1, Zenon DEF TypeInv, SoundCall, ApiCalls, Adding
<1>4. /\ api' \in [Callers -> ApiCalls]
      /\ api'[p].pc = "dial" /\ api'[p].keys = api[p].keys \ {k} /\ api'[p].chan = api[p].chan
      /\ api'[p].slots = api[p].slots \cup {r}
      /\ \A q \in Callers : q # p => api'[q] = api[q]
  <2>1. [api[p] EXCEPT !.keys = @ \ {k}, !.slots = @ \union {r}] \in ApiCalls
    BY <1>0, <1>1, Zenon DEF TypeInv, ApiCalls
  <2>2. api' = [api EXCEPT ![p] = [api[p] EXCEPT !.keys = @ \ {k}, !.slots = @ \union {r}]]
    BY <1>0, <1>2, Zenon DEF TypeInv
  <2>3. api[p] \in ApiCalls
    BY <1>0, Zenon DEF TypeInv
  <2>4. api'[p] = [api[p] EXCEPT !.keys = @ \ {k}, !.slots = @ \union {r}]
    BY <1>0, <2>2, Zenon DEF TypeInv
  <2>5. /\ api'[p].pc = api[p].pc /\ api'[p].keys = api[p].keys \ {k} /\ api'[p].chan = api[p].chan
        /\ api'[p].slots = api[p].slots \cup {r}
    BY <2>3, <2>4, Zenon DEF ApiCalls
  <2>6. QED BY <1>0, <1>1, <2>1, <2>2, <2>5, Zenon DEF TypeInv
<1>5. /\ reg' \in [Slots -> Regs] /\ SoundReg(reg'[r])
      /\ reg'[r].pc = "dialed" /\ reg'[r].key = k /\ reg'[r].chan = api[p].chan
      /\ \A s \in Slots : s # r => reg'[s] = reg[s]
  <2> DEFINE y == [Free EXCEPT !.pc = "dialed", !.key = k, !.by = p, !.chan = api[p].chan, !.sub = "live"]
  <2>1. Free \in Regs
    BY Zenon DEF Free, Regs, RegStages
  <2>2. /\ y \in Regs /\ y.pc = "dialed" /\ y.key = k /\ y.chan = api[p].chan /\ y.by = p
    BY <1>3, <2>1, Zenon DEF Regs, RegStages
  <2> HIDE DEF y
  <2>3. reg' = [reg EXCEPT ![r] = y]
    BY <1>2, Zenon DEF y
  <2>4. QED BY <1>0, <1>3, <2>2, <2>3, Zenon DEF TypeInv, SoundReg
<1>6. TypeInv'
  BY <1>0, <1>1, <1>3, <1>4, <1>5, Zenon DEF TypeInv, SoundCall, Adding
<1>7. \A s \in Slots : Alive(s)' <=> Alive(s)
  BY <1>2, <1>5, Zenon DEF Alive
<1>8. CountInv'
  <2>1. \A s \in Slots : Alive(s) => s # r
    BY <1>2, Zenon DEF Alive
  <2>2. \A c \in Chans : Users(c)' = Users(c)
    BY <1>5, <1>7, <2>1, Zenon DEF Users
  <2>3. \A s \in Slots : reg'[s].pc = "done" => reg[s].pc = "done" /\ reg'[s].chan = reg[s].chan
    BY <1>5, Zenon
  <2>4. QED BY <1>0, <1>1, <2>2, <2>3, Zenon DEF CountInv
<1>9. RegisteredIffWatched'
  <2>1. \A j \in Keys : contracts[j] # None => contracts[j] \in Slots
    BY <1>0, Zenon DEF TypeInv
  <2>2. \A s \in Slots : Alive(s) => reg'[s] = reg[s]
    BY <1>2, <1>5, Zenon DEF Alive
  <2>3. QED BY <1>0, <1>1, <1>7, <2>1, <2>2 DEF RegisteredIffWatched
<1>10. StopInv'
  BY <1>0, <1>1, <1>4, <1>7, Zenon DEF StopInv
<1>11. OpenInv => OpenInv'
  BY <1>1, <1>4 DEF OpenInv, Adding
<1>12. DialInv'
  <2>1. \A q \in Callers : api[q].pc = "dial" => q = p
    BY <1>0, <1>1, Zenon DEF DialInv
  <2>2. \A s \in api[p].slots : s # r /\ reg'[s] = reg[s]
    BY <1>0, <1>1, <1>2, <1>3, <1>5 DEF DialInv
  <2>3. /\ contracts[k] = None /\ \A j \in api[p].keys : contracts[j] = None
        /\ \A s \in api[p].slots : /\ reg[s].pc = "dialed" /\ reg[s].chan = api[p].chan
                                   /\ contracts[reg[s].key] = None /\ reg[s].key \notin api[p].keys
        /\ \A s, u \in api[p].slots : reg[s].key = reg[u].key => s = u
    BY <1>0, <1>1, Zenon DEF DialInv
  <2>4. \A q \in Callers : /\ api'[q].pc = "dial" => mu' = q
                           /\ api'[q].pc = "add" => api'[q].slots = {}
    BY <1>0, <1>1, <1>4 DEF DialInv
  <2>5. \A s \in Slots : reg'[s].pc = "dialed" => mu' # None /\ api'[mu'].pc = "dial" /\ s \in api'[mu'].slots
    BY <1>0, <1>1, <1>4, <1>5, EventIndexerAssumptions, Zenon DEF DialInv
  <2>6. /\ \A j \in api'[p].keys : contracts'[j] = None
        /\ \A s \in api'[p].slots :
             /\ reg'[s].pc = "dialed" /\ reg'[s].chan = api'[p].chan
             /\ contracts'[reg'[s].key] = None /\ reg'[s].key \notin api'[p].keys
        /\ \A s, u \in api'[p].slots : reg'[s].key = reg'[u].key => s = u
    BY <1>1, <1>4, <1>5, <2>2, <2>3
  <2>7. \A q \in Callers : api'[q].pc = "dial" => q = p
    BY <1>4, <2>1, Zenon
  <2>8. QED BY <2>4, <2>5, <2>6, <2>7, Zenon DEF DialInv
<1>13. QED BY <1>6, <1>8, <1>9, <1>10, <1>11, <1>12, Zenon DEF IndexerInv

\* A dial fails and the chains that were subscribed are given up.
LEMMA DialFailedStep ==
  ASSUME IndexerInv, NEW p \in Callers, DialFailed(p)
  PROVE  IndexerInv' /\ (OpenInv => OpenInv')
<1>0. TypeInv /\ DialInv /\ CountInv /\ StopInv /\ RegisteredIffWatched
  BY Zenon DEF IndexerInv
<1>1. /\ UNCHANGED <<stopped, watcher, contracts, outputs, closed>>
      /\ api[p].pc = "dial" /\ mu = p /\ mu' = None
      /\ api' = [api EXCEPT ![p] = Idle]
      /\ reg' = [r \in Slots |-> IF r \in api[p].slots THEN Free ELSE reg[r]]
  BY <1>0, Zenon DEF DialFailed, lifecycle, DialInv
<1>2. /\ api' \in [Callers -> ApiCalls] /\ api'[p] = Idle /\ api'[p].pc = "idle"
      /\ \A q \in Callers : q # p => api'[q] = api[q]
  BY <1>0, <1>1, Zenon DEF TypeInv, ApiCalls, CallStages, Idle
<1>3. /\ Free \in Regs /\ Free.pc = "free" /\ SoundReg(Free)
  BY Zenon DEF Free, Regs, RegStages, SoundReg
<1>4. /\ \A r \in Slots : r \in api[p].slots => reg[r].pc = "dialed" /\ reg'[r] = Free
      /\ \A r \in Slots : r \notin api[p].slots => reg'[r] = reg[r] /\ reg[r].pc # "dialed"
  BY <1>0, <1>1, Zenon DEF DialInv
<1>5. TypeInv'
  BY <1>0, <1>1, <1>2, <1>3, Zenon DEF TypeInv, SoundCall, Adding
<1>6. \A s \in Slots : /\ Alive(s)' <=> Alive(s)
                       /\ Alive(s) \/ reg'[s].pc = "done" => reg'[s] = reg[s]
  BY <1>3, <1>4, Zenon DEF Alive
<1>7. CountInv'
  <2>1. \A c \in Chans : Users(c)' = Users(c)
    BY <1>6, Zenon DEF Users
  <2>2. QED BY <1>0, <1>1, <1>6, <2>1, Zenon DEF CountInv
<1>8. RegisteredIffWatched'
  <2>1. \A j \in Keys : contracts[j] # None => contracts[j] \in Slots
    BY <1>0, Zenon DEF TypeInv
  <2>2. QED BY <1>0, <1>1, <1>6, <2>1, Zenon DEF RegisteredIffWatched
<1>9. StopInv'
  BY <1>0, <1>1, <1>2, <1>6, Zenon DEF StopInv
<1>10. OpenInv => OpenInv'
  BY <1>1, <1>2, Zenon DEF OpenInv, Adding
<1>11. DialInv'
  <2>1. \A q \in Callers : api'[q].pc # "dial" /\ (api'[q].pc = "add" => api'[q].slots = {})
    BY <1>0, <1>1, <1>2, Zenon DEF DialInv
  <2>2. \A r \in Slots : reg'[r].pc # "dialed"
    BY <1>3, <1>4, Zenon
  <2>3. QED BY <2>1, <2>2, Zenon DEF DialInv
<1>12. QED BY <1>5, <1>7, <1>8, <1>9, <1>10, <1>11, Zenon DEF IndexerInv

\* The users of a channel are finitely many, and there are none exactly when outputs is 0.
LEMMA CountedUsers ==
  ASSUME TypeInv, CountInv, NEW c \in Chans
  PROVE  /\ IsFiniteSet(Users(c)) /\ outputs[c] = Cardinality(Users(c)) /\ outputs[c] \in Nat
         /\ outputs[c] = 0 <=> Users(c) = {}
<1>1. Users(c) \subseteq Slots
  BY Zenon DEF Users
<1>2. IsFiniteSet(Users(c))
  BY <1>1, EventIndexerAssumptions, FS_Subset, Zenon
<1>3. outputs[c] = Cardinality(Users(c)) /\ outputs[c] \in Nat
  BY Zenon DEF CountInv, TypeInv
<1>4. QED BY <1>2, <1>3, FS_EmptySet, Zenon

\* Every chain is subscribed and the goroutines start.
LEMMA AddRegistersStep ==
  ASSUME IndexerInv, NEW p \in Callers, AddRegisters(p)
  PROVE  IndexerInv' /\ (OpenInv => OpenInv')
<1>0. TypeInv /\ DialInv /\ CountInv /\ StopInv /\ RegisteredIffWatched
  BY Zenon DEF IndexerInv
<1>s. PICK S : S = api[p].slots BY Zenon
<1>d. PICK d : d = api[p].chan BY Zenon
<1>1. /\ UNCHANGED <<stopped, watcher, closed>>
      /\ api[p].pc = "dial" /\ mu = p /\ mu' = None
      /\ api' = [api EXCEPT ![p] = Idle]
      /\ reg' = [r \in Slots |-> IF r \in S THEN [reg[r] EXCEPT !.pc = "run"] ELSE reg[r]]
      /\ contracts' = [k \in Keys |-> IF \E r \in S : reg[r].key = k
                                      THEN CHOOSE r \in S : reg[r].key = k
                                      ELSE contracts[k]]
      /\ outputs' = [outputs EXCEPT ![d] = @ + Cardinality(S)]
  BY <1>0, <1>s, <1>d, Zenon DEF AddRegisters, lifecycle, DialInv
<1>2. /\ api' \in [Callers -> ApiCalls] /\ api'[p] = Idle /\ api'[p].pc = "idle"
      /\ \A q \in Callers : q # p => api'[q] = api[q]
  BY <1>0, <1>1, Zenon DEF TypeInv, ApiCalls, CallStages, Idle
<1>3. d \in Chans /\ S \subseteq Slots
  BY <1>0, <1>1, <1>s, <1>d, Zenon DEF TypeInv, SoundCall, ApiCalls, Adding
<1>4. /\ \A r \in S : /\ reg[r].pc = "dialed" /\ reg[r].chan = d
                      /\ contracts[reg[r].key] = None
      /\ \A r, s \in S : reg[r].key = reg[s].key => r = s
      /\ \A r \in Slots : reg[r].pc = "dialed" => r \in S
  BY <1>0, <1>1, <1>s, <1>d, Zenon DEF DialInv
<1>5. \A r \in S : /\ reg'[r] \in Regs /\ SoundReg(reg'[r]) /\ reg[r].key \in Keys
                   /\ reg'[r].pc = "run" /\ reg'[r].chan = d /\ reg'[r].key = reg[r].key
  <2>1. SUFFICES ASSUME NEW r \in S
                 PROVE  /\ reg'[r] \in Regs /\ SoundReg(reg'[r]) /\ reg[r].key \in Keys
                        /\ reg'[r].pc = "run" /\ reg'[r].chan = d /\ reg'[r].key = reg[r].key
    BY Zenon
  <2>2. r \in Slots /\ SoundReg(reg[r]) /\ reg[r].pc = "dialed" /\ reg[r].chan = d
    BY <1>0, <1>3, <1>4, Zenon DEF TypeInv
  <2>3. reg'[r] = [reg[r] EXCEPT !.pc = "run"]
    BY <1>1, <2>2, Zenon
  <2>4. QED BY <2>2, <2>3, Zenon DEF SoundReg, Regs, RegStages
<1>6. \A r \in Slots : r \notin S => reg'[r] = reg[r]
  BY <1>1, Zenon
<1>7. /\ \A r \in S : contracts'[reg[r].key] = r
      /\ \A k \in Keys : \/ contracts'[k] = contracts[k] /\ \A r \in S : reg[r].key # k
                         \/ contracts'[k] \in S /\ reg[contracts'[k]].key = k
  <2>1. ASSUME NEW k \in Keys, NEW r \in S, reg[r].key = k
        PROVE  contracts'[k] = r
    <3>1. (CHOOSE s \in S : reg[s].key = k) = r
      BY <1>4, <2>1, Zenon
    <3>2. QED BY <1>1, <2>1, <3>1, Zenon
  <2>2. ASSUME NEW k \in Keys, \A r \in S : reg[r].key # k
        PROVE  contracts'[k] = contracts[k]
    BY <1>1, <2>2, Zenon
  <2>3. QED BY <1>5, <2>1, <2>2, Zenon
<1>8. IsFiniteSet(S) /\ Cardinality(S) \in Nat
  BY <1>3, EventIndexerAssumptions, FS_Subset, FS_CardinalityType, Zenon
<1>9. TypeInv'
  <2>1. reg' \in [Slots -> Regs] /\ \A r \in Slots : SoundReg(reg'[r])
    BY <1>0, <1>1, <1>5, <1>6, Zenon DEF TypeInv
  <2>2. contracts' \in [Keys -> Slots \cup {None}]
    BY <1>0, <1>1, <1>3, <1>7 DEF TypeInv
  <2>3. outputs' \in [Chans -> Nat]
    <3>1. outputs \in [Chans -> Nat] BY <1>0, Zenon DEF TypeInv
    <3>2. outputs[d] + Cardinality(S) \in Nat BY <1>3, <1>8, <3>1
    <3>3. QED BY <1>1, <3>1, <3>2, Zenon
  <2>4. QED BY <1>0, <1>1, <1>2, <2>1, <2>2, <2>3, Zenon DEF TypeInv, SoundCall, Adding
<1>10. /\ \A r \in Slots : Alive(r)' <=> Alive(r) \/ r \in S
       /\ \A r \in S : ~Alive(r)
  BY <1>4, <1>5, <1>6, Zenon DEF Alive
<1>11. CountInv'
  <2>1. ASSUME NEW c \in Chans, c # d PROVE outputs'[c] = Cardinality(Users(c)')
    <3>1. Users(c)' = Users(c)
      BY <1>3, <1>4, <1>5, <1>6, <1>10, <2>1 DEF Users
    <3>2. outputs'[c] = outputs[c]
      BY <1>0, <1>1, <2>1, Zenon DEF TypeInv
    <3>3. QED BY <1>0, <3>1, <3>2, Zenon DEF CountInv
  <2>2. outputs'[d] = Cardinality(Users(d)')
    <3>1. Users(d)' = Users(d) \cup S
      BY <1>3, <1>5, <1>6, <1>10, Zenon DEF Users
    <3>2. Users(d) \cap S = {}
      BY <1>10, Zenon DEF Users
    <3>3. Cardinality(Users(d) \cup S) = Cardinality(Users(d)) + Cardinality(S)
      <4>1. IsFiniteSet(Users(d)) /\ Cardinality(Users(d)) \in Nat
        BY <1>0, <1>3, CountedUsers, Zenon
      <4>2. Cardinality(Users(d) \cap S) = 0
        BY <3>2, FS_EmptySet, Zenon
      <4>3. Cardinality(Users(d) \cup S)
               = Cardinality(Users(d)) + Cardinality(S) - Cardinality(Users(d) \cap S)
        BY <1>8, <4>1, FS_Union, Zenon
      <4>4. QED BY <1>8, <4>1, <4>2, <4>3
    <3>4. outputs'[d] = outputs[d] + Cardinality(S)
      BY <1>0, <1>1, <1>3, Zenon DEF TypeInv
    <3>5. QED BY <1>0, <1>3, <3>1, <3>3, <3>4, Zenon DEF CountInv
  <2>3. ASSUME NEW r \in Slots, reg'[r].pc = "done"
        PROVE  closed'[reg'[r].chan] \/ outputs'[reg'[r].chan] # 0
    <3>1. reg'[r] = reg[r] /\ reg[r].chan \in Chans
      BY <1>0, <1>5, <1>6, <2>3, Zenon DEF TypeInv, SoundReg
    <3>2. closed[reg[r].chan] \/ outputs[reg[r].chan] # 0
      BY <1>0, <2>3, <3>1, Zenon DEF CountInv
    <3>3. outputs[reg[r].chan] \in Nat /\ (outputs'[reg[r].chan] = outputs[reg[r].chan]
                                           \/ outputs'[reg[r].chan] = outputs[reg[r].chan] + Cardinality(S))
      BY <1>0, <1>1, <3>1, Zenon DEF TypeInv
    <3>4. QED BY <1>1, <1>8, <3>1, <3>2, <3>3
  <2>4. QED BY <2>1, <2>2, <2>3, Zenon DEF CountInv
<1>12. RegisteredIffWatched'
  <2>1. ASSUME NEW k \in Keys, contracts'[k] # None
        PROVE  Alive(contracts[k])' /\ reg'[contracts'[k]].key = k
    <3>0. PICK r : r = contracts'[k] BY Zenon
    <3>1. CASE r \in S /\ reg[r].key = k
      <4>1. Alive(r)' /\ reg'[r].key = k
        BY <1>3, <1>5, <1>10, <3>1, Zenon
      <4>2. QED BY <3>0, <4>1, Zenon DEF Alive
    <3>2. CASE contracts'[k] = contracts[k]
      <4>1. r \in Slots /\ Alive(r) /\ reg[r].key = k
        BY <1>0, <2>1, <3>0, <3>2 DEF TypeInv, RegisteredIffWatched
      <4>2. reg'[r] = reg[r]
        BY <1>6, <1>10, <4>1, Zenon
      <4>3. Alive(r)' /\ reg'[r].key = k
        BY <1>10, <4>1, <4>2, Zenon
      <4>4. QED BY <3>0, <4>3, Zenon DEF Alive
    <3>3. QED BY <1>7, <3>0, <3>1, <3>2, Zenon
  <2>2. ASSUME NEW r \in Slots, Alive(r)', ~reg'[r].cancelled
        PROVE  contracts'[reg'[r].key] = r
    <3>1. CASE r \in S
      BY <1>5, <1>7, <3>1, Zenon
    <3>2. CASE r \notin S
      <4>1. reg'[r] = reg[r] /\ Alive(r)
        BY <1>6, <1>10, <2>2, <3>2, Zenon
      <4>2. contracts[reg[r].key] = r /\ reg[r].key \in Keys
        BY <1>0, <2>2, <4>1, Zenon DEF RegisteredIffWatched, TypeInv, SoundReg, Alive
      <4>3. \A s \in S : reg[s].key # reg[r].key
        BY <1>4, <4>2, EventIndexerAssumptions
      <4>4. QED BY <1>7, <4>1, <4>2, <4>3, Zenon
    <3>3. QED BY <3>1, <3>2, Zenon
  <2>3. QED BY <2>1, <2>2, Zenon DEF RegisteredIffWatched
<1>13. StopInv'
  <2>1. ~stopped
    BY <1>0, <1>1, EventIndexerAssumptions, Zenon DEF StopInv
  <2>2. QED BY <1>0, <1>1, <1>2, <2>1, Zenon DEF StopInv
<1>14. DialInv'
  <2>1. \A q \in Callers : api'[q].pc # "dial" /\ (api'[q].pc = "add" => api'[q].slots = {})
    BY <1>0, <1>1, <1>2, Zenon DEF DialInv
  <2>2. \A r \in Slots : reg'[r].pc # "dialed"
    BY <1>4, <1>5, <1>6, Zenon
  <2>3. QED BY <2>1, <2>2, Zenon DEF DialInv
<1>15. ASSUME OpenInv PROVE OpenInv'
  <2>1. api[p].pc \in Adding /\ ~closed[d] /\ \A q \in Callers : q # p /\ api[q].pc \in Adding => api[q].chan # d
    BY <1>1, <1>15, <1>d, Zenon DEF OpenInv, Adding
  <2>2. \A c \in Chans : c # d => outputs'[c] = outputs[c]
    BY <1>0, <1>1, Zenon DEF TypeInv
  <2>3. \A q \in Callers : api'[q].pc \in Adding => q # p /\ api'[q] = api[q] /\ api[q].chan \in Chans
    BY <1>0, <1>2, Zenon DEF Adding, TypeInv, SoundCall
  <2>4. QED BY <1>1, <1>15, <2>1, <2>2, <2>3 DEF OpenInv
<1>16. QED BY <1>9, <1>11, <1>12, <1>13, <1>14, <1>15, Zenon DEF IndexerInv

\* RemoveContract: what is no longer registered is cancelled.
LEMMA RemoveLockedStep ==
  ASSUME IndexerInv, NEW p \in Callers, RemoveLocked(p)
  PROVE  IndexerInv' /\ (OpenInv => OpenInv')
<1>0. TypeInv /\ DialInv /\ CountInv /\ StopInv /\ RegisteredIffWatched
  BY Zenon DEF IndexerInv
<1>1. /\ UNCHANGED <<mu, stopped, watcher, outputs, closed>>
      /\ api[p].pc = "idle" /\ mu = None
  BY Zenon DEF RemoveLocked, lifecycle, Calls
<1>2. PICK removed \in SUBSET Keys, slots \in SUBSET (Slots \cup {None}) :
        /\ slots = {contracts[k] : k \in removed} /\ \A k \in removed : contracts[k] # None
        /\ contracts' = [k \in Keys |-> IF k \in removed THEN None ELSE contracts[k]]
        /\ reg' = Cancel(slots)
        /\ api' = [api EXCEPT ![p] = [Idle EXCEPT !.pc = "wait", !.slots = slots]]
  <2>1. PICK chainIDs \in SUBSET {k.chain : k \in Keys}, address \in {k.address : k \in Keys} :
          LET removed == {k \in Keys : /\ contracts[k] # None
                                       /\ k.address = address
                                       /\ chainIDs = {} \/ k.chain \in chainIDs}
              slots == {contracts[k] : k \in removed}
          IN  /\ contracts' = [k \in Keys |-> IF k \in removed THEN None ELSE contracts[k]]
              /\ reg' = Cancel(slots)
              /\ api' = [api EXCEPT ![p] = [Idle EXCEPT !.pc = "wait", !.slots = slots]]
    BY Zenon DEF RemoveLocked
  <2> DEFINE removed == {k \in Keys : /\ contracts[k] # None
                                      /\ k.address = address
                                      /\ chainIDs = {} \/ k.chain \in chainIDs}
             slots == {contracts[k] : k \in removed}
  <2>2. removed \in SUBSET Keys /\ \A k \in removed : contracts[k] # None
    BY Zenon
  <2>3. /\ contracts' = [k \in Keys |-> IF k \in removed THEN None ELSE contracts[k]]
        /\ reg' = Cancel(slots)
        /\ api' = [api EXCEPT ![p] = [Idle EXCEPT !.pc = "wait", !.slots = slots]]
    BY <2>1, Zenon
  <2>4. slots = {contracts[k] : k \in removed} /\ slots \in SUBSET (Slots \cup {None})
    BY <1>0, Zenon DEF TypeInv
  <2> HIDE DEF removed, slots
  <2>5. QED BY <2>2, <2>3, <2>4, Zenon
<1>3. Moves
  BY <1>2, CancelMoves, Zenon
<1>4. slots \subseteq Slots
  BY <1>0, <1>2, Zenon DEF TypeInv
<1>5. /\ api' \in [Callers -> ApiCalls] /\ api'[p].pc = "wait"
      /\ \A q \in Callers : q # p => api'[q] = api[q]
  <2> DEFINE y == [Idle EXCEPT !.pc = "wait", !.slots = slots]
  <2>1. Idle \in ApiCalls
    BY Zenon DEF Idle, ApiCalls, CallStages
  <2>2. y \in ApiCalls /\ y.pc = "wait"
    BY <1>4, <2>1, Zenon DEF ApiCalls, CallStages
  <2> HIDE DEF y
  <2>3. api' = [api EXCEPT ![p] = y]
    BY <1>2, Zenon DEF y
  <2>4. QED BY <1>0, <2>2, <2>3, Zenon DEF TypeInv
<1>6. contracts' \in [Keys -> Slots \cup {None}]
  BY <1>0, <1>2, Zenon DEF TypeInv
<1>7. TypeInv'
  BY <1>0, <1>1, <1>3, <1>5, <1>6, Zenon DEF TypeInv, Moves, RegMove, SoundCall, Adding
<1>8. /\ \A r \in Slots : Alive(r)' <=> Alive(r)
      /\ \A c \in Chans : Users(c)' = Users(c)
      /\ \A r \in Slots : /\ reg'[r].key = reg[r].key /\ reg'[r].chan = reg[r].chan
                          /\ reg'[r].pc = "done" <=> reg[r].pc = "done"
                          /\ reg'[r].pc = "dialed" <=> reg[r].pc = "dialed"
  BY <1>0, <1>3, MovesKeepAlive, Zenon DEF Moves, RegMove
<1>9. CountInv' /\ StopInv'
  BY <1>0, <1>1, <1>5, <1>8, Zenon DEF CountInv, StopInv
<1>10. DialInv'
  <2>1. /\ \A q \in Callers : api[q].pc # "dial"
        /\ \A r \in Slots : reg[r].pc # "dialed"
    BY <1>0, <1>1, UnlockedIsUndialed, Zenon
  <2>2. \A q \in Callers : api'[q].pc # "dial" /\ (api'[q].pc = "add" => api'[q].slots = {})
    BY <1>0, <1>5, <2>1 DEF DialInv
  <2>3. QED BY <1>8, <2>1, <2>2, Zenon DEF DialInv
<1>11. RegisteredIffWatched'
  <2>1. ASSUME NEW k \in Keys, contracts'[k] # None
        PROVE  Alive(contracts[k])' /\ reg'[contracts'[k]].key = k
    <3>1. PICK r : r = contracts'[k] BY Zenon
    <3>2. r = contracts[k] /\ r \in Slots /\ Alive(r) /\ reg[r].key = k
      BY <1>0, <1>2, <2>1, <3>1 DEF TypeInv, RegisteredIffWatched
    <3>3. Alive(r)' /\ reg'[r].key = k
      BY <1>8, <3>2, Zenon
    <3>4. QED BY <3>1, <3>3, Zenon DEF Alive
  <2>2. ASSUME NEW r \in Slots, Alive(r)', ~reg'[r].cancelled
        PROVE  contracts'[reg'[r].key] = r
    <3>1. Alive(r) /\ ~reg[r].cancelled /\ reg[r].key \in Keys
      BY <1>0, <1>3, <1>8, <2>2, Zenon DEF Moves, RegMove, TypeInv, SoundReg, Alive
    <3>2. contracts[reg[r].key] = r
      BY <1>0, <3>1, Zenon DEF RegisteredIffWatched
    <3>3. r \notin slots
      <4>1. SUFFICES ASSUME r \in slots PROVE FALSE BY Zenon
      <4>2. reg'[r] = [reg[r] EXCEPT !.cancelled = TRUE]
        BY <1>2, <4>1, Zenon DEF Cancel
      <4>3. reg'[r].cancelled
        BY <1>0, <4>2, Zenon DEF TypeInv, Regs
      <4>4. QED BY <2>2, <4>3, Zenon
    <3>4. reg[r].key \notin removed
      BY <1>2, <3>2, <3>3, Zenon
    <3>5. QED BY <1>2, <1>8, <3>1, <3>2, <3>4, Zenon
  <2>3. QED BY <2>1, <2>2, Zenon DEF RegisteredIffWatched
<1>12. OpenInv => OpenInv'
  BY <1>1, <1>5, Zenon DEF OpenInv, Adding
<1>13. QED BY <1>7, <1>9, <1>10, <1>11, <1>12, Zenon DEF IndexerInv

\* A goroutine ends: it gives up its registration, unless another has replaced it, and
\* the channel, which it closes if nobody else uses it.
LEMMA CleanupStep ==
  ASSUME IndexerInv, NEW r \in Slots, Cleanup(r)
  PROVE  IndexerInv' /\ (OpenInv => OpenInv')
<1>0. TypeInv /\ DialInv /\ CountInv /\ StopInv /\ RegisteredIffWatched
  BY Zenon DEF IndexerInv
<1>k. PICK key : key = reg[r].key BY Zenon
<1>c. PICK c : c = reg[r].chan BY Zenon
<1>1. /\ UNCHANGED <<mu, stopped, watcher, api>> /\ mu = None
      /\ reg[r].pc = "exit" /\ reg' = [reg EXCEPT ![r].pc = "done"]
      /\ contracts' = IF contracts[key] = r THEN [contracts EXCEPT ![key] = None] ELSE contracts
      /\ outputs' = [outputs EXCEPT ![c] = @ - 1]
      /\ closed' = [closed EXCEPT ![c] = @ \/ outputs[c] = 1]
  BY <1>k, <1>c, Zenon DEF Cleanup, lifecycle
<1>2. key \in Keys /\ c \in Chans /\ SoundReg(reg[r])
  BY <1>0, <1>1, <1>k, <1>c, Zenon DEF TypeInv, SoundReg
<1>3. /\ reg' \in [Slots -> Regs] /\ SoundReg(reg'[r])
      /\ reg'[r].pc = "done" /\ reg'[r].chan = c /\ reg'[r].key = key
      /\ \A s \in Slots : s # r => reg'[s] = reg[s]
  <2> DEFINE y == [reg[r] EXCEPT !.pc = "done"]
  <2>1. /\ y \in Regs /\ y.pc = "done" /\ y.key = key /\ y.chan = c /\ y.by = reg[r].by
    BY <1>2, <1>k, <1>c, Zenon DEF SoundReg, Regs, RegStages
  <2>2. SoundReg(y)
    BY <1>1, <1>2, <2>1, Zenon DEF SoundReg
  <2> HIDE DEF y
  <2>3. reg' = [reg EXCEPT ![r] = y]
    BY <1>0, <1>1, Zenon DEF TypeInv, y
  <2>4. QED BY <1>0, <2>1, <2>2, <2>3, Zenon DEF TypeInv
<1>4. /\ \A s \in Slots : Alive(s)' <=> Alive(s) /\ s # r
      /\ Alive(r)
  BY <1>1, <1>3, Zenon DEF Alive
<1>5. /\ Users(c)' = Users(c) \ {r} /\ r \in Users(c)
      /\ \A d \in Chans : d # c => Users(d)' = Users(d)
  BY <1>3, <1>4, <1>c, Zenon DEF Users
<1>6. /\ outputs[c] \in Nat /\ outputs[c] # 0
      /\ Cardinality(Users(c)') = outputs[c] - 1
  <2>1. IsFiniteSet(Users(c)) /\ outputs[c] = Cardinality(Users(c)) /\ outputs[c] \in Nat /\ outputs[c] # 0
    BY <1>0, <1>2, <1>5, CountedUsers, Zenon
  <2>2. QED BY <1>5, <2>1, FS_RemoveElement, Zenon
<1>7. /\ outputs'[c] = outputs[c] - 1 /\ outputs' \in [Chans -> Nat]
      /\ \A d \in Chans : d # c => outputs'[d] = outputs[d]
  <2>1. outputs \in [Chans -> Nat] /\ outputs[c] - 1 \in Nat
    BY <1>0, <1>6 DEF TypeInv
  <2>2. QED BY <1>1, <1>2, <2>1, Zenon
<1>8. /\ closed' \in [Chans -> BOOLEAN]
      /\ closed'[c] <=> closed[c] \/ outputs[c] = 1
      /\ \A d \in Chans : d # c => closed'[d] = closed[d]
  BY <1>0, <1>1, <1>2, Zenon DEF TypeInv
<1>9. /\ contracts' \in [Keys -> Slots \cup {None}]
      /\ \A k \in Keys : contracts'[k] = contracts[k] \/ (k = key /\ contracts[k] = r /\ contracts'[k] = None)
      /\ contracts[key] = r => contracts'[key] = None
  BY <1>0, <1>1, <1>2, Zenon DEF TypeInv
<1>10. TypeInv'
  BY <1>0, <1>1, <1>3, <1>7, <1>8, <1>9, Zenon DEF TypeInv
<1>11. CountInv'
  <2>1. \A d \in Chans : outputs'[d] = Cardinality(Users(d)')
    BY <1>0, <1>5, <1>6, <1>7, Zenon DEF CountInv
  <2>2. ASSUME NEW s \in Slots, reg'[s].pc = "done"
        PROVE  closed'[reg'[s].chan] \/ outputs'[reg'[s].chan] # 0
    <3>1. closed'[c] \/ outputs'[c] # 0
      BY <1>6, <1>7, <1>8
    <3>2. CASE reg'[s].chan = c
      BY <3>1, <3>2, Zenon
    <3>3. CASE reg'[s].chan # c
      <4>1. s # r /\ reg'[s] = reg[s] /\ reg[s].chan \in Chans
        BY <1>0, <1>3, <2>2, <3>3, Zenon DEF TypeInv, SoundReg
      <4>2. closed[reg[s].chan] \/ outputs[reg[s].chan] # 0
        BY <1>0, <2>2, <4>1, Zenon DEF CountInv
      <4>3. QED BY <1>7, <1>8, <3>3, <4>1, <4>2, Zenon
    <3>4. QED BY <3>2, <3>3, Zenon
  <2>3. QED BY <2>1, <2>2, Zenon DEF CountInv
<1>12. StopInv'
  BY <1>0, <1>1, <1>4, Zenon DEF StopInv
<1>13. DialInv'
  <2>1. /\ \A q \in Callers : api[q].pc # "dial"
        /\ \A s \in Slots : reg[s].pc # "dialed"
    BY <1>0, <1>1, UnlockedIsUndialed, Zenon
  <2>2. QED BY <1>0, <1>1, <1>3, <2>1, Zenon DEF DialInv
<1>14. RegisteredIffWatched'
  <2>1. ASSUME NEW k \in Keys, contracts'[k] # None
        PROVE  Alive(contracts[k])' /\ reg'[contracts'[k]].key = k
    <3>1. PICK s : s = contracts'[k] BY Zenon
    <3>2. s = contracts[k] /\ s \in Slots /\ Alive(s) /\ reg[s].key = k
      BY <1>0, <1>9, <2>1, <3>1 DEF TypeInv, RegisteredIffWatched
    <3>3. s # r
      BY <1>9, <1>k, <2>1, <3>1, <3>2, Zenon
    <3>4. Alive(s)' /\ reg'[s].key = k
      BY <1>3, <1>4, <3>2, <3>3, Zenon
    <3>5. QED BY <3>1, <3>4, Zenon DEF Alive
  <2>2. ASSUME NEW s \in Slots, Alive(s)', ~reg'[s].cancelled
        PROVE  contracts'[reg'[s].key] = s
    <3>1. Alive(s) /\ s # r /\ reg'[s] = reg[s] /\ reg[s].key \in Keys
      BY <1>0, <1>3, <1>4, <2>2, Zenon DEF TypeInv, SoundReg, Alive
    <3>2. contracts[reg[s].key] = s
      BY <1>0, <2>2, <3>1, Zenon DEF RegisteredIffWatched
    <3>3. QED BY <1>9, <3>1, <3>2, Zenon
  <2>3. QED BY <2>1, <2>2, Zenon DEF RegisteredIffWatched
<1>15. ASSUME OpenInv PROVE OpenInv'
  <2>1. \A d \in Chans : closed'[d] => outputs'[d] = 0
    BY <1>6, <1>7, <1>8, <1>15 DEF OpenInv
  <2>2. \A p \in Callers : api[p].pc \in Adding => api[p].chan \in Chans /\ api[p].chan # c
    BY <1>0, <1>6, <1>15, Zenon DEF OpenInv, TypeInv, SoundCall
  <2>3. QED BY <1>1, <1>7, <1>8, <1>15, <2>1, <2>2, Zenon DEF OpenInv
<1>16. QED BY <1>10, <1>11, <1>12, <1>13, <1>14, <1>15, Zenon DEF IndexerInv

-----------------------------------------------------------------------------
(* The theorems *)

\* The invariant holds at the start and every step keeps it.
LEMMA IndexerInductive ==
  /\ Init => IndexerInv /\ OpenInv
  /\ IndexerInv /\ [Next]_vars => IndexerInv' /\ (~LateSharing /\ OpenInv => OpenInv')
<1>1. ASSUME Init PROVE IndexerInv /\ OpenInv
  <2>1. /\ Free \in Regs /\ Free.pc = "free" /\ SoundReg(Free)
        /\ Idle \in ApiCalls /\ Idle.pc = "idle" /\ SoundCall(Idle)
    BY Zenon DEF Free, Regs, RegStages, SoundReg, Idle, ApiCalls, CallStages, SoundCall, Adding
  <2>2. /\ \A r \in Slots : reg[r] = Free /\ reg[r].pc = "free"
        /\ \A p \in Callers : api[p] = Idle /\ api[p].pc = "idle"
    BY <1>1, <2>1, Zenon DEF Init
  <2>3. \A r \in Slots : ~Alive(r)
    BY <2>2, Zenon DEF Alive
  <2>4. TypeInv
    BY <1>1, <2>1, Zenon DEF Init, TypeInv
  <2>5. DialInv /\ StopInv
    BY <1>1, <2>2, Zenon DEF Init, DialInv, StopInv
  <2>6. CountInv
    <3>1. \A c \in Chans : Users(c) = {}
      BY <2>3, Zenon DEF Users
    <3>2. \A c \in Chans : outputs[c] = 0
      BY <1>1, Zenon DEF Init
    <3>3. QED BY <2>2, <3>1, <3>2, FS_EmptySet, Zenon DEF CountInv
  <2>7. RegisteredIffWatched
    BY <1>1, <2>3, Zenon DEF Init, RegisteredIffWatched
  <2>8. OpenInv
    BY <1>1, <2>2, Zenon DEF Init, OpenInv, Adding
  <2>9. QED BY <2>4, <2>5, <2>6, <2>7, <2>8, Zenon DEF IndexerInv
<1>2. ASSUME IndexerInv, [Next]_vars PROVE IndexerInv' /\ (~LateSharing /\ OpenInv => OpenInv')
  <2>1. ASSUME NEW p \in Callers, CallerStep(p)
        PROVE  IndexerInv' /\ (~LateSharing /\ OpenInv => OpenInv')
    BY <1>2, <2>1, QuietActions, CallAddStep, AddLockedStep, DialedStep, DialFailedStep,
       AddRegistersStep, RemoveLockedStep, Zenon DEF CallerStep
  <2>2. ASSUME NEW r \in Slots, Goroutine(r) \/ AfterFunc(r) \/ Break(r)
        PROVE  IndexerInv' /\ (OpenInv => OpenInv')
    BY <1>2, <2>2, QuietActions, CleanupStep, Zenon DEF Goroutine
  <2>3. CASE WatchTick \/ WatchCancelled \/ WatchShutdown \/ WatchStopped \/ CancelStart \/ UNCHANGED vars
    BY <1>2, <2>3, QuietActions, Zenon
  <2>4. QED BY <1>2, <2>1, <2>2, <2>3, Zenon DEF Next
<1>3. QED BY <1>1, <1>2, Zenon

\* The map of contracts and the goroutines of processLogs always agree, however calls,
\* dials, cancellations and clean-ups interleave: for any number of callers,
\* registrations and keys, and even if channels are shared between calls.
THEOREM RegistrationsAreWatched == Spec => []RegisteredIffWatched
<1>1. IndexerInv => RegisteredIffWatched
  BY Zenon DEF IndexerInv
<1>2. QED BY <1>1, IndexerInductive, PTL DEF Spec

\* Once a Stop has returned nothing of the indexer runs or starts again, and every
\* channel that a registration used is closed.
THEOREM StopEndsEverything == Spec => []StopIsFinal
<1>1. ASSUME IndexerInv PROVE StopIsFinal
  <2>1. SUFFICES ASSUME NEW p \in Callers, api[p].pc = "stopped", NEW r \in Slots
                 PROVE  /\ watcher \in {"none", "done"}
                        /\ reg[r].pc \in {"free", "done"}
                        /\ reg[r].pc = "done" => closed[reg[r].chan]
    <3>1. ASSUME NEW p \in Callers, api[p].pc = "stopped" PROVE watcher \in {"none", "done"}
      BY <1>1, <3>1, Zenon DEF IndexerInv, StopInv
    <3>2. QED BY <3>1, Zenon DEF StopIsFinal
  <2>2. /\ watcher \in {"none", "done"} /\ \A s \in Slots : ~Alive(s)
        /\ stopped /\ mu = None
    BY <1>1, <2>1, Zenon DEF IndexerInv, StopInv
  <2>3. reg[r].pc \in {"free", "done"}
    <3>1. reg[r].pc \in RegStages /\ reg[r].pc # "dialed" /\ ~Alive(r)
      BY <1>1, <2>1, <2>2, UnlockedIsUndialed, Zenon DEF IndexerInv, TypeInv, Regs
    <3>2. QED BY <3>1, Zenon DEF RegStages, Alive
  <2>4. ASSUME reg[r].pc = "done" PROVE closed[reg[r].chan]
    <3>1. reg[r].chan \in Chans
      BY <1>1, <2>1, <2>4, Zenon DEF IndexerInv, TypeInv, SoundReg
    <3>2. Users(reg[r].chan) = {}
      BY <2>2, Zenon DEF Users
    <3>3. outputs[reg[r].chan] = 0
      BY <1>1, <3>1, <3>2, CountedUsers, Zenon DEF IndexerInv
    <3>4. QED BY <1>1, <2>4, <3>3, Zenon DEF IndexerInv, CountInv
  <2>5. QED BY <2>2, <2>3, <2>4, Zenon
<1>2. QED BY <1>1, IndexerInductive, PTL DEF Spec

\* As long as no channel is handed to a second AddContract while another call or
\* registration has it, no goroutine of processLogs sends to a closed channel or closes
\* one twice.
THEOREM NoSendOnClosed ==
  ASSUME ~LateSharing
  PROVE  Spec => []ChannelOpenWhileUsed
<1>1. ASSUME IndexerInv, OpenInv PROVE ChannelOpenWhileUsed
  <2>1. SUFFICES ASSUME NEW r \in Slots, Alive(r) PROVE ~closed[reg[r].chan]
    BY Zenon DEF ChannelOpenWhileUsed
  <2>2. reg[r].chan \in Chans /\ r \in Users(reg[r].chan)
    BY <1>1, <2>1, Zenon DEF IndexerInv, TypeInv, SoundReg, Alive, Users
  <2>3. outputs[reg[r].chan] # 0
    BY <1>1, <2>2, CountedUsers, Zenon DEF IndexerInv
  <2>4. QED BY <1>1, <2>2, <2>3, Zenon DEF OpenInv
<1>2. IndexerInv /\ OpenInv /\ [Next]_vars => IndexerInv' /\ OpenInv'
  BY IndexerInductive, Zenon
<1>3. Init => IndexerInv /\ OpenInv
  BY IndexerInductive, Zenon
<1>4. QED BY <1>1, <1>2, <1>3, PTL DEF Spec
=============================================================================
