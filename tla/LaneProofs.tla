------------------------------ MODULE LaneProofs ------------------------------
(***************************************************************************)
(* The nonces of a lane, for any number of rows, replicas and attempts:    *)
(* one owner each, released from the top only, never assigned above one    *)
(* the network does not hold.  All of it rests on one inductive invariant, *)
(* LaneInv: under the lane lock, every copy a manager works on agrees with *)
(* the store, and its counter is above every assigned nonce.               *)
(***************************************************************************)
EXTENDS TxManagerProofs

Working == {"sign", "record", "send", "reply", "reconcile"}

\* The row's attempts carry its payload and one key, and the latest pays most.
OwnAttempts(t) ==
  \A e \in Envelopes(t) : e.signer = "self" /\ e.payload = Payload[t] /\ e.fee <= Latest(t).fee

\* Until the row is given up its nonce is that of its attempts, and evidence of
\* a rejection names the latest of them.
SoundRow(t, r) ==
  /\ r \in Row /\ r.status # "absent" /\ r.sender = "self"
  /\ r.env # None => r.env \in Envelopes(t)
  /\ r.status # "errored" => \A e \in Envelopes(t) : e.nonce = r.nonce
  /\ Active(r) /\ r.rejected # None => attempts[t] # <<>> /\ r.rejected = Latest(t)

SoundRows ==
  \A t \in Txs : /\ OwnAttempts(t)
                 /\ (rows[t] = AbsentRow /\ attempts[t] = <<>>) \/ SoundRow(t, rows[t])

\* The lane's counter is above every nonce the store has assigned.
Covers(l) == \A n \in AssignedNonces : l.known /\ n < l.next

\* What is left of the batch is as the store has it.
SoundBatch(m) ==
  /\ pc[m] \in {"idle", "fail"} => \A t \in Txs : snap[m][t].status = "absent"
  /\ pc[m] \notin {"idle", "fail"} => Covers(lane[m])
  /\ \A t \in Txs : snap[m][t].status # "absent" => Active(rows[t]) /\ snap[m][t] = rows[t]

\* The copy r of stored row q that a manager works on at some stage, under policy
\* p and with counter l.
SoundCopy(q, r, l, p, stage) ==
  /\ Active(q) /\ Active(r) /\ r.sender = "self"
  /\ r.nonce # None /\ r.nonce = q.nonce
  /\ r.consumed = q.consumed
  /\ p.nonceReleasable => isTip(l, r.nonce)
  /\ stage # "reconcile" => q.rejected = None /\ r.rejected = None
  /\ stage = "reconcile" => q = r

\* What is sent, or was sent, is the latest attempt.
HoldsLatest(t, r) == attempts[t] # <<>> /\ r.env = Latest(t)

SoundWork(m) ==
  pc[m] \in Working => /\ snap[m][cur[m]].status = "absent"
                       /\ SoundCopy(rows[cur[m]], tx[m], lane[m], policy[m], pc[m])
                       /\ pc[m] # "sign" => HoldsLatest(cur[m], tx[m])

LaneInv ==
  /\ SoundRows
  /\ NonceHasOneOwner
  /\ \A m \in Managers : SoundBatch(m) /\ SoundWork(m)

-----------------------------------------------------------------------------
(* A row of the batch, once it is loaded.                                  *)

\* All the facts a step starts from: the copy is the stored row, the attempts
\* repair nothing but its envelope and status, the counter stays, and the row is
\* neither of the old schema nor unprocessable.
LEMMA LoadedFacts ==
  ASSUME TypeInv, LaneInv, NEW m \in Managers, NEW t \in Txs, NextInBatch(m, t)
  PROVE  /\ pc[m] = "batch" /\ Covers(lane[m])
         /\ snap[m][t] = rows[t] /\ Active(rows[t]) /\ SoundRow(t, rows[t])
         /\ rows[t].env # None => attempts[t] # <<>>
         /\ LaneAfterLoad(m, t) = lane[m]
         /\ ~unprocessable(m, t)
<1>1. pc[m] = "batch" /\ snap[m][t].status # "absent"
  BY Zenon DEF NextInBatch, Batch
<1>2. Covers(lane[m]) /\ snap[m][t] = rows[t] /\ Active(rows[t])
  BY <1>1, Zenon DEF LaneInv, SoundBatch
<1>3. SoundRow(t, rows[t]) /\ OwnAttempts(t)
  BY <1>1, <1>2 DEF LaneInv, SoundRows, AbsentRow
<1>4. rows[t].env # None => attempts[t] # <<>>
  BY <1>3 DEF SoundRow, Envelopes
<1>5. attempts[t] # <<>> => /\ Latest(t) \in Envelopes(t) /\ Latest(t).signer = "self"
                            /\ Latest(t).nonce = rows[t].nonce /\ Latest(t).nonce \in Nat
  <2>1. attempts[t] # <<>> => Latest(t) \in Envelopes(t) /\ Latest(t).nonce \in Nat
    BY AttemptsAreEnvelopes, EnvelopeFields, Zenon DEF TypeInv
  <2>2. rows[t].status # "errored"
    BY <1>2, Zenon DEF Active, ActiveStatuses
  <2> QED BY <1>3, <2>1, <2>2, Zenon DEF SoundRow, OwnAttempts
<1>6. LaneAfterLoad(m, t) = lane[m]
  <2>1. CASE attempts[t] # <<>>
    <3>1. rows[t].nonce \in AssignedNonces
      BY <1>3, <1>5, <2>1, TxManagerAssumptions, Zenon DEF SoundRow, AssignedNonces
    <3>2. lane[m].known /\ Latest(t).nonce < lane[m].next /\ lane[m] \in Lane
      BY <1>2, <1>5, <2>1, <3>1, Zenon DEF Covers, TypeInv, LocalType
    <3> QED BY <1>5, <2>1, <3>2 DEF LaneAfterLoad, observe, Lane
  <2>2. CASE attempts[t] = <<>>
    BY <2>2, Zenon DEF LaneAfterLoad
  <2> QED BY <2>1, <2>2, Zenon
<1>7. ~unprocessable(m, t)
  <2>1. Repaired(m, t).sender = "self"
    BY <1>2, <1>3, <1>5, Zenon DEF Repaired, SoundRow, Row
  <2> QED BY <1>2, <1>3, <1>5, <2>1, Zenon DEF unprocessable, SoundRow
<1> QED BY <1>1, <1>2, <1>3, <1>4, <1>6, <1>7, Zenon

\* The repaired copy differs from the stored row in status, envelope and pending.
LEMMA RepairedFacts ==
  ASSUME TypeInv, LaneInv, NEW m \in Managers, NEW t \in Txs, NextInBatch(m, t)
  PROVE  /\ Repaired(m, t) \in Row /\ SoundRow(t, Repaired(m, t)) /\ Active(Repaired(m, t))
         /\ Repaired(m, t).nonce = rows[t].nonce
         /\ Repaired(m, t).rejected = rows[t].rejected
         /\ Repaired(m, t).consumed = rows[t].consumed
         /\ attempts[t] # <<>> => Repaired(m, t).env = Latest(t)
<1> DEFINE r == Repaired(m, t)
<1>1. /\ snap[m][t] = rows[t] /\ Active(rows[t]) /\ SoundRow(t, rows[t])
      /\ rows[t].env # None => attempts[t] # <<>>
  BY LoadedFacts, Zenon
<1>2. r \in Row /\ rows[t] \in Row
  BY <1>1, LoadedRow, Zenon DEF TypeInv, SoundRow
<1>3. CASE attempts[t] = <<>>
  <2>1. r = rows[t]
    BY <1>1, <1>3, Zenon DEF Repaired, SoundRow
  <2> QED BY <1>1, <1>2, <1>3, <2>1, Zenon
<1>4. CASE attempts[t] # <<>>
  <2>1. Latest(t) \in Envelopes(t) /\ Latest(t) \in Envelope
    BY <1>4, AttemptsAreEnvelopes, Zenon DEF TypeInv
  <2>2. rows[t].status # "errored"
    BY <1>1, Zenon DEF Active, ActiveStatuses
  <2>3. \A e \in Envelopes(t) : e.nonce = rows[t].nonce
    BY <1>1, <2>2, Zenon DEF SoundRow
  <2>4. OwnAttempts(t)
    BY Zenon DEF LaneInv, SoundRows
  <2>5. /\ r.sender = "self" /\ r.nonce = rows[t].nonce /\ r.status = "confirming" /\ r.env = Latest(t)
        /\ r.rejected = rows[t].rejected /\ r.consumed = rows[t].consumed
    BY <1>1, <1>2, <1>4, <2>1, <2>3, <2>4, ZenonT(30) DEF Repaired, Row, OwnAttempts
  <2>6. Active(r)
    BY <2>5, Zenon DEF Active, ActiveStatuses
  <2>7. SoundRow(t, r)
    BY <1>1, <1>2, <1>4, <2>1, <2>3, <2>5, Zenon DEF SoundRow
  <2> QED BY <1>2, <1>4, <2>5, <2>6, <2>7, Zenon
<1> QED BY <1>3, <1>4, Zenon

-----------------------------------------------------------------------------
(* What a step may do to the store.                                        *)

\* A saved row keeps its nonce, or gives up the highest of the lane.
KeepsNonce(t, r) ==
  \/ r.nonce = rows[t].nonce
  \/ r.nonce = None /\ \A n \in AssignedNonces : n <= rows[t].nonce

Saved(t, r) ==
  /\ Active(rows[t]) /\ rows' = [rows EXCEPT ![t] = r]
  /\ SoundRow(t, r) /\ KeepsNonce(t, r)

\* The assigned nonces only shrink, from the top, or gain one that is above all
\* of them and that the node offers.
ReleaseStep ==
  \A t \in Txs : rows[t].nonce # None /\ rows'[t].nonce = None
                   => \A n \in AssignedNonces : n <= rows[t].nonce

NonceStep ==
  \/ AssignedNonces' \subseteq AssignedNonces
  \/ /\ UNCHANGED nodeVars
     /\ \E n \in Nat : /\ AssignedNonces' \subseteq AssignedNonces \cup {n}
                       /\ \A k \in AssignedNonces : k < n
                       /\ PendingNonceAt("self", n)

LaneStep == ReleaseStep /\ NonceStep

\* UpdateIfActive, with a sound row.
LEMMA Saving ==
  ASSUME NEW t \in Txs, NEW r, rows' = UpdateIfActive(t, r), SoundRow(t, r), KeepsNonce(t, r)
  PROVE  rows' = rows \/ Saved(t, r)
BY Zenon DEF UpdateIfActive, Saved

\* SoundRow speaks of the attempts only.
LEMMA SoundRowStays ==
  ASSUME NEW t \in Txs, attempts'[t] = attempts[t]
  PROVE  /\ Envelopes(t)' = Envelopes(t) /\ Latest(t)' = Latest(t)
         /\ OwnAttempts(t)' <=> OwnAttempts(t)
         /\ SoundRow(t, rows[t])' <=> SoundRow(t, rows'[t])
<1>1. Envelopes(t)' = Envelopes(t) /\ Latest(t)' = Latest(t)
  BY Zenon DEF Envelopes, Latest
<1>2. OwnAttempts(t)' <=> OwnAttempts(t)
  BY <1>1, Zenon DEF OwnAttempts
<1>3. SoundRow(t, rows[t])' <=> SoundRow(t, rows'[t])
  BY <1>1, Zenon DEF SoundRow, Active
<1> QED BY <1>1, <1>2, <1>3, Zenon

\* A save keeps the rows sound and the nonces with one owner each.
LEMMA SavedRows ==
  ASSUME TypeInv, SoundRows, NonceHasOneOwner, attempts' = attempts,
         rows' = rows \/ \E t \in Txs, r \in Row : Saved(t, r)
  PROVE  SoundRows' /\ NonceHasOneOwner' /\ AssignedNonces' \subseteq AssignedNonces /\ LaneStep
<1>0. rows \in [Txs -> Row]
  BY Zenon DEF TypeInv, StoreType
<1>1. CASE rows' = rows
  <2>1. SoundRows'
    BY <1>1, SoundRowStays, Zenon DEF SoundRows
  <2> QED BY <1>1, <2>1, Zenon DEF NonceHasOneOwner, AssignedNonces, LaneStep, ReleaseStep, NonceStep
<1>2. ASSUME NEW t \in Txs, NEW r \in Row, Saved(t, r)
      PROVE  SoundRows' /\ NonceHasOneOwner' /\ AssignedNonces' \subseteq AssignedNonces /\ ReleaseStep
  <2>1. rows'[t] = r /\ \A u \in Txs \ {t} : rows'[u] = rows[u]
    BY <1>0, <1>2, Zenon DEF Saved
  <2>2. SoundRow(t, rows[t]) /\ rows[t].sender = "self" /\ r.sender = "self"
    BY <1>2 DEF Saved, SoundRows, SoundRow, Active, ActiveStatuses, AbsentRow
  <2>3. SoundRows'
    BY <1>2, <2>1, SoundRowStays, Zenon DEF SoundRows, Saved
  <2>4. \A u \in Txs : rows'[u].nonce # None /\ rows'[u].sender = "self"
                          => rows'[u].nonce = rows[u].nonce /\ rows[u].sender = "self"
    BY <1>2, <2>1, <2>2, Zenon DEF Saved, KeepsNonce
  <2>5. NonceHasOneOwner' /\ AssignedNonces' \subseteq AssignedNonces
    BY <2>4 DEF NonceHasOneOwner, AssignedNonces
  <2>6. ReleaseStep
    BY <1>2, <2>1, Zenon DEF Saved, KeepsNonce, ReleaseStep
  <2> QED BY <2>3, <2>5, <2>6, Zenon
<1> QED BY <1>1, <1>2, Zenon DEF LaneStep, NonceStep

-----------------------------------------------------------------------------
(* The shapes of a step: it ends, or it goes on with a row.                *)

OthersRest(m) ==
  \A k \in Managers \ {m} : pc[k] = "idle" /\ pc'[k] = "idle" /\ snap'[k] = snap[k]

\* The manager is done with row t, and maybe with the batch.
Ends(m, t) ==
  /\ OthersRest(m)
  /\ \A u \in Txs : snap'[m][u] \in {snap[m][u], AbsentRow}
  /\ t \in Txs => snap'[m][t] = AbsentRow
  /\ \/ pc[m] # "fail" /\ pc'[m] = "batch" /\ lane'[m] = lane[m]
     \/ pc'[m] \in {"idle", "fail"} /\ \A u \in Txs : snap'[m][u] = AbsentRow

\* The three moves that end a step.
LEMMA EndingMoves ==
  ASSUME TypeInv, LaneHeld, NEW m \in Managers, pc[m] # "idle", NEW t
  PROVE  /\ t \in Txs /\ pc[m] # "fail" /\ Continue(m, t, lane[m]) => Ends(m, t)
         /\ Fail(m, t) => Ends(m, t)
         /\ LeaveLane(m) => Ends(m, t)
<1>1. \A k \in Managers \ {m} : pc[k] = "idle"
  BY OthersIdle, Zenon
<1>2. LocalType
  BY Zenon DEF TypeInv
<1>3. ASSUME t \in Txs, pc[m] # "fail", Continue(m, t, lane[m]) PROVE Ends(m, t)
  BY <1>1, <1>2, <1>3, Zenon DEF Continue, Ends, OthersRest, LocalType
<1>4. ASSUME Fail(m, t) PROVE Ends(m, t)
  BY <1>1, <1>2, <1>4, Zenon DEF Fail, Ends, OthersRest, LocalType, EmptyBatch
<1>5. ASSUME LeaveLane(m) PROVE Ends(m, t)
  BY <1>1, <1>2, <1>5, Zenon DEF LeaveLane, Ends, OthersRest, LocalType, EmptyBatch
<1> QED BY <1>3, <1>4, <1>5, Zenon

\* Resting managers keep their invariants.
LEMMA RestingManagers ==
  ASSUME LaneInv, NEW m \in Managers, OthersRest(m)
  PROVE  \A k \in Managers \ {m} : SoundBatch(k)' /\ SoundWork(k)'
BY DEF LaneInv, OthersRest, SoundBatch, SoundWork, Working

\* A step that ends preserves LaneInv.
LEMMA EndedLane ==
  ASSUME TypeInv, LaneInv, NEW m \in Managers, pc[m] # "idle", NEW t,
         Ends(m, t), attempts' = attempts,
         rows' = rows \/ (t \in Txs /\ \E r \in Row : Saved(t, r))
  PROVE  LaneInv' /\ LaneStep
<1>1. SoundRows' /\ NonceHasOneOwner' /\ AssignedNonces' \subseteq AssignedNonces /\ LaneStep
  BY SavedRows, Zenon DEF LaneInv
<1>2. \A u \in Txs : u # t => rows'[u] = rows[u]
  BY Zenon DEF Saved, TypeInv, StoreType
<1>3. rows' = rows \/ (t \in Txs /\ snap'[m][t] = AbsentRow)
  BY Zenon DEF Ends
<1>4. SoundBatch(m)'
  <2>1. pc'[m] \in {"idle", "fail"} => \A u \in Txs : snap'[m][u].status = "absent"
    BY DEF Ends, AbsentRow
  <2>2. pc'[m] \notin {"idle", "fail"} => Covers(lane[m])'
    BY <1>1, Zenon DEF Ends, LaneInv, SoundBatch, Covers
  <2>3. \A u \in Txs : snap'[m][u].status # "absent" => Active(rows'[u]) /\ snap'[m][u] = rows'[u]
    BY <1>2, <1>3 DEF Ends, LaneInv, SoundBatch, AbsentRow
  <2> QED BY <2>1, <2>2, <2>3, Zenon DEF SoundBatch, Active
<1>5. SoundWork(m)'
  BY Zenon DEF Ends, SoundWork, Working
<1> QED BY <1>1, <1>4, <1>5, RestingManagers, Zenon DEF LaneInv, Ends

\* So does a step that goes on with row t.
LEMMA WorkedLane ==
  ASSUME TypeInv, LaneInv, LaneHeld, NEW m \in Managers, pc[m] \notin {"idle", "fail"}, NEW t \in Txs,
         NEW r, NEW l, NEW p, NEW stage \in Working, WorkOn(m, t, r, l, p, stage),
         SoundRows', NonceHasOneOwner',
         \A u \in Txs \ {t} : rows'[u] = rows[u],
         \A n \in AssignedNonces' : l.known /\ n < l.next,
         SoundCopy(rows'[t], r, l, p, stage),
         stage # "sign" => attempts'[t] # <<>> /\ r.env = attempts'[t][Len(attempts'[t])]
  PROVE  LaneInv'
<1>1. LocalType
  BY Zenon DEF TypeInv
<1>2. /\ pc'[m] = stage /\ cur'[m] = t /\ tx'[m] = r /\ lane'[m] = l /\ policy'[m] = p
      /\ snap'[m] = [snap[m] EXCEPT ![t] = AbsentRow]
      /\ \A k \in Managers \ {m} : pc'[k] = pc[k] /\ snap'[k] = snap[k]
  BY <1>1, Zenon DEF WorkOn, LocalType
<1>3. OthersRest(m)
  BY <1>2, OthersIdle, Zenon DEF OthersRest
<1>4. snap'[m][t] = AbsentRow /\ \A u \in Txs \ {t} : snap'[m][u] = snap[m][u]
  BY <1>1, <1>2 DEF LocalType
<1>5. SoundBatch(m)'
  <2>1. Covers(lane[m])' /\ pc'[m] \notin {"idle", "fail"}
    BY <1>2, Zenon DEF Covers, Working
  <2>2. \A u \in Txs : snap'[m][u].status # "absent" => Active(rows'[u]) /\ snap'[m][u] = rows'[u]
    BY <1>4 DEF LaneInv, SoundBatch, AbsentRow
  <2> QED BY <2>1, <2>2, Zenon DEF SoundBatch, Active
<1>6. SoundWork(m)'
  <2>1. stage # "sign" => HoldsLatest(cur[m], tx[m])'
    BY <1>2, Zenon DEF HoldsLatest, Latest
  <2> QED BY <1>2, <1>4, <2>1 DEF SoundWork, SoundCopy, Active, isTip, AbsentRow
<1> QED BY <1>3, <1>5, <1>6, RestingManagers, Zenon DEF LaneInv

-----------------------------------------------------------------------------
(* The writes that end a step.                                             *)

\* Both of them, with a sound row.
LEMMA SavesLane ==
  ASSUME TypeInv, LaneInv, LaneHeld, NEW m \in Managers, pc[m] \notin {"idle", "fail"},
         NEW t \in Txs, NEW r \in Row, SoundRow(t, r), KeepsNonce(t, r),
         SaveAndContinue(m, t, r, lane[m]) \/ SaveAndLeave(m, t, r, lane[m])
  PROVE  LaneInv' /\ LaneStep
<1>1. rows' = rows \/ Saved(t, r)
  BY Saving, Zenon DEF SaveAndContinue, SaveAndLeave
<1>2. Ends(m, t)
  BY EndingMoves, Zenon DEF SaveAndContinue, SaveAndLeave
<1>3. attempts' = attempts
  BY Zenon DEF SaveAndContinue, SaveAndLeave
<1> QED BY <1>1, <1>2, <1>3, EndedLane, Zenon

\* The row transitions keep a row sound and its nonce.
LEMMA SoundTransitions ==
  ASSUME StoreType, NEW t \in Txs, NEW r \in Row, SoundRow(t, r), Active(r)
  PROVE  /\ /\ SoundRow(t, scheduleNextCheck(t, r)) /\ scheduleNextCheck(t, r) \in Row
            /\ scheduleNextCheck(t, r).nonce = r.nonce
         /\ /\ SoundRow(t, abandonTransaction(r)) /\ abandonTransaction(r) \in Row
            /\ abandonTransaction(r).nonce = r.nonce
         /\ \A e \in Envelopes(t) : /\ SoundRow(t, finalizeTransaction(r, e)) /\ finalizeTransaction(r, e) \in Row
                                    /\ finalizeTransaction(r, e).nonce = r.nonce
<1>1. SoundRow(t, scheduleNextCheck(t, r)) /\ scheduleNextCheck(t, r) \in Row /\ scheduleNextCheck(t, r).nonce = r.nonce
  BY Zenon DEF scheduleNextCheck, SoundRow, Row, Active, ActiveStatuses
<1>2. SoundRow(t, abandonTransaction(r)) /\ abandonTransaction(r) \in Row /\ abandonTransaction(r).nonce = r.nonce
  BY Zenon DEF abandonTransaction, SoundRow, Row, Active, ActiveStatuses, TerminalStatuses
<1>3. ASSUME NEW e \in Envelopes(t)
      PROVE  SoundRow(t, finalizeTransaction(r, e)) /\ finalizeTransaction(r, e) \in Row /\ finalizeTransaction(r, e).nonce = r.nonce
  <2>1. e \in Envelope
    BY AttemptsAreEnvelopes, Zenon
  <2> DEFINE s == IF e.payload \in Reverts THEN "failed" ELSE "succeed"
             f == finalizeTransaction(r, e)
  <2>2. f = [r EXCEPT !.env = e, !.rejected = None, !.status = s]
    BY Zenon DEF finalizeTransaction
  <2>3. s \in {"failed", "succeed"}
    BY Zenon
  <2> HIDE DEF s, f
  <2>4. f \in Row /\ f.env = e /\ f.rejected = None /\ f.status = s /\ f.nonce = r.nonce /\ f.sender = r.sender
    BY <2>1, <2>2, <2>3, Zenon DEF Row, TerminalStatuses
  <2>5. r.status # "errored"
    BY Zenon DEF Active, ActiveStatuses
  <2>6. SoundRow(t, f)
    BY <2>3, <2>4, <2>5, Zenon DEF SoundRow, Active, ActiveStatuses
  <2> QED BY <2>4, <2>6, Zenon DEF f
<1> QED BY <1>1, <1>2, <1>3, Zenon

\* At the tip, the lane holds no higher nonce.
LEMMA TipIsHighest ==
  ASSUME TypeInv, NEW m \in Managers, Covers(lane[m]), NEW n \in Nat, isTip(lane[m], n)
  PROVE  \A k \in AssignedNonces : k <= n
<1>1. \A k \in AssignedNonces : k \in Nat
  BY Zenon DEF AssignedNonces, TypeInv, StoreType, Row
<1> QED BY <1>1 DEF Covers, isTip, TypeInv, LocalType, Lane

\* reconcileRejectedSubmission releases a nonce only at the tip.
LEMMA ReconciledLane ==
  ASSUME TypeInv, LaneInv, LaneHeld, NEW m \in Managers, pc[m] \notin {"idle", "fail"}, NEW t \in Txs,
         NEW r \in Row, SoundRow(t, r), Active(r), r.nonce = rows[t].nonce,
         NEW tip, tip => isTip(lane[m], r.nonce),
         \/ RetryReconciliation(m, t, r, lane[m])
         \/ reconcileRejectedSubmission(m, t, r, lane[m], tip)
  PROVE  LaneInv' /\ LaneStep
<1>0. StoreType /\ Covers(lane[m])
  BY Zenon DEF TypeInv, LaneInv, SoundBatch
<1>1. CASE RetryReconciliation(m, t, r, lane[m])
  BY <1>0, <1>1, SoundTransitions, SavesLane, SMTT(20) DEF RetryReconciliation, KeepsNonce
<1>2. CASE RejectedIsKnown(m, t, r, lane[m])
  <2>1. PICK e \in Envelopes(t) :
          SaveAndContinue(m, t, scheduleNextCheck(t, [r EXCEPT !.env = e, !.pending = FALSE, !.rejected = None]), lane[m])
    BY <1>2, Zenon DEF RejectedIsKnown
  <2> DEFINE q == [r EXCEPT !.env = e, !.pending = FALSE, !.rejected = None]
  <2>2. e \in Envelope
    BY <1>0, AttemptsAreEnvelopes, Zenon
  <2>3. q \in Row /\ SoundRow(t, q) /\ Active(q) /\ q.nonce = r.nonce
    BY <2>2, Zenon DEF SoundRow, Row, Active
  <2>4. SaveAndContinue(m, t, scheduleNextCheck(t, q), lane[m])
    BY <2>1, Zenon
  <2> HIDE DEF q
  <2> QED BY <1>0, <2>3, <2>4, SoundTransitions, SavesLane DEF KeepsNonce
<1>3. CASE ReleaseRejected(m, t, r, lane[m], tip)
  <2> DEFINE q == abandonTransaction([r EXCEPT !.nonce = None, !.pending = FALSE])
  <2>1. q \in Row /\ SoundRow(t, q) /\ q.nonce = None
    BY Zenon DEF SoundRow, Row, Active, ActiveStatuses, TerminalStatuses, abandonTransaction
  <2>2. KeepsNonce(t, q)
    <3>1. CASE r.nonce = None
      BY <2>1, <3>1, Zenon DEF KeepsNonce
    <3>2. CASE r.nonce # None
      <4>1. r.nonce \in Nat /\ isTip(lane[m], r.nonce)
        BY <1>3, <3>2, Zenon DEF Row, ReleaseRejected
      <4> QED BY <1>0, <2>1, <4>1, TipIsHighest, Zenon DEF KeepsNonce
    <3> QED BY <3>1, <3>2, Zenon
  <2>3. SaveAndLeave(m, t, q, lane[m])
    BY <1>3, Zenon DEF ReleaseRejected
  <2> HIDE DEF q
  <2> QED BY <2>1, <2>2, <2>3, SavesLane, Zenon
<1>4. CASE RejectedIsConsumed(m, t, r, lane[m])
  <2> DEFINE q == [r EXCEPT !.consumed = TRUE, !.pending = FALSE, !.rejected = None]
  <2>1. q \in Row /\ SoundRow(t, q) /\ Active(q) /\ q.nonce = r.nonce
    BY Zenon DEF SoundRow, Row, Active
  <2>2. SaveAndContinue(m, t, scheduleNextCheck(t, q), lane[m])
    BY <1>4, Zenon DEF RejectedIsConsumed
  <2> HIDE DEF q
  <2> QED BY <1>0, <2>1, <2>2, SoundTransitions, SavesLane DEF KeepsNonce
<1> QED BY <1>1, <1>2, <1>3, <1>4, Zenon DEF reconcileRejectedSubmission

-----------------------------------------------------------------------------
(* The actions.                                                            *)

\* A step of processTransactionStep that ends at once.
LEMMA EndingLane ==
  ASSUME TypeInv, LaneInv, LaneHeld, NEW m \in Managers, NEW t \in Txs, Ending(m, t)
  PROVE  LaneInv' /\ LaneStep
<1> DEFINE r == Repaired(m, t)
<1>1. NextInBatch(m, t)
  BY Zenon DEF Ending, FinalizeReceipt, ParkUnprocessable, ResumeReconciliation, pollConsumedNonce, Defer,
         ExpireUnsigned, AwaitNodeNonce, Ready, Workable, Unmined, Loaded
<1>2. pc[m] = "batch" /\ Covers(lane[m]) /\ LaneAfterLoad(m, t) = lane[m] /\ ~unprocessable(m, t)
  BY <1>1, LoadedFacts, Zenon
<1>3. r \in Row /\ SoundRow(t, r) /\ Active(r) /\ r.nonce = rows[t].nonce
  BY <1>1, RepairedFacts, Zenon
<1>4. StoreType
  BY Zenon DEF TypeInv
<1> HIDE DEF r
<1>5. CASE FinalizeReceipt(m, t)
  <2>1. PICK e \in Envelopes(t) : SaveAndContinue(m, t, finalizeTransaction(r, e), lane[m])
    BY <1>2, <1>5, Zenon DEF FinalizeReceipt, r
  <2> QED BY <1>2, <1>3, <1>4, <2>1, SoundTransitions, SavesLane DEF KeepsNonce
<1>6. CASE pollConsumedNonce(m, t) \/ Defer(m, t)
  <2>1. \E q \in {abandonTransaction(r), scheduleNextCheck(t, r)} : SaveAndContinue(m, t, q, lane[m])
    BY <1>2, <1>6, Zenon DEF pollConsumedNonce, Defer, r
  <2> QED BY <1>2, <1>3, <1>4, <2>1, SoundTransitions, SavesLane DEF KeepsNonce
<1>7. CASE ResumeReconciliation(m, t)
  <2>1. \/ RetryReconciliation(m, t, r, lane[m])
        \/ reconcileRejectedSubmission(m, t, r, lane[m], isTip(lane[m], r.nonce))
    BY <1>2, <1>7, Zenon DEF ResumeReconciliation, r
  <2> QED BY <1>2, <1>3, <2>1, ReconciledLane
<1>8. CASE ExpireUnsigned(m, t)
  <2> DEFINE q == abandonTransaction([r EXCEPT !.nonce = None])
  <2>1. q \in Row /\ SoundRow(t, q) /\ q.nonce = None
    BY <1>3, Zenon DEF SoundRow, Row, Active, ActiveStatuses, TerminalStatuses, abandonTransaction
  <2>2. SaveAndLeave(m, t, q, lane[m]) /\ (r.nonce # None => isTip(lane[m], r.nonce))
    BY <1>2, <1>8, Zenon DEF ExpireUnsigned, r
  <2>3. KeepsNonce(t, q)
    <3>1. CASE r.nonce = None
      BY <1>3, <2>1, <3>1, Zenon DEF KeepsNonce
    <3>2. CASE r.nonce # None
      <4>1. r.nonce \in Nat
        BY <1>3, <3>2, Zenon DEF Row
      <4> QED BY <1>2, <1>3, <2>1, <2>2, <3>2, <4>1, TipIsHighest, Zenon DEF KeepsNonce
    <3> QED BY <3>1, <3>2, Zenon
  <2> HIDE DEF q
  <2> QED BY <1>2, <2>1, <2>2, <2>3, SavesLane, Zenon
<1>9. CASE AwaitNodeNonce(m, t)
  <2>1. LeaveLane(m) /\ rows' = rows /\ attempts' = attempts
    BY <1>9, Zenon DEF AwaitNodeNonce
  <2>2. Ends(m, t)
    BY <1>2, <2>1, EndingMoves, Zenon
  <2> QED BY <1>2, <2>1, <2>2, EndedLane, Zenon
<1> QED BY <1>2, <1>5, <1>6, <1>7, <1>8, <1>9, Zenon DEF Ending, ParkUnprocessable

\* The facts a step starts from while a manager works on a row.
LEMMA WorkingFacts ==
  ASSUME TypeInv, LaneInv, NEW m \in Managers, pc[m] \in Working
  PROVE  /\ cur[m] \in Txs /\ tx[m] \in Row /\ Covers(lane[m])
         /\ SoundRow(cur[m], rows[cur[m]]) /\ Active(rows[cur[m]])
         /\ SoundCopy(rows[cur[m]], tx[m], lane[m], policy[m], pc[m])
         /\ pc[m] # "sign" => HoldsLatest(cur[m], tx[m]) /\ SoundRow(cur[m], tx[m])
<1>1. cur[m] \in Txs /\ tx[m] \in Row
  BY Zenon DEF TypeInv, CopyType, LocalType, Working
<1>2. Covers(lane[m]) /\ SoundCopy(rows[cur[m]], tx[m], lane[m], policy[m], pc[m])
  BY Zenon DEF LaneInv, SoundBatch, SoundWork, Working
<1>3. Active(rows[cur[m]]) /\ SoundRow(cur[m], rows[cur[m]])
  BY <1>1, <1>2 DEF SoundCopy, LaneInv, SoundRows, Active, AbsentRow, ActiveStatuses
<1>4. ASSUME pc[m] # "sign" PROVE HoldsLatest(cur[m], tx[m]) /\ SoundRow(cur[m], tx[m])
  <2>1. HoldsLatest(cur[m], tx[m])
    BY <1>4, Zenon DEF LaneInv, SoundWork
  <2>2. tx[m].env \in Envelopes(cur[m])
    BY <1>1, <2>1, AttemptsAreEnvelopes, Zenon DEF HoldsLatest, TypeInv
  <2>3. tx[m].status # "absent" /\ tx[m].status # "errored" /\ rows[cur[m]].status # "errored"
    BY <1>2, Zenon DEF SoundCopy, Active, ActiveStatuses
  <2> QED BY <1>1, <1>2, <1>3, <2>1, <2>2, <2>3, Zenon DEF SoundRow, SoundCopy, HoldsLatest
<1> QED BY <1>1, <1>2, <1>3, <1>4, Zenon

\* The row after a failed send.
LEMMA FailureFacts ==
  ASSUME NEW r \in Row, NEW rep
  PROVE  LET a == AfterFailure(r, rep)
         IN  /\ a \in Row /\ a.status = r.status /\ a.sender = r.sender /\ a.nonce = r.nonce /\ a.env = r.env
             /\ a.rejected = None /\ a.consumed = (r.consumed \/ rep = "nonceConsumed")
<1> DEFINE p == rep \in {"rejectedPermanent", "rejectedRetryable", "ambiguous"}
           c == r.consumed \/ rep = "nonceConsumed"
           a == AfterFailure(r, rep)
<1>1. p \in BOOLEAN /\ c \in BOOLEAN
  OBVIOUS
<1>2. a = [r EXCEPT !.rejected = None, !.pending = p, !.consumed = c]
  BY Zenon DEF AfterFailure, Row
<1> HIDE DEF p, c, a
<1>3. /\ a \in Row /\ a.status = r.status /\ a.sender = r.sender /\ a.nonce = r.nonce /\ a.env = r.env
      /\ a.rejected = None /\ a.consumed = c
  BY <1>1, <1>2, Zenon DEF Row
<1> QED BY <1>3, Zenon DEF a, c

\* Evidence of a rejection names the envelope that was sent, the latest attempt.
Evidence(m) ==
  scheduleNextCheck(cur[m], [AfterFailure(tx[m], reply[m]) EXCEPT !.pending = FALSE, !.rejected = tx[m].env])

LEMMA EvidenceFacts ==
  ASSUME TypeInv, LaneInv, NEW m \in Managers, pc[m] = "reply"
  PROVE  /\ Evidence(m) \in Row /\ SoundRow(cur[m], Evidence(m)) /\ Active(Evidence(m))
         /\ Evidence(m).nonce = rows[cur[m]].nonce /\ Evidence(m).nonce # None
         /\ Evidence(m).env = tx[m].env /\ Evidence(m).rejected = tx[m].env
         /\ Evidence(m).consumed = (tx[m].consumed \/ reply[m] = "nonceConsumed")
<1> DEFINE t == cur[m]
           a == AfterFailure(tx[m], reply[m])
           b == [a EXCEPT !.pending = FALSE, !.rejected = tx[m].env]
<1>1. /\ t \in Txs /\ tx[m] \in Row /\ HoldsLatest(t, tx[m]) /\ SoundRow(t, tx[m])
      /\ SoundCopy(rows[t], tx[m], lane[m], policy[m], pc[m])
  BY WorkingFacts, Zenon DEF Working
<1>2. /\ a \in Row /\ a.status = tx[m].status /\ a.sender = tx[m].sender /\ a.nonce = tx[m].nonce
      /\ a.env = tx[m].env /\ a.consumed = (tx[m].consumed \/ reply[m] = "nonceConsumed")
  BY <1>1, FailureFacts
<1> HIDE DEF a
<1>3. /\ b \in Row /\ b.status = a.status /\ b.sender = a.sender /\ b.nonce = a.nonce /\ b.env = a.env
      /\ b.rejected = tx[m].env /\ b.consumed = a.consumed
  BY <1>1, <1>2, Zenon DEF Row
<1> HIDE DEF b
<1>4. SoundRow(t, b) /\ Active(b)
  BY <1>1, <1>2, <1>3, Zenon DEF SoundRow, HoldsLatest, SoundCopy, Active
<1>5. Evidence(m) = scheduleNextCheck(t, b)
  BY Zenon DEF Evidence, a, b
<1>6. /\ SoundRow(t, scheduleNextCheck(t, b)) /\ scheduleNextCheck(t, b) \in Row
      /\ Active(scheduleNextCheck(t, b)) /\ scheduleNextCheck(t, b).nonce = b.nonce
      /\ scheduleNextCheck(t, b).env = b.env /\ scheduleNextCheck(t, b).rejected = b.rejected
      /\ scheduleNextCheck(t, b).consumed = b.consumed
  <2>1. scheduleNextCheck(t, b) = [b EXCEPT !.status = "confirming"]
    BY <1>1, Zenon DEF scheduleNextCheck, HoldsLatest
  <2> QED BY <1>1, <1>3, <1>4, <2>1, SoundTransitions, Zenon DEF TypeInv, Row, Active, ActiveStatuses
<1> QED BY <1>1, <1>2, <1>3, <1>5, <1>6, Zenon DEF SoundCopy

\* What follows a send.
LEMMA RepliedLane ==
  ASSUME TypeInv, LaneInv, LaneHeld, NEW m \in Managers,
         Accepted(m) \/ Unconfirmed(m) \/ RecordRejection(m) \/ ReconcileRejection(m)
  PROVE  LaneInv' /\ LaneStep
<1> DEFINE t == cur[m]
<1>1. pc[m] \in {"reply", "reconcile"}
  BY Zenon DEF Accepted, Unconfirmed, RecordRejection, ReconcileRejection
<1>2. /\ t \in Txs /\ tx[m] \in Row /\ Covers(lane[m])
      /\ SoundRow(t, rows[t]) /\ Active(rows[t]) /\ HoldsLatest(t, tx[m]) /\ SoundRow(t, tx[m])
      /\ SoundCopy(rows[t], tx[m], lane[m], policy[m], pc[m])
  BY <1>1, WorkingFacts, Zenon DEF Working
<1>3. StoreType /\ Active(tx[m]) /\ tx[m].nonce = rows[t].nonce
  BY <1>2, Zenon DEF TypeInv, SoundCopy
<1>4. CASE Accepted(m)
  <2> DEFINE q == [tx[m] EXCEPT !.pending = FALSE, !.rejected = None]
  <2>1. q \in Row /\ SoundRow(t, q) /\ Active(q) /\ q.nonce = tx[m].nonce
    BY <1>2, <1>3, Zenon DEF SoundRow, Row, Active
  <2>2. SaveAndContinue(m, t, scheduleNextCheck(t, q), lane[m])
    BY <1>4, Zenon DEF Accepted
  <2> HIDE DEF q
  <2> QED BY <1>1, <1>2, <1>3, <2>1, <2>2, SoundTransitions, SavesLane DEF KeepsNonce
<1>5. CASE Unconfirmed(m)
  <2> DEFINE q == AfterFailure(tx[m], reply[m])
  <2>1. q \in Row /\ SoundRow(t, q) /\ Active(q) /\ q.nonce = tx[m].nonce
    BY <1>2, <1>3, FailureFacts DEF SoundRow, Active
  <2>2. \/ \E e \in Envelopes(t) : SaveAndContinue(m, t, finalizeTransaction(q, e), lane[m])
        \/ SaveAndContinue(m, t, scheduleNextCheck(t, q), lane[m])
    BY <1>5, Zenon DEF Unconfirmed
  <2> HIDE DEF q
  <2> QED BY <1>1, <1>2, <1>3, <2>1, <2>2, SoundTransitions, SavesLane, SMTT(20) DEF KeepsNonce
<1>6. CASE RecordRejection(m)
  <2> DEFINE q == Evidence(m)
  <2>1. pc[m] = "reply"
    BY <1>6, Zenon DEF RecordRejection
  <2>2. /\ q \in Row /\ SoundRow(t, q) /\ Active(q) /\ q.nonce = rows[t].nonce /\ q.nonce # None
        /\ q.env = tx[m].env
    BY <2>1, EvidenceFacts, Zenon
  <2>3. /\ rows' = UpdateIfActive(t, q) /\ attempts' = attempts
        /\ \/ WorkOn(m, t, q, lane[m], policy[m], "reconcile")
           \/ Continue(m, t, lane[m])
           \/ Fail(m, t)
    BY <1>6, Zenon DEF RecordRejection, Evidence
  <2> HIDE DEF q
  <2>4. KeepsNonce(t, q)
    BY <2>2, Zenon DEF KeepsNonce
  <2>5. rows' = rows \/ Saved(t, q)
    BY <1>2, <2>2, <2>3, <2>4, Saving, Zenon
  <2>6. CASE Continue(m, t, lane[m]) \/ Fail(m, t)
    <3>1. Ends(m, t)
      BY <1>2, <2>1, <2>6, EndingMoves, Zenon
    <3> QED BY <1>2, <2>1, <2>2, <2>3, <2>5, <3>1, EndedLane, Zenon
  <2>7. CASE WorkOn(m, t, q, lane[m], policy[m], "reconcile")
    <3>1. SoundRows' /\ NonceHasOneOwner' /\ AssignedNonces' \subseteq AssignedNonces /\ LaneStep
      BY <1>2, <2>2, <2>3, <2>5, SavedRows, Zenon DEF LaneInv
    <3>2. rows'[t] = q /\ \A u \in Txs \ {t} : rows'[u] = rows[u]
      BY <1>2, <1>3, <2>3, Zenon DEF UpdateIfActive, StoreType
    <3>3. q.sender = "self" /\ (policy[m].nonceReleasable => isTip(lane[m], q.nonce))
      BY <1>2, <2>2, Zenon DEF SoundRow, SoundCopy
    <3>4. SoundCopy(rows'[t], q, lane[m], policy[m], "reconcile")
      BY <2>2, <3>2, <3>3, Zenon DEF SoundCopy
    <3>5. \A n \in AssignedNonces' : lane[m].known /\ n < lane[m].next
      BY <1>2, <3>1, Zenon DEF Covers
    <3>6. attempts'[t] # <<>> /\ q.env = attempts'[t][Len(attempts'[t])]
      BY <1>2, <2>2, <2>3, Zenon DEF HoldsLatest, Latest
    <3> QED BY <1>2, <2>1, <2>3, <2>7, <3>1, <3>2, <3>4, <3>5, <3>6, WorkedLane, Zenon DEF Working
  <2> QED BY <2>3, <2>6, <2>7, Zenon
<1>7. CASE ReconcileRejection(m)
  <2>1. \/ \E e \in Envelopes(t) : SaveAndContinue(m, t, finalizeTransaction(tx[m], e), lane[m])
        \/ RetryReconciliation(m, t, tx[m], lane[m])
        \/ reconcileRejectedSubmission(m, t, tx[m], lane[m], policy[m].nonceReleasable)
    BY <1>7, Zenon DEF ReconcileRejection
  <2>2. policy[m].nonceReleasable => isTip(lane[m], tx[m].nonce)
    BY <1>2, Zenon DEF SoundCopy
  <2>3. CASE \E e \in Envelopes(t) : SaveAndContinue(m, t, finalizeTransaction(tx[m], e), lane[m])
    BY <1>1, <1>2, <1>3, <2>3, SoundTransitions, SavesLane DEF KeepsNonce
  <2> QED BY <1>1, <1>2, <1>3, <2>1, <2>2, <2>3, ReconciledLane, Zenon
<1> QED BY <1>4, <1>5, <1>6, <1>7, Zenon

\* Errors, crashes and unlocking.
LEMMA AbortedLane ==
  ASSUME TypeInv, LaneInv, LaneHeld, NEW m \in Managers,
         StepError(m) \/ Reschedule(m) \/ Crash(m) \/ UnlockLane(m)
  PROVE  LaneInv' /\ LaneStep
<1>1. pc[m] # "idle" /\ attempts' = attempts
  BY Zenon DEF StepError, Reschedule, Crash, UnlockLane, NextInBatch, storeVars
<1>2. CASE StepError(m)
  <2>1. PICK t \in Txs \cup {cur[m]} : Fail(m, t)
    BY <1>2, Zenon DEF StepError
  <2>2. Ends(m, t) /\ rows' = rows
    BY <1>1, <1>2, <2>1, EndingMoves, Zenon DEF StepError, storeVars
  <2> QED BY <1>1, <2>2, EndedLane, Zenon
<1>3. CASE Crash(m) \/ UnlockLane(m)
  <2>1. Ends(m, None) /\ rows' = rows
    BY <1>1, <1>3, EndingMoves, Zenon DEF Crash, UnlockLane
  <2> QED BY <1>1, <2>1, EndedLane, Zenon
<1>4. CASE Reschedule(m)
  <2> DEFINE t == cur[m]
  <2>1. t \in Txs /\ LeaveLane(m) /\ rows' \in {rows, UpdateIfActive(t, rescheduled(t))}
    BY <1>4, Zenon DEF Reschedule, TypeInv, CopyType
  <2>2. Ends(m, t)
    BY <1>1, <2>1, EndingMoves, Zenon
  <2>3. CASE rows' = rows
    BY <1>1, <2>1, <2>2, <2>3, EndedLane, Zenon
  <2>4. CASE rows' = [rows EXCEPT ![t] = rescheduled(t)] /\ Active(rows[t])
    <3>1. SoundRow(t, rows[t]) /\ rows[t] \in Row
      BY <2>1, <2>4 DEF LaneInv, SoundRows, SoundRow, Active, AbsentRow, ActiveStatuses
    <3>2. SoundRow(t, rescheduled(t)) /\ rescheduled(t).nonce = rows[t].nonce /\ rescheduled(t) \in Row
      BY <2>4, <3>1, Zenon DEF rescheduled, SoundRow, Row, Active, ActiveStatuses
    <3>3. Saved(t, rescheduled(t))
      BY <2>4, <3>2, Zenon DEF Saved, KeepsNonce
    <3> QED BY <1>1, <2>1, <2>2, <3>2, <3>3, EndedLane, Zenon
  <2> QED BY <2>1, <2>3, <2>4, Zenon DEF UpdateIfActive
<1> QED BY <1>2, <1>3, <1>4, Zenon

\* A row is resumed or replaced: the copy keeps its nonce.
LEMMA StartedLane ==
  ASSUME TypeInv, LaneInv, LaneHeld, NEW m \in Managers, NEW t \in Txs,
         ResumeBroadcast(m, t) \/ BeginAttempt(m, t)
  PROVE  LaneInv' /\ LaneStep
<1> DEFINE r == Repaired(m, t)
<1>1. NextInBatch(m, t) /\ snap[m][t].rejected = None /\ rows' = rows /\ attempts' = attempts
  BY Zenon DEF ResumeBroadcast, BeginAttempt, Ready, Workable, Unmined, Loaded, storeVars
<1>2. /\ pc[m] = "batch" /\ Covers(lane[m]) /\ LaneAfterLoad(m, t) = lane[m]
      /\ snap[m][t] = rows[t] /\ Active(rows[t])
  BY <1>1, LoadedFacts, Zenon
<1>3. /\ r \in Row /\ SoundRow(t, r) /\ Active(r) /\ r.nonce = rows[t].nonce /\ r.rejected = rows[t].rejected
      /\ r.consumed = rows[t].consumed /\ (attempts[t] # <<>> => r.env = Latest(t))
  BY <1>1, RepairedFacts, Zenon
<1>4. attempts[t] # <<>> => r.nonce # None
  BY LoadedRow, EnvelopeFields, TxManagerAssumptions, Zenon DEF TypeInv
<1> HIDE DEF r
<1>5. SoundRows' /\ NonceHasOneOwner' /\ AssignedNonces' \subseteq AssignedNonces /\ LaneStep
  BY <1>1, SavedRows, Zenon DEF LaneInv
<1>6. \A n \in AssignedNonces' : lane[m].known /\ n < lane[m].next
  BY <1>2, <1>5, Zenon DEF Covers
<1>7. \E p, stage : /\ WorkOn(m, t, r, lane[m], p, stage) /\ stage \in {"sign", "send"}
                    /\ p.nonceReleasable => isTip(lane[m], r.nonce)
                    /\ stage = "send" => attempts[t] # <<>>
                    /\ r.nonce # None
  <2>1. CASE ResumeBroadcast(m, t)
    <3>1. WorkOn(m, t, r, lane[m], [NoPolicy EXCEPT !.nonceReleasable = isTip(lane[m], r.nonce)], "send")
      BY <1>2, <2>1, Zenon DEF ResumeBroadcast, r
    <3>2. attempts[t] # <<>>
      BY <2>1, Zenon DEF ResumeBroadcast, resumeBroadcast
    <3>3. [NoPolicy EXCEPT !.nonceReleasable = isTip(lane[m], r.nonce)].nonceReleasable => isTip(lane[m], r.nonce)
      BY Zenon DEF NoPolicy
    <3> QED BY <1>4, <3>1, <3>2, <3>3, Zenon
  <2>2. CASE BeginAttempt(m, t)
    <3>1. r.nonce # None
      BY <2>2, Zenon DEF BeginAttempt, r
    <3>2. \/ WorkOn(m, t, r, lane[m], FirstAttempt(lane[m], r.nonce), "sign")
          \/ WorkOn(m, t, r, lane[m], NoPolicy, "sign")
          \/ /\ attempts[t] # <<>>
             /\ WorkOn(m, t, r, lane[m], [NoPolicy EXCEPT !.nonceReleasable = isTip(lane[m], r.nonce)], "send")
      BY <1>2, <2>2, Zenon DEF BeginAttempt, r
    <3>3. /\ FirstAttempt(lane[m], r.nonce).nonceReleasable => isTip(lane[m], r.nonce)
          /\ NoPolicy.nonceReleasable => isTip(lane[m], r.nonce)
          /\ [NoPolicy EXCEPT !.nonceReleasable = isTip(lane[m], r.nonce)].nonceReleasable => isTip(lane[m], r.nonce)
      BY Zenon DEF NoPolicy, FirstAttempt
    <3> QED BY <3>1, <3>2, <3>3, Zenon
  <2> QED BY <2>1, <2>2, Zenon
<1>8. PICK p, stage : /\ WorkOn(m, t, r, lane[m], p, stage) /\ stage \in {"sign", "send"}
                      /\ p.nonceReleasable => isTip(lane[m], r.nonce)
                      /\ stage = "send" => attempts[t] # <<>>
                      /\ r.nonce # None
  BY <1>7, Zenon
<1>9. SoundCopy(rows'[t], r, lane[m], p, stage)
  BY <1>1, <1>2, <1>3, <1>8, Zenon DEF SoundCopy, SoundRow
<1>10. stage # "sign" => attempts'[t] # <<>> /\ r.env = attempts'[t][Len(attempts'[t])]
  BY <1>1, <1>3, <1>8, Zenon DEF Latest
<1>11. stage \in Working
  BY <1>8, Zenon DEF Working
<1> QED BY <1>1, <1>2, <1>5, <1>6, <1>8, <1>9, <1>10, <1>11, WorkedLane, Zenon

\* reserve hands out a nonce above every assigned one, and the row is saved with
\* it before anything is signed.
LEMMA AssignedLane ==
  ASSUME TypeInv, LaneInv, LaneHeld, NEW m \in Managers, NEW t \in Txs, AssignNonce(m, t)
  PROVE  LaneInv' /\ LaneStep
<1> DEFINE r(n) == [Repaired(m, t) EXCEPT !.nonce = n, !.status = "processing"]
           l(n) == observe(lane[m], n)
<1>1. NextInBatch(m, t) /\ snap[m][t].rejected = None /\ attempts' = attempts /\ UNCHANGED nodeVars
  BY Zenon DEF AssignNonce, Ready, Workable, Unmined, Loaded
<1>2. /\ pc[m] = "batch" /\ Covers(lane[m]) /\ snap[m][t] = rows[t] /\ Active(rows[t])
      /\ SoundRow(t, rows[t]) /\ (rows[t].env # None => attempts[t] # <<>>)
  BY <1>1, LoadedFacts, Zenon
<1>3. /\ Repaired(m, t) \in Row /\ SoundRow(t, Repaired(m, t)) /\ Repaired(m, t).nonce = rows[t].nonce
      /\ Repaired(m, t).rejected = rows[t].rejected /\ Repaired(m, t).consumed = rows[t].consumed
  BY <1>1, RepairedFacts, Zenon
<1>4. rows[t].nonce = None /\ attempts[t] = <<>>
  <2>1. Repaired(m, t).nonce = None
    BY Zenon DEF AssignNonce
  <2> QED BY <1>3, <2>1, LoadedRow, EnvelopeFields, TxManagerAssumptions, Zenon DEF TypeInv
<1>5. PICK n \in 0..MaxNonce :
        /\ NonceOnOffer(lane[m], n)
        /\ rows' = UpdateIfActive(t, r(n))
        /\ \/ WorkOn(m, t, r(n), l(n), FirstAttempt(l(n), n), "sign")
           \/ Fail(m, t)
  BY <1>2, Zenon DEF AssignNonce
<1>6. n \in Nat /\ n # None
  BY TxManagerAssumptions
<1>7. /\ r(n) \in Row /\ r(n).nonce = n /\ r(n).status = "processing" /\ r(n).sender = "self"
      /\ r(n).rejected = None /\ r(n).consumed = rows[t].consumed /\ r(n).env = Repaired(m, t).env
  BY <1>1, <1>2, <1>3, <1>6, Zenon DEF Row, ActiveStatuses, SoundRow
<1>8. lane[m] \in Lane /\ \A k \in AssignedNonces : k \in Nat
  BY ZenonT(30) DEF TypeInv, LocalType, AssignedNonces, StoreType, Row
<1>9. (\A k \in AssignedNonces : k < n) /\ PendingNonceAt("self", n) /\ l(n) = [known |-> TRUE, next |-> n + 1]
  <2>1. PendingNonceAt("self", n) /\ ~(lane[m].known /\ n < lane[m].next)
    BY <1>5, Zenon DEF NonceOnOffer, reserveReady
  <2>2. \A k \in AssignedNonces : k < n
    BY <1>2, <1>6, <1>8, <2>1 DEF Covers, Lane
  <2>3. l(n) = [known |-> TRUE, next |-> n + 1]
    BY <1>6, <1>8, <2>1 DEF observe, Lane
  <2> QED BY <2>1, <2>2, <2>3, Zenon
<1>10. rows'[t] = r(n) /\ \A u \in Txs \ {t} : rows'[u] = rows[u]
  BY <1>2, <1>5, Zenon DEF UpdateIfActive, TypeInv, StoreType
<1> HIDE DEF r, l
<1>11. SoundRow(t, r(n)) /\ Active(r(n))
  <2>1. Envelopes(t) = {}
    BY <1>4 DEF Envelopes
  <2> QED BY <1>3, <1>7, <2>1, Zenon DEF SoundRow, Active, ActiveStatuses
<1>12. SoundRows'
  BY <1>1, <1>10, <1>11, SoundRowStays, Zenon DEF LaneInv, SoundRows
<1>13. NonceHasOneOwner'
  <2>1. \A u \in Txs : rows[u].sender = "self" /\ rows[u].nonce # None => rows[u].nonce # n
    BY <1>6, <1>8, <1>9 DEF AssignedNonces
  <2> QED BY <1>7, <1>10, <2>1 DEF LaneInv, NonceHasOneOwner
<1>14. AssignedNonces' \subseteq AssignedNonces \cup {n}
  BY <1>7, <1>10 DEF AssignedNonces
<1>15. LaneStep
  <2>1. ReleaseStep
    BY <1>4, <1>10, Zenon DEF ReleaseStep
  <2> QED BY <1>1, <1>6, <1>9, <1>14, <2>1, Zenon DEF LaneStep, NonceStep
<1>16. LaneInv'
  <2>1. CASE WorkOn(m, t, r(n), l(n), FirstAttempt(l(n), n), "sign")
    <3>1. \A k \in AssignedNonces' : l(n).known /\ k < l(n).next
      BY <1>6, <1>8, <1>9, <1>14
    <3>2. isTip(l(n), n) /\ FirstAttempt(l(n), n).nonceReleasable = isTip(l(n), n)
      BY <1>6, <1>9 DEF isTip, FirstAttempt
    <3>3. SoundCopy(rows'[t], r(n), l(n), FirstAttempt(l(n), n), "sign")
      BY <1>6, <1>7, <1>10, <1>11, <3>2, Zenon DEF SoundCopy
    <3> QED BY <1>2, <1>10, <1>12, <1>13, <2>1, <3>1, <3>3, WorkedLane, Zenon DEF Working
  <2>2. CASE Fail(m, t)
    <3>1. Ends(m, t) /\ pc'[m] = "fail"
      BY <1>2, <2>2, EndingMoves, MoveFrames, Zenon DEF TypeInv
    <3>2. SoundBatch(m)' /\ SoundWork(m)'
      BY <3>1 DEF Ends, SoundBatch, SoundWork, Working, AbsentRow
    <3> QED BY <1>12, <1>13, <3>1, <3>2, RestingManagers, Zenon DEF LaneInv, Ends
  <2> QED BY <1>5, <2>1, <2>2, Zenon
<1> QED BY <1>15, <1>16, Zenon

\* A replacement pays at least what it replaces.
LEMMA PriceCovers ==
  ASSUME NEW a \in Nat, NEW b \in Nat, NEW k \in Nat
  PROVE  suggestGasPrice(a, b, k) >= b
<1> DEFINE x == maxFee(a, b)
           c == 15 * k
           y == x * (100 + c)
<1>1. x \in Nat /\ x >= b /\ c \in Nat
  BY DEF maxFee
<1>2. y = 100 * x + x * c /\ x * c \in Nat
  BY <1>1
<1>3. y \in Nat /\ y >= 100 * x
  BY <1>1, <1>2
<1>4. y \div 100 \in Nat /\ y \div 100 >= x
  BY <1>1, <1>3
<1>5. suggestGasPrice(a, b, k) \in {x + 1, y \div 100}
  BY Zenon DEF suggestGasPrice, bumpGasPrice, priorityCoefficient
<1> HIDE DEF x, y
<1> QED BY <1>1, <1>4, <1>5

\* What is signed carries the row's payload and nonce, and pays at least what the
\* latest attempt pays.
LEMMA SignedFacts ==
  ASSUME StoreType, NEW t \in Txs, NEW n \in Nat, NEW e \in uniqueAttempts(t, n)
  PROVE  /\ e \in Envelope /\ e.signer = "self" /\ e.payload = Payload[t] /\ e.nonce = n
         /\ attempts[t] # <<>> => Latest(t).fee <= e.fee
<1>1. \E p \in Prices, f \in Nat : e = Signed(t, n, p, f)
  <2>1. highestAttemptFee(n) \subseteq Nat
    BY AttemptsAreEnvelopes, EnvelopeFields, Zenon DEF highestAttemptFee, FeesAtNonce
  <2> QED BY <2>1 DEF uniqueAttempts
<1>2. PICK p \in Prices, f \in Nat : e = Signed(t, n, p, f)
  BY <1>1, Zenon
<1> DEFINE prev == IF attempts[t] = <<>> THEN 0 ELSE Latest(t).fee
           k == Len(attempts[t]) + 1
           b == maxFee(prev, f)
<1>3. prev \in Nat /\ k \in Nat /\ p \in Nat
  BY AttemptsAreEnvelopes, EnvelopeFields, TxManagerAssumptions DEF StoreType
<1>4. b \in Nat /\ b >= prev
  BY <1>3 DEF maxFee
<1>5. /\ e.signer = "self" /\ e.payload = Payload[t] /\ e.nonce = n
      /\ e.fee = suggestGasPrice(p, b, k)
  BY <1>2, Zenon DEF Signed
<1>6. attempts[t] # <<>> => prev = Latest(t).fee
  BY Zenon
<1> HIDE DEF prev, k, b
<1>7. suggestGasPrice(p, b, k) >= b /\ suggestGasPrice(p, b, k) \in Nat
  BY <1>3, <1>4, PriceCovers, PriceIsNat, Zenon
<1>8. e.fee >= prev
  BY <1>3, <1>4, <1>5, <1>7
<1>9. e \in Envelope
  BY SignedIsEnvelope, Zenon
<1> QED BY <1>3, <1>5, <1>6, <1>8, <1>9, Zenon

\* InsertAttempt makes the signed envelope the latest attempt, whether or not the
\* row owned it already.
LEMMA InsertedRows ==
  ASSUME TypeInv, SoundRows, NEW t \in Txs, NEW e \in uniqueAttempts(t, rows[t].nonce), rows[t].nonce \in Nat,
         Active(rows[t]), rows[t].rejected = None,
         rows' = rows, attempts' = InsertAttempt(t, e)
  PROVE  SoundRows' /\ attempts'[t] # <<>> /\ attempts'[t][Len(attempts'[t])] = e
<1>1. /\ e \in Envelope /\ e.signer = "self" /\ e.payload = Payload[t] /\ e.nonce = rows[t].nonce
      /\ attempts[t] # <<>> => Latest(t).fee <= e.fee
  BY SignedFacts, Zenon DEF TypeInv
<1>2. OwnAttempts(t) /\ SoundRow(t, rows[t]) /\ rows[t].status # "errored"
  BY DEF SoundRows, Active, AbsentRow, ActiveStatuses
<1>3. attempts \in [Txs -> Seq(Envelope)] /\ StoreType
  BY Zenon DEF TypeInv, StoreType
<1>4. \A u \in Txs \ {t} : attempts'[u] = attempts[u] /\ rows'[u] = rows[u]
  BY <1>3, Zenon DEF InsertAttempt
<1>5. CASE e \in Envelopes(t)
  <2>1. attempts' = attempts /\ attempts[t] # <<>>
    BY <1>5 DEF InsertAttempt, Envelopes
  <2>2. Latest(t) \in Envelopes(t) /\ Latest(t) \in Envelope
    BY <1>3, <2>1, AttemptsAreEnvelopes, Zenon
  <2>3. Latest(t).signer = "self" /\ Latest(t).payload = Payload[t] /\ Latest(t).nonce = rows[t].nonce
    BY <1>2, <2>2, Zenon DEF OwnAttempts, SoundRow
  <2>4. e.fee = Latest(t).fee
    <3>1. e.fee \in Nat /\ Latest(t).fee \in Nat /\ e.fee <= Latest(t).fee
      BY <1>1, <1>2, <1>5, <2>2, EnvelopeFields, Zenon DEF OwnAttempts
    <3> QED BY <1>1, <2>1, <3>1
  <2>5. e = Latest(t)
    BY <1>1, <2>2, <2>3, <2>4 DEF Envelope
  <2>6. SoundRows'
    BY <2>1, SoundRowStays, Zenon DEF SoundRows
  <2> QED BY <2>1, <2>5, <2>6, Zenon DEF Latest
<1>6. CASE e \notin Envelopes(t)
  <2>1. attempts'[t] = Append(attempts[t], e) /\ attempts[t] \in Seq(Envelope)
    BY <1>3, <1>6, Zenon DEF InsertAttempt
  <2>2. attempts'[t] # <<>> /\ attempts'[t][Len(attempts'[t])] = e
    BY <1>1, <2>1
  <2>3. Envelopes(t)' = Envelopes(t) \cup {e} /\ Latest(t)' = e
    BY <1>1, <1>3, <2>2, InsertionAdds, Zenon DEF Latest
  <2>4. OwnAttempts(t)'
    <3>1. \A f \in Envelopes(t) : attempts[t] # <<>> /\ f.fee \in Nat /\ Latest(t).fee \in Nat
      BY <1>3, AttemptsAreEnvelopes, EnvelopeFields DEF Envelopes
    <3>2. \A f \in Envelopes(t) : f.fee <= e.fee
      BY <1>1, <1>2, <3>1, EnvelopeFields DEF OwnAttempts
    <3> QED BY <1>1, <1>2, <2>3, <3>2, EnvelopeFields DEF OwnAttempts
  <2>5. SoundRow(t, rows[t])'
    BY <1>1, <1>2, <2>3, Zenon DEF SoundRow
  <2>6. SoundRows'
    BY <1>4, <2>4, <2>5, SoundRowStays, Zenon DEF SoundRows
  <2> QED BY <2>2, <2>6, Zenon
<1> QED BY <1>5, <1>6, Zenon

\* createAndBroadcastAttempt up to the commit of the attempt.
LEMMA SignedLane ==
  ASSUME TypeInv, LaneInv, LaneHeld, NEW m \in Managers, SignAttempt(m)
  PROVE  LaneInv' /\ LaneStep
<1> DEFINE t == cur[m]
           r(e) == [tx[m] EXCEPT !.env = e, !.status = "confirming", !.pending = TRUE, !.rejected = None]
<1>1. pc[m] = "sign" /\ rows' = rows
  BY Zenon DEF SignAttempt
<1>2. /\ t \in Txs /\ tx[m] \in Row /\ Covers(lane[m]) /\ Active(rows[t])
      /\ SoundCopy(rows[t], tx[m], lane[m], policy[m], "sign")
  BY <1>1, WorkingFacts, Zenon DEF Working
<1>3. tx[m].nonce = rows[t].nonce /\ rows[t].nonce \in Nat /\ rows[t].rejected = None
  BY <1>1, <1>2, Zenon DEF SoundCopy, TypeInv, CopyType
<1>4. PICK e \in uniqueAttempts(t, tx[m].nonce) :
        \/ Fail(m, t) /\ attempts' = attempts
        \/ /\ attempts' = InsertAttempt(t, e)
           /\ WorkOn(m, t, r(e), lane[m], policy[m], "record") \/ Fail(m, t)
  BY Zenon DEF SignAttempt
<1>5. NonceHasOneOwner' /\ AssignedNonces' = AssignedNonces /\ LaneStep
  BY <1>1, Zenon DEF LaneInv, NonceHasOneOwner, AssignedNonces, LaneStep, ReleaseStep, NonceStep
<1>6. CASE attempts' = attempts /\ Fail(m, t)
  <2>1. Ends(m, t)
    BY <1>1, <1>6, EndingMoves, Zenon
  <2> QED BY <1>1, <1>6, <2>1, EndedLane, Zenon
<1>7. CASE attempts' = InsertAttempt(t, e)
  <2>1. SoundRows' /\ attempts'[t] # <<>> /\ attempts'[t][Len(attempts'[t])] = e
    BY <1>1, <1>2, <1>3, <1>4, <1>7, InsertedRows, Zenon DEF LaneInv
  <2>2. CASE Fail(m, t)
    <3>1. Ends(m, t) /\ pc'[m] = "fail"
      BY <1>1, <1>2, <2>2, EndingMoves, MoveFrames, Zenon DEF TypeInv
    <3>2. SoundBatch(m)' /\ SoundWork(m)'
      BY <3>1 DEF Ends, SoundBatch, SoundWork, Working, AbsentRow
    <3> QED BY <1>5, <2>1, <3>1, <3>2, RestingManagers, Zenon DEF LaneInv, Ends
  <2>3. CASE WorkOn(m, t, r(e), lane[m], policy[m], "record")
    <3>1. /\ r(e).env = e /\ r(e).status = "confirming" /\ r(e).rejected = None /\ r(e).nonce = tx[m].nonce
          /\ r(e).sender = tx[m].sender /\ r(e).consumed = tx[m].consumed
      BY <1>2, Zenon DEF Row
    <3> HIDE DEF r
    <3>2. SoundCopy(rows'[t], r(e), lane[m], policy[m], "record")
      BY <1>1, <1>2, <3>1, Zenon DEF SoundCopy, Active, ActiveStatuses
    <3>3. \A n \in AssignedNonces' : lane[m].known /\ n < lane[m].next
      BY <1>2, <1>5, Zenon DEF Covers
    <3> QED BY <1>1, <1>2, <1>5, <2>1, <2>3, <3>1, <3>2, <3>3, WorkedLane, Zenon DEF Working
  <2> QED BY <1>1, <1>4, <2>2, <2>3, <1>6, Zenon
<1> QED BY <1>4, <1>5, <1>6, <1>7, Zenon

\* A manager that moves on to the next stage with the same copy.
LEMMA StagedLane ==
  ASSUME TypeInv, LaneInv, LaneHeld, NEW m \in Managers, pc[m] \in Working, pc[m] # "sign",
         NEW stage \in Working, stage # "sign",
         pc' = [pc EXCEPT ![m] = stage], UNCHANGED <<attempts, lane, snap, cur, tx, policy>>,
         SoundRows', NonceHasOneOwner', AssignedNonces' \subseteq AssignedNonces,
         \A u \in Txs \ {cur[m]} : rows'[u] = rows[u],
         SoundCopy(rows'[cur[m]], tx[m], lane[m], policy[m], stage)
  PROVE  LaneInv'
<1>1. pc'[m] = stage /\ \A k \in Managers \ {m} : pc'[k] = pc[k]
  BY Zenon DEF TypeInv, LocalType
<1>2. OthersRest(m)
  BY <1>1, OthersIdle, Zenon DEF OthersRest, Working
<1>3. snap[m][cur[m]].status = "absent" /\ HoldsLatest(cur[m], tx[m]) /\ Covers(lane[m])
  BY Zenon DEF LaneInv, SoundWork, SoundBatch, Working
<1>4. SoundBatch(m)'
  <2>1. Covers(lane[m])' /\ pc'[m] \notin {"idle", "fail"}
    BY <1>1, <1>3, Zenon DEF Covers, Working
  <2>2. \A u \in Txs : snap'[m][u].status # "absent" => Active(rows'[u]) /\ snap'[m][u] = rows'[u]
    BY <1>3, Zenon DEF LaneInv, SoundBatch
  <2> QED BY <2>1, <2>2, Zenon DEF SoundBatch, Active
<1>5. SoundWork(m)'
  <2>1. HoldsLatest(cur[m], tx[m])'
    BY <1>3, Zenon DEF HoldsLatest, Latest
  <2> QED BY <1>1, <1>3, <2>1, Zenon DEF SoundWork, SoundCopy, Active, isTip
<1> QED BY <1>2, <1>4, <1>5, RestingManagers, Zenon DEF LaneInv

\* The row is committed with its new attempt, then sent.
LEMMA SentLane ==
  ASSUME TypeInv, LaneInv, LaneHeld, NEW m \in Managers, RecordAttempt(m) \/ Broadcast(m)
  PROVE  LaneInv' /\ LaneStep
<1> DEFINE t == cur[m]
<1>1. pc[m] \in {"record", "send"} /\ pc[m] \in Working /\ attempts' = attempts
  BY Zenon DEF RecordAttempt, Broadcast, Working, storeVars
<1>2. /\ t \in Txs /\ tx[m] \in Row /\ Active(rows[t]) /\ SoundRow(t, tx[m])
      /\ SoundCopy(rows[t], tx[m], lane[m], policy[m], pc[m])
  BY <1>1, WorkingFacts, Zenon
<1>3. CASE RecordAttempt(m)
  <2>1. /\ rows' = UpdateIfActive(t, tx[m])
        /\ GoTo(m, "send") \/ Continue(m, t, lane[m]) \/ Fail(m, t)
    BY <1>3, Zenon DEF RecordAttempt
  <2>2. KeepsNonce(t, tx[m])
    BY <1>2, Zenon DEF KeepsNonce, SoundCopy
  <2>3. rows' = rows \/ Saved(t, tx[m])
    BY <1>2, <2>1, <2>2, Saving, Zenon
  <2>4. CASE Continue(m, t, lane[m]) \/ Fail(m, t)
    <3>1. Ends(m, t)
      BY <1>1, <1>2, <2>4, EndingMoves, Zenon
    <3> QED BY <1>1, <1>2, <2>3, <3>1, EndedLane, Zenon
  <2>5. CASE GoTo(m, "send")
    <3>1. SoundRows' /\ NonceHasOneOwner' /\ AssignedNonces' \subseteq AssignedNonces /\ LaneStep
      BY <1>1, <1>2, <2>3, SavedRows, Zenon DEF LaneInv
    <3>2. rows'[t] = tx[m] /\ \A u \in Txs \ {t} : rows'[u] = rows[u]
      BY <1>2, <2>1, Zenon DEF UpdateIfActive, TypeInv, StoreType
    <3>3. SoundCopy(rows'[t], tx[m], lane[m], policy[m], "send")
      BY <1>1, <1>2, <3>2, Zenon DEF SoundCopy
    <3>4. pc' = [pc EXCEPT ![m] = "send"] /\ UNCHANGED <<lane, snap, cur, tx, policy>>
      BY <2>5, Zenon DEF GoTo
    <3> QED BY <1>1, <3>1, <3>2, <3>3, <3>4, StagedLane, Zenon DEF Working
  <2> QED BY <2>1, <2>4, <2>5, Zenon
<1>4. CASE Broadcast(m)
  <2>1. rows' = rows /\ pc' = [pc EXCEPT ![m] = "reply"] /\ UNCHANGED <<lane, snap, cur, tx, policy>>
    BY <1>4, Zenon DEF Broadcast, storeVars
  <2>2. SoundRows' /\ NonceHasOneOwner' /\ AssignedNonces' \subseteq AssignedNonces /\ LaneStep
    BY <1>1, <2>1, SavedRows, Zenon DEF LaneInv
  <2>3. SoundCopy(rows'[t], tx[m], lane[m], policy[m], "reply")
    BY <1>1, <1>2, <2>1, Zenon DEF SoundCopy
  <2> QED BY <1>1, <2>1, <2>2, <2>3, StagedLane, Zenon DEF Working
<1> QED BY <1>3, <1>4, Zenon

\* processLaneBatch takes the lock, reads the high-water mark and then the batch.
LEMMA LockedLane ==
  ASSUME TypeInv, LaneInv, LaneHeld, NEW m \in Managers, LockLane(m)
  PROVE  LaneInv' /\ LaneStep
<1>1. /\ rows' = rows /\ attempts' = attempts /\ pc' = [pc EXCEPT ![m] = "batch"]
      /\ UNCHANGED <<cur, tx, policy>>
  BY Zenon DEF LockLane, TryLockLane
<1>2. \A k \in Managers : pc[k] = "idle"
  BY LaneIsFree, Zenon
<1>3. SoundRows' /\ NonceHasOneOwner' /\ AssignedNonces' = AssignedNonces /\ LaneStep
  BY <1>1, SavedRows, Zenon DEF LaneInv, AssignedNonces
<1>4. PICK due \in SUBSET LaneWork :
        snap' = [snap EXCEPT ![m] = [t \in Txs |-> IF t \in due THEN rows[t] ELSE AbsentRow]]
  BY Zenon DEF LockLane
<1>5. LocalType
  BY Zenon DEF TypeInv
<1>6. OthersRest(m) /\ pc'[m] = "batch"
  BY <1>1, <1>2, <1>4, <1>5, Zenon DEF OthersRest, LocalType
<1>7. \A t \in Txs : snap'[m][t].status # "absent" => Active(rows'[t]) /\ snap'[m][t] = rows'[t]
  <2>1. \A t \in Txs : snap'[m][t] = IF t \in due THEN rows[t] ELSE AbsentRow
    BY <1>4, <1>5, Zenon DEF LocalType
  <2> QED BY <1>1, <2>1 DEF LaneWork, AbsentRow
<1>8. Covers(lane[m])'
  <2>1. \A n \in AssignedNonces : n \in Nat
    BY Zenon DEF AssignedNonces, TypeInv, StoreType, Row
  <2>2. \/ AssignedNonces = {}
        \/ \E n \in AssignedNonces : (\A k \in AssignedNonces : k <= n) /\ lane'[m] = [known |-> TRUE, next |-> n + 1]
    BY <1>5, Zenon DEF LockLane, IsMaxAssignedNonce, LocalType
  <2>3. \A k \in AssignedNonces : lane'[m].known /\ k < lane'[m].next
    <3>1. ASSUME NEW n \in AssignedNonces, \A k \in AssignedNonces : k <= n,
                 lane'[m] = [known |-> TRUE, next |-> n + 1], NEW k \in AssignedNonces
          PROVE  lane'[m].known /\ k < lane'[m].next
      <4>1. lane'[m].known = TRUE /\ lane'[m].next = n + 1
        BY <3>1
      <4>2. k < n + 1
        BY <2>1, <3>1
      <4> QED BY <4>1, <4>2, Zenon
    <3> QED BY <2>2, <3>1, Zenon
  <2> QED BY <1>3, <2>3, Zenon DEF Covers
<1>9. SoundBatch(m)' /\ SoundWork(m)'
  BY <1>6, <1>7, <1>8, Zenon DEF SoundBatch, SoundWork, Working, Active
<1> QED BY <1>3, <1>6, <1>9, RestingManagers, Zenon DEF LaneInv

\* LaneInv is not about the lock, the clocks or the network.
LEMMA UnmovedLane ==
  ASSUME TypeInv, LaneInv, UNCHANGED <<rows, attempts, localVars>>
  PROVE  LaneInv' /\ LaneStep
<1>1. SoundRows' /\ NonceHasOneOwner' /\ AssignedNonces' = AssignedNonces /\ LaneStep
  BY SavedRows, Zenon DEF LaneInv, AssignedNonces
<1>2. \A m \in Managers : SoundBatch(m)' /\ SoundWork(m)'
  BY <1>1, Zenon DEF LaneInv, SoundBatch, SoundWork, Covers, HoldsLatest, Latest, localVars
<1> QED BY <1>1, <1>2, Zenon DEF LaneInv

\* What the caller, the clocks and the network do.
LEMMA EnvironmentLane ==
  ASSUME TypeInv, LaneInv,
         \/ Network \/ Quiescent \/ UNCHANGED vars
         \/ \E t \in Txs : SendTxAsync(t) \/ Age(t) \/ Elapse(t)
  PROVE  LaneInv' /\ LaneStep
<1>1. attempts' = attempts /\ UNCHANGED localVars /\ UNCHANGED <<pc, lane, snap, cur, tx, policy>>
  BY EnvironmentFrame, Zenon DEF localVars
<1>2. CASE rows' = rows
  BY <1>1, <1>2, UnmovedLane, Zenon
<1>3. ASSUME NEW t \in Txs, SendTxAsync(t) PROVE LaneInv' /\ LaneStep
  <2> DEFINE q == [AbsentRow EXCEPT !.status = "pending", !.sender = "self"]
  <2>1. rows[t] = AbsentRow /\ rows' = [rows EXCEPT ![t] = q]
    BY <1>3, Zenon DEF SendTxAsync
  <2>2. rows'[t] = q /\ \A u \in Txs \ {t} : rows'[u] = rows[u]
    BY <2>1, Zenon DEF TypeInv, StoreType
  <2>3. q \in Row /\ q.status = "pending" /\ q.sender = "self" /\ q.nonce = None /\ q.env = None /\ q.rejected = None
    BY Zenon DEF AbsentRow, Row, ActiveStatuses, Signers
  <2> HIDE DEF q
  <2>4. attempts[t] = <<>> /\ rows[t].nonce = None /\ rows[t].status = "absent" /\ ~Active(rows[t])
    BY <2>1 DEF LaneInv, SoundRows, SoundRow, AbsentRow, Active, ActiveStatuses
  <2>5. SoundRow(t, q)
    BY <2>3, <2>4 DEF SoundRow, Envelopes
  <2>6. SoundRows'
    BY <1>1, <2>2, <2>5, SoundRowStays, Zenon DEF LaneInv, SoundRows
  <2>7. NonceHasOneOwner' /\ AssignedNonces' \subseteq AssignedNonces
    BY <2>2, <2>3 DEF LaneInv, NonceHasOneOwner, AssignedNonces
  <2>8. LaneStep
    BY <2>2, <2>4, <2>7, Zenon DEF LaneStep, ReleaseStep, NonceStep
  <2>9. ASSUME NEW m \in Managers PROVE SoundBatch(m)' /\ SoundWork(m)'
    <3>1. \A u \in Txs : snap[m][u].status # "absent" => u # t
      BY <2>4, Zenon DEF LaneInv, SoundBatch
    <3>2. SoundBatch(m)'
      BY <1>1, <2>2, <2>7, <3>1, Zenon DEF LaneInv, SoundBatch, Covers, Active
    <3>3. pc[m] \in Working => cur[m] \in Txs \ {t}
      BY <2>4, Zenon DEF LaneInv, SoundWork, SoundCopy, TypeInv, CopyType, Working
    <3>4. SoundWork(m)'
      BY <1>1, <2>2, <3>3, Zenon DEF LaneInv, SoundWork, HoldsLatest, Latest
    <3> QED BY <3>2, <3>4, Zenon
  <2> QED BY <2>6, <2>7, <2>8, <2>9, Zenon DEF LaneInv
<1> QED BY <1>2, <1>3, Zenon DEF Network, Quiescent, Age, Elapse, vars, storeVars

-----------------------------------------------------------------------------
\* A row without the traces of the old schema is never recovered from one.
LEMMA NothingToRecover ==
  ASSUME TypeInv, LaneInv, NEW m \in Managers, NEW t \in Txs
  PROVE  ~RecoverLegacy(m, t)
BY LoadedFacts, Zenon DEF RecoverLegacy

\* LaneInv is inductive while one replica works at a time and no row is of the
\* old schema.
LEMMA LaneInvInductive ==
  ASSUME Exclusive
  PROVE  /\ DOMAIN Legacy = {} /\ Init => LaneInv
         /\ TypeInv /\ CompetingInv /\ LaneInv /\ [Next]_vars => LaneInv' /\ LaneStep
<1>1. ASSUME DOMAIN Legacy = {}, Init PROVE LaneInv
  <2>1. \A t \in Txs : rows[t] = AbsentRow /\ attempts[t] = <<>> /\ Envelopes(t) = {}
    BY <1>1 DEF Init, Envelopes
  <2>2. SoundRows /\ NonceHasOneOwner
    <3>1. SoundRows
      BY <2>1, Zenon DEF SoundRows, OwnAttempts
    <3>2. NonceHasOneOwner
      BY <2>1 DEF NonceHasOneOwner, AbsentRow
    <3> QED BY <3>1, <3>2, Zenon
  <2>3. \A m \in Managers : pc[m] = "idle" /\ \A t \in Txs : snap[m][t] = AbsentRow
    BY <1>1, Zenon DEF Init, EmptyBatch
  <2>4. \A m \in Managers : SoundBatch(m) /\ SoundWork(m)
    BY <2>3 DEF SoundBatch, SoundWork, Working, AbsentRow
  <2> QED BY <2>2, <2>4, Zenon DEF LaneInv
<1>2. ASSUME TypeInv, CompetingInv, LaneInv, [Next]_vars PROVE LaneInv' /\ LaneStep
  <2>1. LaneHeld
    BY <1>2, Zenon DEF CompetingInv, Competing
  <2>2. ASSUME NEW m \in Managers, Manage(m) PROVE LaneInv' /\ LaneStep
    <3>1. ASSUME NEW t \in Txs, ProcessRow(m, t) PROVE LaneInv' /\ LaneStep
      BY <1>2, <2>1, <3>1, NothingToRecover, EndingLane, StartedLane, AssignedLane, Zenon
           DEF ProcessRow, Ending
    <3>2. CASE LoseLock(m)
      BY <1>2, <3>2, UnmovedLane, Zenon DEF LoseLock
    <3> QED BY <1>2, <2>1, <2>2, <3>1, <3>2, SignedLane, SentLane, RepliedLane, AbortedLane, LockedLane, Zenon
         DEF Manage
  <2> QED BY <1>2, <2>2, EnvironmentLane, Zenon DEF Next
<1> QED BY <1>1, <1>2, Zenon

\* Two rows never hold one nonce of the lane, whatever replicas take turns and
\* wherever they crash: reserve hands out a nonce only under the lock, only above
\* the durable high-water mark, and the row is saved before anything is signed.
THEOREM OneOwnerPerNonce ==
  ASSUME Exclusive, DOMAIN Legacy = {}
  PROVE  Spec => []NonceHasOneOwner
<1>1. LaneInv => NonceHasOneOwner
  BY Zenon DEF LaneInv
<1> QED BY <1>1, LaneInvInductive, CompetingInductive, TypeInvInductive, PTL DEF Spec

\* A nonce is given up only while it is the highest of the lane: no follower is
\* left behind a gap (the isTip guards of the two releasing steps).
THEOREM OnlyTheTipIsReleased ==
  ASSUME Exclusive, DOMAIN Legacy = {}
  PROVE  Spec => ReleasesOnlyTip
<1>1. LaneStep => [\A t \in Txs : rows[t].nonce # None /\ rows'[t].nonce = None
                                    => \A n \in AssignedNonces : n <= rows[t].nonce]_vars
  BY Zenon DEF LaneStep, ReleaseStep
<1> QED BY <1>1, LaneInvInductive, CompetingInductive, TypeInvInductive, PTL DEF Spec, ReleasesOnlyTip

\* No row the manager itself wrote is ever parked as unprocessable: the evidence
\* of a rejection names the latest attempt, also when an attempt is signed twice
\* or committed by a write that reported an error.
THEOREM NothingIsParked ==
  ASSUME Exclusive, DOMAIN Legacy = {}
  PROVE  Spec => []NeverParked
<1>1. TypeInv /\ LaneInv => NeverParked
  BY LoadedFacts, Zenon DEF NeverParked, Loaded
<1> QED BY <1>1, LaneInvInductive, CompetingInductive, TypeInvInductive, PTL DEF Spec

-----------------------------------------------------------------------------
(* What a step does to the network.                                        *)

\* The network moves by itself or takes in a send; every other step only reads.
LEMMA NodeMoves ==
  ASSUME TypeInv, [Next]_vars
  PROVE  UNCHANGED nodeVars \/ Network \/ \E m \in Managers : Broadcast(m)
<1>1. ASSUME NEW m \in Managers, Manage(m) PROVE UNCHANGED nodeVars \/ Broadcast(m)
  BY <1>1, SettlingFrame, EndingFrame, StartingFrame, Zenon
     DEF TypeInv, Manage, ProcessRow, Ending, Settling, RecoverLegacy, SignAttempt, RecordAttempt,
         LockLane, LoseLock
<1>2. CASE UNCHANGED vars \/ Quiescent \/ \E t \in Txs : SendTxAsync(t) \/ Age(t) \/ Elapse(t)
  BY <1>2, Zenon DEF vars, Quiescent, SendTxAsync, Age, Elapse
<1> QED BY <1>1, <1>2, Zenon DEF Next

\* The network holds, or has mined, something at nonce n of the lane.
Admitted(n) == n < chainNonce["self"] \/ \E e \in pool : e.signer = "self" /\ e.nonce = n

\* Unless the network evicts, what it has admitted stays in until it is mined.
LEMMA AdmittedStays ==
  ASSUME TypeInv, ~Evicts, [Next]_vars, NEW n \in Nat, Admitted(n)
  PROVE  Admitted(n)'
<1>1. chainNonce \in [Signers -> Nat] /\ "self" \in Signers
  BY Zenon DEF TypeInv, NodeType, Signers
<1>2. CASE pool \subseteq pool' /\ chainNonce' = chainNonce
  BY <1>2, Zenon DEF Admitted
<1>3. ASSUME NEW e, e.signer \in Signers, MineEnvelope(e) PROVE Admitted(n)'
  <2>1. /\ e.nonce = chainNonce[e.signer] /\ pool' = pool \ Consumes(e)
        /\ chainNonce' = [chainNonce EXCEPT ![e.signer] = chainNonce[e.signer] + 1]
    BY <1>3, Zenon DEF MineEnvelope
  <2>2. chainNonce["self"] \in Nat /\ chainNonce'["self"] \in Nat /\ chainNonce["self"] <= chainNonce'["self"]
    BY <1>1, <1>3, <2>1
  <2>3. CASE n < chainNonce["self"]
    BY <2>2, <2>3 DEF Admitted
  <2>4. ASSUME NEW f \in pool, f.signer = "self", f.nonce = n PROVE Admitted(n)'
    <3>1. CASE f \in pool'
      BY <2>4, <3>1, Zenon DEF Admitted
    <3>2. CASE f \notin pool'
      <4>1. e.signer = "self" /\ e.nonce = n
        BY <2>1, <2>4, <3>2, Zenon DEF Consumes
      <4> QED BY <1>1, <2>1, <4>1 DEF Admitted
    <3> QED BY <3>1, <3>2, Zenon
  <2> QED BY <2>3, <2>4, Zenon DEF Admitted
<1>4. CASE Network
  <2>1. \A e \in pool : e.signer \in Signers
    BY EnvelopeFields, Zenon DEF TypeInv, NodeType
  <2>2. Foreign("self").signer \in Signers
    BY Zenon DEF Foreign, Signers
  <2> QED BY <1>2, <1>3, <1>4, <2>1, <2>2, Zenon DEF Network, Mine, ForeignMine, Publish, Propagate, Evict
<1>5. ASSUME NEW m \in Managers, Broadcast(m) PROVE Admitted(n)'
  BY <1>2, <1>5, Zenon DEF Broadcast, SendTransaction
<1> QED BY <1>2, <1>4, <1>5, NodeMoves, Zenon DEF nodeVars

\* No nonce is assigned above one the network does not hold: reserve takes only
\* the nonce the node itself would use next, so a send that was never admitted
\* holds up the rows behind it instead of stranding their signed envelopes.
THEOREM NonceNeverCascades ==
  ASSUME Exclusive, DOMAIN Legacy = {}, ~Evicts
  PROVE  Spec => []NoCascade
<1>1. DOMAIN Legacy = {} /\ Init => NoCascade
  <2>1. DOMAIN Legacy = {} /\ Init => AssignedNonces = {}
    BY DEF Init, AssignedNonces, AbsentRow
  <2> QED BY <2>1, Zenon DEF NoCascade
<1>2. ASSUME TypeInv, TypeInv', NoCascade, LaneStep, [Next]_vars PROVE NoCascade'
  <2>1. AssignedNonces \subseteq Nat /\ chainNonce["self"] \in Nat
    BY <1>2, Zenon DEF AssignedNonces, TypeInv, StoreType, NodeType, Row, Signers
  <2>2. \A n, k \in AssignedNonces : n < k => Admitted(n)'
    BY <1>2, <2>1, AdmittedStays, Zenon DEF NoCascade, Admitted
  <2>3. CASE AssignedNonces' \subseteq AssignedNonces
    BY <2>2, <2>3, Zenon DEF NoCascade, Admitted
  <2>4. ASSUME NEW n \in Nat, AssignedNonces' \subseteq AssignedNonces \cup {n},
               \A k \in AssignedNonces : k < n, PendingNonceAt("self", n)
        PROVE  NoCascade'
    <3>1. \A k \in AssignedNonces : Admitted(k)
      BY <2>1, <2>4 DEF PendingNonceAt, Admitted
    <3>2. \A k \in AssignedNonces : Admitted(k)'
      BY <1>2, <2>1, <3>1, AdmittedStays, Zenon
    <3>3. \A k, l \in AssignedNonces' : k < l => k \in AssignedNonces
      BY <2>1, <2>4
    <3> QED BY <3>2, <3>3, Zenon DEF NoCascade, Admitted
  <2> QED BY <1>2, <2>3, <2>4, Zenon DEF LaneStep, NonceStep
<1> QED BY <1>1, <1>2, LaneInvInductive, CompetingInductive, TypeInvInductive, PTL DEF Spec
=============================================================================
