---------------------------- MODULE ContractProofs ----------------------------
(***************************************************************************)
(* The manager implements its contract, for any number of rows, replicas   *)
(* and attempts: a row is abandoned only when no attempt of it is or ever  *)
(* will be mined, and completes only when one is.  VerdictInv says why the *)
(* evidence behind each verdict is sound: what the endpoint was asked, and *)
(* what the grace periods give it time to learn.                           *)
(***************************************************************************)
EXTENDS LaneProofs

\* What the theorems need: one replica at work, no rows of the old schema, a
\* rejection every backend shares, and receipts that can be read.
Reliable == Exclusive /\ DOMAIN Legacy = {} /\ StableRejection /\ ~ReceiptReadsFail

Live == pool \cup mined

\* The network: what is pooled is ahead of the chain and not another user's, and
\* what was refused for good is nowhere.
NodeVerdict ==
  /\ \A e \in pool : e.nonce >= chainNonce[e.signer] /\ e.payload # "foreign"
  /\ receipts \subseteq mined
  /\ \A e \in refused : e.payload # "foreign" /\ e \notin Live

\* What a stored row r of transaction t claims is so.
Justified(t, r) ==
  /\ Active(r) /\ r.consumed => r.nonce # None /\ r.nonce < chainNonce["self"]
  /\ Active(r) /\ r.rejected # None => Envelopes(t) \cap Live \subseteq seen
  /\ r.status \in {"succeed", "failed"} =>
       /\ Envelopes(t) \cap mined # {}
       /\ r.status = IF Payload[t] \in Reverts THEN "failed" ELSE "succeed"
  /\ r.status = "errored" => Envelopes(t) \cap Live = {}

\* What the two grace periods have given the endpoint time to learn.
Graced(t) ==
  /\ elapsed[t] => rows[t].consumed
  /\ Active(rows[t]) /\ elapsed[t] => Envelopes(t) \cap mined \subseteq receipts
  /\ aged[t] => (Envelopes(t) \ {Latest(t)}) \cap Live \subseteq seen

\* What the manager at work has learnt of the attempt in its hands.
WorkVerdict(m) ==
  /\ pc[m] = "reply" /\ reply[m] = "nonceConsumed" => tx[m].nonce < chainNonce["self"]
  /\ pc[m] = "reply" /\ reply[m] = "rejectedPermanent" => tx[m].env \in refused
  /\ pc[m] = "reconcile" => rows[cur[m]].rejected # None
  /\ policy[m].firstAttemptThisPass =>
       /\ pc[m] = "sign" => attempts[cur[m]] = <<>>
       /\ pc[m] \in {"record", "send", "reply"} => Envelopes(cur[m]) = {tx[m].env}

RowVerdict == \A t \in Txs : Justified(t, rows[t]) /\ Graced(t)

VerdictInv == NodeVerdict /\ RowVerdict /\ \A m \in Managers : WorkVerdict(m)

-----------------------------------------------------------------------------
(* What the network may do behind the rows' backs.                         *)

\* The chain grows, and of the envelopes outside X that are the lane's own none
\* enters the network, none is mined from outside the pool, and none is forgotten.
Steady(X) ==
  /\ mined \subseteq mined' /\ receipts \subseteq receipts' /\ refused \subseteq refused'
  /\ chainNonce["self"] <= chainNonce'["self"]
  /\ \A f \in Envelope : f.payload # "foreign" /\ f \notin X =>
       /\ f \in Live' => f \in Live
       /\ f \in Live' /\ f \in seen => f \in seen'
  /\ \A f \in Envelope : f.payload # "foreign" /\ f \in mined' => f \in mined \cup pool

\* The attempts of a row are envelopes of the lane, none of them another user's.
LEMMA OwnEnvelopes ==
  ASSUME TypeInv, LaneInv, NEW t \in Txs
  PROVE  \A e \in Envelopes(t) : /\ e \in Envelope /\ e.payload = Payload[t] /\ e.payload # "foreign"
                                 /\ e.signer = "self" /\ e.nonce \in Nat
<1>1. Envelopes(t) \subseteq Envelope
  BY AttemptsAreEnvelopes, Zenon DEF TypeInv
<1>2. \A e \in Envelopes(t) : e.payload = Payload[t] /\ e.signer = "self"
  BY Zenon DEF LaneInv, SoundRows, OwnAttempts
<1> QED BY <1>1, <1>2, EnvelopeFields, TxManagerAssumptions, Zenon

\* Mining one envelope: of the pool, or another user's.
LEMMA MinedVerdict ==
  ASSUME TypeInv, OneEnvelopePerNonce, NodeVerdict, NEW e \in Envelope, MineEnvelope(e),
         e \in pool \/ e.payload = "foreign"
  PROVE  NodeVerdict' /\ Steady({})
<1>1. /\ e.nonce = chainNonce[e.signer] /\ mined' = mined \cup {e}
      /\ chainNonce' = [chainNonce EXCEPT ![e.signer] = chainNonce[e.signer] + 1]
      /\ pool' = pool \ Consumes(e) /\ seen' = seen \ (Consumes(e) \ {e})
      /\ receipts' = receipts /\ refused' = refused
  BY Zenon DEF MineEnvelope
<1>2. e.signer \in Signers /\ chainNonce \in [Signers -> Nat] /\ "self" \in Signers
  BY EnvelopeFields, Zenon DEF TypeInv, NodeType, Signers
<1>3. \A f \in pool : f.signer \in Signers /\ f.nonce \in Nat
  BY EnvelopeFields, Zenon DEF TypeInv, NodeType
<1>4. \A f \in pool' : f \in pool /\ f.nonce >= chainNonce'[f.signer]
  <2>1. SUFFICES ASSUME NEW f \in pool' PROVE f \in pool /\ f.nonce >= chainNonce'[f.signer]
    BY Zenon
  <2>2. f \in pool /\ ~(f.signer = e.signer /\ f.nonce = e.nonce) /\ f.nonce >= chainNonce[f.signer]
    BY <1>1, Zenon DEF Consumes, NodeVerdict
  <2> QED BY <1>1, <1>2, <1>3, <2>2
<1>5. NodeVerdict'
  <2>1. \A f \in refused : f # e /\ f \notin mined' \cup pool'
    BY <1>1, Zenon DEF NodeVerdict, Live
  <2> QED BY <1>1, <1>4, <2>1, Zenon DEF NodeVerdict, Live
<1>6. \A f \in Consumes(e) : f \in pool /\ f \notin mined
  <2>1. \A f \in pool : f \notin mined
    BY <1>2, <1>3 DEF NodeVerdict, OneEnvelopePerNonce
  <2> QED BY <2>1, Zenon DEF Consumes
<1>7. chainNonce["self"] <= chainNonce'["self"]
  BY <1>1, <1>2
<1>8. \A f \in Envelope : f.payload # "foreign" /\ f \in mined' => f \in mined \cup pool
  BY <1>1, Zenon
<1>9. \A f \in Envelope : f.payload # "foreign" /\ f \in Live' => f \in Live /\ (f \in seen => f \in seen')
  BY <1>1, <1>6, Zenon DEF Live
<1> QED BY <1>1, <1>5, <1>7, <1>8, <1>9, Zenon DEF Steady

\* Everything the network does.
LEMMA NetworkVerdict ==
  ASSUME TypeInv, OneEnvelopePerNonce, NodeVerdict, Network
  PROVE  NodeVerdict' /\ Steady({})
<1>0. pool \subseteq Envelope /\ chainNonce \in [Signers -> Nat] /\ "self" \in Signers
  BY Zenon DEF TypeInv, NodeType, Signers
<1>1. CASE Mine
  BY <1>0, <1>1, MinedVerdict, Zenon DEF Mine
<1>2. CASE ForeignMine
  <2>1. Foreign("self") \in Envelope /\ Foreign("self").payload = "foreign"
    BY <1>0, Zenon DEF Foreign, Envelope, Payloads
  <2> QED BY <1>2, <2>1, MinedVerdict, Zenon DEF ForeignMine
<1>3. CASE Publish \/ Propagate
  BY <1>0, <1>3 DEF Publish, Propagate, NodeVerdict, Steady, Live
<1>4. CASE Evict
  <2>1. PICK e \in pool : /\ pool' = pool \ {e} /\ seen' = seen \ {e}
                          /\ UNCHANGED <<mined, receipts, chainNonce, refused>>
    BY <1>4, Zenon DEF Evict
  <2>2. e \notin mined
    <3>1. e.signer \in Signers /\ e.nonce \in Nat
      BY <1>0, EnvelopeFields, Zenon
    <3> QED BY <1>0, <3>1 DEF NodeVerdict, OneEnvelopePerNonce
  <2>3. NodeVerdict'
    BY <2>1, Zenon DEF NodeVerdict, Live
  <2> QED BY <1>0, <2>1, <2>2, <2>3 DEF Steady, Live
<1> QED BY <1>1, <1>2, <1>3, <1>4, Zenon DEF Network

\* A send, of an envelope of the lane.
LEMMA SendVerdict ==
  ASSUME TypeInv, StableRejection, NodeVerdict, NEW e \in Envelope, e.payload # "foreign",
         NEW rep, SendTransaction(e, rep)
  PROVE  /\ NodeVerdict' /\ Steady({e})
         /\ rep = "nonceConsumed" => e.nonce < chainNonce'[e.signer]
         /\ rep = "rejectedPermanent" => e \in refused'
<1>0. chainNonce \in [Signers -> Nat] /\ "self" \in Signers
  BY Zenon DEF TypeInv, NodeType, Signers
<1>1. /\ pool \subseteq pool' /\ pool' \subseteq pool \cup {e} /\ (pool' # pool => Admissible(e))
      /\ seen \subseteq seen' /\ UNCHANGED <<mined, receipts, chainNonce>>
      /\ refused \subseteq refused' /\ refused' \subseteq refused \cup {e}
      /\ refused' # refused => pool' = pool /\ e \notin Live
  BY Zenon DEF SendTransaction, Live
<1>2. e \in pool' => e \in pool \/ (e.nonce >= chainNonce[e.signer] /\ e \notin refused)
  BY <1>1, Zenon DEF Admissible
<1>3. NodeVerdict'
  <2>1. \A f \in pool' : f.nonce >= chainNonce'[f.signer] /\ f.payload # "foreign"
    BY <1>1, <1>2, Zenon DEF NodeVerdict
  <2>2. \A f \in refused' : f.payload # "foreign" /\ f \notin Live'
    BY <1>1, <1>2, Zenon DEF NodeVerdict, Live
  <2> QED BY <1>1, <2>1, <2>2, Zenon DEF NodeVerdict
<1>4. Steady({e})
  BY <1>0, <1>1 DEF Steady, Live
<1>5. /\ rep = "nonceConsumed" => e.nonce < chainNonce'[e.signer]
      /\ rep = "rejectedPermanent" => e \in refused'
  BY Zenon DEF SendTransaction
<1> QED BY <1>3, <1>4, <1>5, Zenon

\* While the rows and the clocks rest, what they claim stays so: an envelope that
\* enters the network is the latest attempt of a row that claims nothing of it.
LEMMA SteadyRows ==
  ASSUME TypeInv, LaneInv, NodeVerdict, RowVerdict, NEW X, Steady(X),
         UNCHANGED <<rows, attempts, clockVars>>, chainNonce'["self"] \in Nat,
         \A t \in Txs : X \cap Envelopes(t) # {} =>
           Active(rows[t]) /\ rows[t].rejected = None /\ X \subseteq {Latest(t)}
  PROVE  RowVerdict'
<1> SUFFICES ASSUME NEW t \in Txs PROVE Justified(t, rows[t])' /\ Graced(t)'
  BY Zenon DEF RowVerdict
<1> DEFINE S == Envelopes(t)
           r == rows[t]
<1>1. Envelopes(t)' = S /\ Latest(t)' = Latest(t) /\ rows'[t] = r /\ elapsed'[t] = elapsed[t] /\ aged'[t] = aged[t]
  BY Zenon DEF Envelopes, Latest, clockVars
<1>2. \A e \in S : e \in Envelope /\ e.payload # "foreign" /\ e.signer = "self" /\ e.nonce \in Nat
  BY OwnEnvelopes, Zenon
<1>3. Justified(t, r) /\ Graced(t) /\ r \in Row
  BY Zenon DEF RowVerdict, TypeInv, StoreType
<1>4. chainNonce["self"] \in Nat
  BY Zenon DEF TypeInv, NodeType, Signers
<1>5. \A f \in S \ X : /\ f \in Live' => f \in Live
                       /\ f \in Live' /\ f \in seen => f \in seen'
  BY <1>2, Zenon DEF Steady
<1>6. Active(r) /\ r.consumed => r.nonce # None /\ r.nonce < chainNonce'["self"]
  BY <1>3, <1>4 DEF Justified, Steady, Row
<1>7. Active(r) /\ r.rejected # None => S \cap Live' \subseteq seen'
  BY <1>3, <1>5, Zenon DEF Justified
<1>8. r.status = "errored" => S \cap Live' = {}
  BY <1>3, <1>5, Zenon DEF Justified, Active, ActiveStatuses
<1>9. Active(r) /\ elapsed[t] => r.consumed /\ S \cap mined' \subseteq receipts'
  <2> SUFFICES ASSUME Active(r), elapsed[t] PROVE r.consumed /\ S \cap mined' \subseteq receipts'
    BY Zenon
  <2>1. r.consumed /\ S \cap mined \subseteq receipts /\ r.nonce \in Nat /\ r.nonce < chainNonce["self"]
    BY <1>3, Zenon DEF Graced, Justified, Row
  <2>2. \A f \in S : f.nonce = r.nonce
    BY DEF LaneInv, SoundRows, SoundRow, Active, ActiveStatuses, AbsentRow
  <2>3. S \cap pool = {}
    BY <1>2, <1>4, <2>1, <2>2 DEF NodeVerdict
  <2> QED BY <1>2, <2>1, <2>3, Zenon DEF Steady
<1>10. aged[t] => (S \ {Latest(t)}) \cap Live' \subseteq seen'
  BY <1>3, <1>5, Zenon DEF Graced
<1>11. r.status \in {"succeed", "failed"} =>
         S \cap mined' # {} /\ r.status = IF Payload[t] \in Reverts THEN "failed" ELSE "succeed"
  BY <1>3, Zenon DEF Justified, Steady
<1> HIDE DEF S
<1>12. Justified(t, rows[t])'
  BY <1>1, <1>6, <1>7, <1>8, <1>11, Zenon DEF Justified, Active
<1>13. Graced(t)'
  BY <1>1, <1>3, <1>9, <1>10, Zenon DEF Graced, Active
<1> QED BY <1>12, <1>13, Zenon

-----------------------------------------------------------------------------
(* What a save claims.                                                     *)

\* A row that may be saved over the stored one.
Warranted(t, r) == Justified(t, r) /\ r.status # "absent" /\ (rows[t].consumed => r.consumed)

\* A step that saves at most one row, and claims nothing else.
SaveStep ==
  /\ UNCHANGED <<attempts, nodeVars, aged>>
  /\ \A u \in Txs : elapsed'[u] => elapsed[u]
  /\ \/ rows' = rows
     \/ \E t \in Txs, r \in Row : Active(rows[t]) /\ rows' = [rows EXCEPT ![t] = r] /\ Warranted(t, r)

LEMMA SavedVerdict ==
  ASSUME TypeInv, NodeVerdict, RowVerdict, SaveStep
  PROVE  NodeVerdict' /\ RowVerdict'
<1>1. NodeVerdict' /\ Live' = Live
  BY Zenon DEF SaveStep, NodeVerdict, Live, nodeVars
<1>2. ASSUME NEW u \in Txs, Justified(u, rows'[u]), rows'[u] = rows[u] \/ (Active(rows[u]) /\ (rows[u].consumed => rows'[u].consumed))
      PROVE  Justified(u, rows[u])' /\ Graced(u)'
  <2>1. Envelopes(u)' = Envelopes(u) /\ Latest(u)' = Latest(u) /\ aged'[u] = aged[u] /\ (elapsed'[u] => elapsed[u])
    BY Zenon DEF SaveStep, Envelopes, Latest
  <2>2. UNCHANGED <<chainNonce, seen, mined, receipts>>
    BY Zenon DEF SaveStep, nodeVars
  <2>3. Justified(u, rows[u])'
    BY <1>1, <1>2, <2>1, <2>2, Zenon DEF Justified, Active
  <2>4. Graced(u)
    BY Zenon DEF RowVerdict
  <2>5. /\ elapsed'[u] => rows'[u].consumed
        /\ Active(rows'[u]) /\ elapsed'[u] => Envelopes(u) \cap mined \subseteq receipts
    BY <1>2, <2>1, <2>4, Zenon DEF Graced
  <2>6. aged[u] => (Envelopes(u) \ {Latest(u)}) \cap Live \subseteq seen
    BY <2>4, Zenon DEF Graced
  <2> QED BY <1>1, <2>1, <2>2, <2>3, <2>5, <2>6, Zenon DEF Graced, Active
<1>3. CASE rows' = rows
  BY <1>1, <1>2, <1>3, Zenon DEF RowVerdict
<1>4. ASSUME NEW t \in Txs, NEW r \in Row, Active(rows[t]), rows' = [rows EXCEPT ![t] = r], Warranted(t, r)
      PROVE  RowVerdict'
  <2>1. rows'[t] = r /\ \A u \in Txs \ {t} : rows'[u] = rows[u]
    BY <1>4, Zenon DEF TypeInv, StoreType
  <2> QED BY <1>2, <1>4, <2>1, Zenon DEF RowVerdict, Warranted
<1> QED BY <1>1, <1>3, <1>4, Zenon DEF SaveStep

\* UpdateIfActive with a warranted row.
LEMMA WarrantedSave ==
  ASSUME NEW t \in Txs, NEW r \in Row, Warranted(t, r), rows' = UpdateIfActive(t, r),
         UNCHANGED <<attempts, nodeVars, aged>>, \A u \in Txs : elapsed'[u] => elapsed[u]
  PROVE  SaveStep
BY Zenon DEF SaveStep, UpdateIfActive

\* The row transitions are warranted: a row is scheduled on, or completed by the
\* receipt of an attempt, or abandoned when the network holds none of them.
LEMMA WarrantedTransitions ==
  ASSUME TypeInv, LaneInv, NodeVerdict, NEW t \in Txs, NEW r \in Row, Active(r), Warranted(t, r)
  PROVE  /\ Warranted(t, scheduleNextCheck(t, r)) /\ scheduleNextCheck(t, r) \in Row
         /\ Envelopes(t) \cap Live = {} => Warranted(t, abandonTransaction(r)) /\ abandonTransaction(r) \in Row
         /\ \A e : ReceiptFound(t, e) => /\ Warranted(t, finalizeTransaction(r, e))
                                         /\ finalizeTransaction(r, e) \in Row
<1>1. Warranted(t, scheduleNextCheck(t, r)) /\ scheduleNextCheck(t, r) \in Row
  <2> DEFINE q == scheduleNextCheck(t, r)
  <2>1. q \in Row /\ Active(q) /\ q.consumed = r.consumed /\ q.nonce = r.nonce /\ q.rejected = r.rejected
    BY Zenon DEF scheduleNextCheck, Row, Active, ActiveStatuses
  <2> HIDE DEF q
  <2>2. Warranted(t, q)
    BY <2>1, Zenon DEF Warranted, Justified, Active, ActiveStatuses
  <2> QED BY <2>1, <2>2, Zenon DEF q
<1>2. ASSUME Envelopes(t) \cap Live = {} PROVE Warranted(t, abandonTransaction(r)) /\ abandonTransaction(r) \in Row
  <2> DEFINE q == abandonTransaction(r)
  <2>1. q \in Row /\ q.status = "errored" /\ q.consumed = r.consumed
    BY Zenon DEF abandonTransaction, Row, TerminalStatuses
  <2> HIDE DEF q
  <2>2. Warranted(t, q)
    BY <1>2, <2>1, Zenon DEF Warranted, Justified, Active, ActiveStatuses
  <2> QED BY <2>1, <2>2, Zenon DEF q
<1>3. ASSUME NEW e, ReceiptFound(t, e) PROVE Warranted(t, finalizeTransaction(r, e)) /\ finalizeTransaction(r, e) \in Row
  <2> DEFINE s == IF e.payload \in Reverts THEN "failed" ELSE "succeed"
             q == finalizeTransaction(r, e)
  <2>1. e \in Envelopes(t) /\ e \in mined /\ e \in Envelope /\ e.payload = Payload[t]
    BY <1>3, OwnEnvelopes, Zenon DEF ReceiptFound, NodeVerdict
  <2>2. q = [r EXCEPT !.env = e, !.rejected = None, !.status = s]
    BY Zenon DEF finalizeTransaction
  <2>3. s \in {"failed", "succeed"} /\ s = IF Payload[t] \in Reverts THEN "failed" ELSE "succeed"
    BY <2>1, Zenon
  <2> HIDE DEF s, q
  <2>4. q \in Row /\ q.status = s /\ q.consumed = r.consumed
    BY <2>1, <2>2, <2>3, Zenon DEF Row, TerminalStatuses
  <2>5. Warranted(t, q)
    BY <2>1, <2>3, <2>4, Zenon DEF Warranted, Justified, Active, ActiveStatuses
  <2> QED BY <2>4, <2>5, Zenon DEF q
<1> QED BY <1>1, <1>2, <1>3, Zenon

\* A copy that claims no more than the stored row, and no evidence of its own.
LEMMA WarrantedCopy ==
  ASSUME TypeInv, LaneInv, RowVerdict, NEW t \in Txs, NEW r, Active(rows[t]), Active(r),
         r.nonce = rows[t].nonce, r.consumed = rows[t].consumed, r.rejected \in {rows[t].rejected, None}
  PROVE  Warranted(t, r)
<1>1. Justified(t, rows[t])
  BY Zenon DEF RowVerdict
<1> QED BY <1>1, Zenon DEF Warranted, Justified, Active, ActiveStatuses

-----------------------------------------------------------------------------
(* reconcileRejectedSubmission: why each of its verdicts is right.         *)

\* The pending nonce has passed that of a row none of whose attempts the network
\* holds: since no other row competes for the nonce, the chain is past it.
LEMMA PassedNonce ==
  ASSUME TypeInv, LaneInv, Durable, NodeVerdict, RowVerdict, NEW t \in Txs, Active(rows[t]),
         rows[t].nonce \in Nat, Envelopes(t) \cap Live = {}, PendingNonceAt("self", rows[t].nonce + 1)
  PROVE  rows[t].nonce < chainNonce["self"]
<1> DEFINE n == rows[t].nonce
<1>1. chainNonce["self"] \in Nat
  BY Zenon DEF TypeInv, NodeType, Signers
<1>2. SUFFICES ASSUME n >= chainNonce["self"] PROVE FALSE
  BY <1>1
<1>3. n \in chainNonce["self"]..((n + 1) - 1)
  BY <1>1, <1>2
<1>4. PICK e \in pool : e.signer = "self" /\ e.nonce = n
  BY <1>3, Zenon DEF PendingNonceAt
<1>5. PICK u \in Txs : e \in Envelopes(u)
  BY Zenon DEF NodeVerdict, Durable, OnNetwork
<1>6. u # t
  BY <1>5, Zenon DEF Live
<1>7. SoundRow(u, rows[u]) /\ SoundRow(t, rows[t])
  BY <1>5 DEF LaneInv, SoundRows, Envelopes, Active, ActiveStatuses, AbsentRow
<1>8. rows[u].status # "errored"
  BY <1>5, Zenon DEF RowVerdict, Justified, Live
<1>9. rows[u].nonce = n /\ rows[u].sender = "self" /\ rows[t].sender = "self"
  BY <1>4, <1>5, <1>7, <1>8, Zenon DEF SoundRow
<1> QED BY <1>6, <1>9, TxManagerAssumptions, Zenon DEF LaneInv, NonceHasOneOwner

\* Each outcome of the reconciliation of a durable rejection.
LEMMA ReconciledVerdict ==
  ASSUME TypeInv, LaneInv, Durable, NodeVerdict, RowVerdict, NEW m \in Managers, NEW t \in Txs, NEW r \in Row,
         Active(rows[t]), Active(r), r.nonce = rows[t].nonce, r.consumed = rows[t].consumed,
         r.rejected = rows[t].rejected, rows[t].rejected # None, r.env = Latest(t),
         UNCHANGED <<nodeVars, aged>>, NEW l, NEW tip,
         RetryReconciliation(m, t, r, l) \/ reconcileRejectedSubmission(m, t, r, l, tip)
  PROVE  SaveStep
<1>1. /\ Warranted(t, r) /\ Envelopes(t) \cap Live \subseteq seen /\ elapsed \in [Txs -> BOOLEAN]
      /\ StoreType
  BY WarrantedCopy, Zenon DEF RowVerdict, Justified, TypeInv, ClockType
<1>2. SoundRow(t, rows[t]) /\ attempts[t] # <<>>
  BY DEF LaneInv, SoundRows, SoundRow, Active, ActiveStatuses, AbsentRow
<1>3. Latest(t) \in Envelopes(t) /\ Latest(t).nonce = rows[t].nonce /\ rows[t].nonce \in Nat
  <2>1. Latest(t) \in Envelopes(t)
    BY <1>1, <1>2, AttemptsAreEnvelopes, Zenon
  <2> QED BY <1>2, <2>1, OwnEnvelopes, Zenon DEF SoundRow, Active, ActiveStatuses
<1>4. CASE RetryReconciliation(m, t, r, l)
  <2>1. rows' = UpdateIfActive(t, scheduleNextCheck(t, r)) /\ attempts' = attempts /\ elapsed' = elapsed
    BY <1>4, Zenon DEF RetryReconciliation, SaveAndContinue
  <2> QED BY <1>1, <2>1, WarrantedTransitions, WarrantedSave, Zenon
<1>5. CASE RejectedIsKnown(m, t, r, l)
  <2>1. PICK e \in Envelopes(t) :
          rows' = UpdateIfActive(t, scheduleNextCheck(t, [r EXCEPT !.env = e, !.pending = FALSE, !.rejected = None]))
    BY <1>5, Zenon DEF RejectedIsKnown, SaveAndContinue
  <2> DEFINE q == [r EXCEPT !.env = e, !.pending = FALSE, !.rejected = None]
  <2>2. e \in Envelope
    BY <1>1, AttemptsAreEnvelopes, Zenon
  <2>3. q \in Row /\ Active(q) /\ q.nonce = r.nonce /\ q.consumed = r.consumed /\ q.rejected = None
    BY <2>2, Zenon DEF Row, Active
  <2>4. rows' = UpdateIfActive(t, scheduleNextCheck(t, q)) /\ attempts' = attempts /\ elapsed' = elapsed
    BY <1>5, <2>1, Zenon DEF RejectedIsKnown, SaveAndContinue
  <2> HIDE DEF q
  <2>5. Warranted(t, q)
    BY <2>3, WarrantedCopy, Zenon
  <2> QED BY <2>3, <2>4, <2>5, WarrantedTransitions, WarrantedSave, Zenon
<1>6. CASE ReleaseRejected(m, t, r, l, tip)
  <2>1. Envelopes(t) \cap Live = {}
    BY <1>1, <1>6, Zenon DEF ReleaseRejected
  <2> DEFINE q == abandonTransaction([r EXCEPT !.nonce = None, !.pending = FALSE])
  <2>2. q \in Row /\ q.status = "errored" /\ q.consumed = r.consumed
    BY Zenon DEF abandonTransaction, Row, TerminalStatuses
  <2>3. rows' = UpdateIfActive(t, q) /\ attempts' = attempts /\ elapsed' = elapsed
    BY <1>6, Zenon DEF ReleaseRejected, SaveAndLeave
  <2> HIDE DEF q
  <2>4. Warranted(t, q)
    BY <2>1, <2>2, Zenon DEF Warranted, Justified, Active, ActiveStatuses
  <2> QED BY <2>2, <2>3, <2>4, WarrantedSave, Zenon
<1>7. CASE RejectedIsConsumed(m, t, r, l)
  <2>1. Envelopes(t) \cap Live = {} /\ PendingNonceAt("self", rows[t].nonce + 1)
    BY <1>1, <1>3, <1>7, Zenon DEF RejectedIsConsumed
  <2>2. rows[t].nonce < chainNonce["self"]
    BY <1>3, <2>1, PassedNonce, Zenon
  <2> DEFINE q == [r EXCEPT !.consumed = TRUE, !.pending = FALSE, !.rejected = None]
  <2>3. q \in Row /\ Active(q) /\ q.nonce = r.nonce /\ q.consumed = TRUE /\ q.rejected = None
    BY Zenon DEF Row, Active
  <2>4. rows' = UpdateIfActive(t, scheduleNextCheck(t, q)) /\ attempts' = attempts
    BY <1>7, Zenon DEF RejectedIsConsumed, SaveAndContinue
  <2>5. \A u \in Txs : elapsed'[u] => elapsed[u]
    BY <1>1, <1>7, Zenon DEF RejectedIsConsumed
  <2> HIDE DEF q
  <2>6. Warranted(t, q)
    BY <1>3, <2>2, <2>3, TxManagerAssumptions, Zenon DEF Warranted, Justified, Active, ActiveStatuses
  <2> QED BY <2>3, <2>4, <2>5, <2>6, WarrantedTransitions, WarrantedSave, Zenon
<1> QED BY <1>4, <1>5, <1>6, <1>7, Zenon DEF reconcileRejectedSubmission

\* A step of processTransactionStep that ends at once.
LEMMA EndingVerdict ==
  ASSUME TypeInv, LaneInv, Durable, NodeVerdict, RowVerdict, ~ReceiptReadsFail,
         NEW m \in Managers, NEW t \in Txs, Ending(m, t)
  PROVE  SaveStep
<1> DEFINE r == Repaired(m, t)
<1>1. NextInBatch(m, t)
  BY Zenon DEF Ending, FinalizeReceipt, ParkUnprocessable, ResumeReconciliation, pollConsumedNonce, Defer,
         ExpireUnsigned, AwaitNodeNonce, Ready, Workable, Unmined, Loaded
<1>2. /\ LaneAfterLoad(m, t) = lane[m] /\ ~unprocessable(m, t) /\ snap[m][t] = rows[t]
      /\ Active(rows[t]) /\ SoundRow(t, rows[t])
  BY <1>1, LoadedFacts, Zenon
<1>3. /\ r \in Row /\ Active(r) /\ r.nonce = rows[t].nonce /\ r.rejected = rows[t].rejected
      /\ r.consumed = rows[t].consumed /\ (attempts[t] # <<>> => r.env = Latest(t))
  BY <1>1, RepairedFacts, Zenon
<1>4. UNCHANGED nodeVars /\ attempts' = attempts
  BY EndingFrame, Zenon DEF TypeInv
<1>5. aged' = aged /\ (~ResumeReconciliation(m, t) => elapsed' = elapsed)
  BY Zenon DEF Ending, FinalizeReceipt, ParkUnprocessable, ResumeReconciliation, pollConsumedNonce, Defer,
         ExpireUnsigned, AwaitNodeNonce, clockVars
<1>6. Warranted(t, r)
  BY <1>2, <1>3, WarrantedCopy, Zenon
<1> HIDE DEF r
<1>7. CASE ResumeReconciliation(m, t)
  <2>1. rows[t].rejected # None /\ attempts[t] # <<>>
    BY <1>2, <1>7, Zenon DEF ResumeReconciliation, SoundRow
  <2>2. \/ RetryReconciliation(m, t, r, lane[m])
        \/ reconcileRejectedSubmission(m, t, r, lane[m], isTip(lane[m], r.nonce))
    BY <1>2, <1>7, Zenon DEF ResumeReconciliation, r
  <2> QED BY <1>2, <1>3, <1>4, <1>5, <2>1, <2>2, ReconciledVerdict
<1>8. CASE FinalizeReceipt(m, t)
  <2>1. PICK e : ReceiptFound(t, e) /\ rows' = UpdateIfActive(t, finalizeTransaction(r, e)) /\ elapsed' = elapsed
    BY <1>8, Zenon DEF FinalizeReceipt, SaveAndContinue, clockVars, r
  <2> QED BY <1>3, <1>4, <1>5, <1>6, <2>1, WarrantedTransitions, WarrantedSave, Zenon
<1>9. CASE Defer(m, t)
  <2>1. rows' = UpdateIfActive(t, scheduleNextCheck(t, r)) /\ elapsed' = elapsed
    BY <1>9, Zenon DEF Defer, SaveAndContinue, clockVars, r
  <2> QED BY <1>3, <1>4, <1>5, <1>6, <2>1, WarrantedTransitions, WarrantedSave, Zenon
<1>10. CASE pollConsumedNonce(m, t)
  <2>1. /\ rows' = UpdateIfActive(t, IF elapsed[t] THEN abandonTransaction(r) ELSE scheduleNextCheck(t, r))
        /\ elapsed' = elapsed /\ Envelopes(t) \cap receipts = {}
    BY <1>10, Zenon
         DEF pollConsumedNonce, SaveAndContinue, clockVars, r, Workable, Unmined, NoReceipt, ReceiptReadFailed
  <2>2. ASSUME elapsed[t] PROVE Envelopes(t) \cap Live = {}
    <3>1. /\ Envelopes(t) \cap mined \subseteq receipts
          /\ rows[t].nonce \in Nat /\ rows[t].nonce < chainNonce["self"]
      BY <1>2, <2>2, Zenon DEF RowVerdict, Graced, Justified, SoundRow, Row
    <3>2. \A f \in Envelopes(t) : f.nonce = rows[t].nonce /\ f.signer = "self"
      BY <1>2, OwnEnvelopes, Zenon DEF SoundRow, Active, ActiveStatuses
    <3>3. chainNonce["self"] \in Nat
      BY Zenon DEF TypeInv, NodeType, Signers
    <3>4. Envelopes(t) \cap pool = {}
      BY <3>1, <3>2, <3>3 DEF NodeVerdict
    <3> QED BY <2>1, <3>1, <3>4, Zenon DEF Live
  <2> QED BY <1>3, <1>4, <1>5, <1>6, <2>1, <2>2, WarrantedTransitions, WarrantedSave, SMTT(20)
<1>11. CASE ExpireUnsigned(m, t)
  <2> DEFINE q == abandonTransaction([r EXCEPT !.nonce = None])
  <2>1. q \in Row /\ q.status = "errored" /\ q.consumed = r.consumed
    BY <1>3, Zenon DEF abandonTransaction, Row, TerminalStatuses
  <2>2. rows' = UpdateIfActive(t, q) /\ elapsed' = elapsed /\ attempts[t] = <<>>
    BY <1>11, Zenon DEF ExpireUnsigned, SaveAndLeave, clockVars, r
  <2> HIDE DEF q
  <2>3. Envelopes(t) = {}
    BY <2>2 DEF Envelopes
  <2>4. Warranted(t, q)
    BY <1>3, <2>1, <2>3, Zenon DEF Warranted, Justified, Active, ActiveStatuses
  <2> QED BY <1>4, <1>5, <2>1, <2>2, <2>4, WarrantedSave, Zenon
<1>12. CASE AwaitNodeNonce(m, t)
  BY <1>4, <1>5, <1>12, Zenon DEF AwaitNodeNonce, SaveStep, clockVars
<1> QED BY <1>2, <1>7, <1>8, <1>9, <1>10, <1>11, <1>12, SMTT(20) DEF Ending, ParkUnprocessable

-----------------------------------------------------------------------------
(* What follows a send.                                                    *)

\* A rejection becomes evidence only when all the other attempts of the row had
\* time to surface: the network holds none the endpoint does not know.
LEMMA EvidenceVerdict ==
  ASSUME TypeInv, LaneInv, NodeVerdict, RowVerdict, NEW m \in Managers, WorkVerdict(m),
         pc[m] = "reply", reply[m] = "rejectedPermanent", mayReconcile(m)
  PROVE  Warranted(cur[m], Evidence(m))
<1> DEFINE t == cur[m]
           q == Evidence(m)
<1>1. /\ t \in Txs /\ HoldsLatest(t, tx[m]) /\ Active(rows[t])
      /\ SoundCopy(rows[t], tx[m], lane[m], policy[m], pc[m])
  BY WorkingFacts, Zenon DEF Working
<1>2. /\ q \in Row /\ Active(q) /\ q.nonce = rows[t].nonce /\ q.rejected = tx[m].env
      /\ q.consumed <=> tx[m].consumed
  BY EvidenceFacts, Zenon
<1>3. tx[m].env \notin Live /\ tx[m].env = Latest(t)
  BY <1>1, Zenon DEF WorkVerdict, NodeVerdict, HoldsLatest
<1>4. Envelopes(t) \cap Live \subseteq seen
  <2>1. CASE policy[m].firstAttemptThisPass
    BY <1>3, <2>1, Zenon DEF WorkVerdict
  <2>2. CASE aged[t]
    BY <1>1, <1>3, <2>2, Zenon DEF RowVerdict, Graced
  <2> QED BY <2>1, <2>2, Zenon DEF mayReconcile
<1>5. Justified(t, rows[t]) /\ tx[m].consumed = rows[t].consumed
  BY <1>1, Zenon DEF RowVerdict, SoundCopy
<1> HIDE DEF q
<1>6. Warranted(t, q)
  BY <1>1, <1>2, <1>4, <1>5, Zenon DEF Warranted, Justified, Active, ActiveStatuses
<1> QED BY <1>6, Zenon DEF q

LEMMA RepliedVerdict ==
  ASSUME TypeInv, LaneInv, Durable, NodeVerdict, RowVerdict, NEW m \in Managers, WorkVerdict(m),
         Accepted(m) \/ Unconfirmed(m) \/ RecordRejection(m) \/ ReconcileRejection(m)
  PROVE  SaveStep
<1> DEFINE t == cur[m]
<1>1. pc[m] \in {"reply", "reconcile"} /\ UNCHANGED nodeVars /\ aged' = aged /\ attempts' = attempts
  BY SettlingFrame, Zenon DEF Accepted, Unconfirmed, RecordRejection, ReconcileRejection, Settling, clockVars
<1>2. /\ t \in Txs /\ tx[m] \in Row /\ Active(rows[t]) /\ HoldsLatest(t, tx[m])
      /\ SoundCopy(rows[t], tx[m], lane[m], policy[m], pc[m])
  BY <1>1, WorkingFacts, Zenon DEF Working
<1>3. Active(tx[m]) /\ tx[m].nonce = rows[t].nonce /\ tx[m].consumed = rows[t].consumed /\ tx[m].nonce # None
  BY <1>2, Zenon DEF SoundCopy
<1>4. elapsed \in [Txs -> BOOLEAN]
  BY Zenon DEF TypeInv, ClockType
<1>5. CASE Accepted(m)
  <2> DEFINE q == [tx[m] EXCEPT !.pending = FALSE, !.rejected = None]
  <2>1. q \in Row /\ Active(q) /\ q.nonce = tx[m].nonce /\ q.consumed = tx[m].consumed /\ q.rejected = None
    BY <1>2, <1>3, Zenon DEF Row, Active
  <2>2. rows' = UpdateIfActive(t, scheduleNextCheck(t, q)) /\ elapsed' = elapsed
    BY <1>5, Zenon DEF Accepted, SaveAndContinue, clockVars
  <2> HIDE DEF q
  <2>3. Warranted(t, q)
    BY <1>2, <1>3, <2>1, WarrantedCopy, Zenon
  <2> QED BY <1>1, <1>2, <2>1, <2>2, <2>3, WarrantedTransitions, WarrantedSave, Zenon
<1>6. CASE Unconfirmed(m)
  <2> DEFINE q == AfterFailure(tx[m], reply[m])
  <2>1. /\ q \in Row /\ q.status = tx[m].status /\ q.nonce = tx[m].nonce /\ q.rejected = None
        /\ q.consumed = (tx[m].consumed \/ reply[m] = "nonceConsumed")
    BY <1>2, FailureFacts
  <2>2. /\ \/ \E e : ReceiptFound(t, e) /\ rows' = UpdateIfActive(t, finalizeTransaction(q, e))
           \/ rows' = UpdateIfActive(t, scheduleNextCheck(t, q))
        /\ elapsed' = [elapsed EXCEPT ![t] = elapsed[t] /\ reply[m] # "nonceConsumed"]
        /\ pc[m] = "reply"
    BY <1>6, Zenon DEF Unconfirmed, SaveAndContinue
  <2> HIDE DEF q
  <2>3. \A u \in Txs : elapsed'[u] => elapsed[u]
    BY <1>4, <2>2, Zenon
  <2>4. reply[m] = "nonceConsumed" => tx[m].nonce < chainNonce["self"]
    BY <2>2, Zenon DEF WorkVerdict
  <2>5. Active(q)
    BY <1>3, <2>1, Zenon DEF Active
  <2>6. Warranted(t, q)
    <3>1. Justified(t, rows[t])
      BY <1>2, Zenon DEF RowVerdict
    <3>2. q.consumed => q.nonce # None /\ q.nonce < chainNonce["self"]
      BY <1>2, <1>3, <2>1, <2>4, <3>1, Zenon DEF Justified
    <3>3. rows[t].consumed => q.consumed
      BY <1>3, <2>1, Zenon
    <3> QED BY <2>1, <2>5, <3>2, <3>3, Zenon DEF Warranted, Justified, Active, ActiveStatuses
  <2> QED BY <1>1, <1>2, <2>1, <2>2, <2>3, <2>5, <2>6, WarrantedTransitions, WarrantedSave, ZenonT(30)
<1>7. CASE RecordRejection(m)
  <2>1. /\ rows' = UpdateIfActive(t, Evidence(m)) /\ elapsed' = elapsed
        /\ pc[m] = "reply" /\ reply[m] = "rejectedPermanent" /\ mayReconcile(m)
    BY <1>7, Zenon DEF RecordRejection, Evidence, clockVars
  <2>2. Warranted(t, Evidence(m)) /\ Evidence(m) \in Row
    BY <2>1, EvidenceVerdict, EvidenceFacts, Zenon
  <2> QED BY <1>1, <1>2, <2>1, <2>2, WarrantedSave, Zenon
<1>8. CASE ReconcileRejection(m)
  <2>1. /\ rows[t].rejected # None /\ rows[t] = tx[m] /\ tx[m].env = Latest(t)
    BY <1>2, <1>8, Zenon DEF ReconcileRejection, WorkVerdict, SoundCopy, HoldsLatest
  <2>2. Warranted(t, tx[m])
    BY <1>2, <1>3, <2>1, WarrantedCopy, Zenon
  <2>3. CASE \E e \in Envelopes(t) : /\ ReceiptFound(t, e) /\ SaveAndContinue(m, t, finalizeTransaction(tx[m], e), lane[m])
                                     /\ UNCHANGED elapsed
    <3>1. PICK e : ReceiptFound(t, e) /\ rows' = UpdateIfActive(t, finalizeTransaction(tx[m], e)) /\ elapsed' = elapsed
      BY <2>3, Zenon DEF SaveAndContinue
    <3> QED BY <1>1, <1>2, <1>3, <2>2, <3>1, WarrantedTransitions, WarrantedSave, Zenon
  <2>4. CASE \/ RetryReconciliation(m, t, tx[m], lane[m])
             \/ reconcileRejectedSubmission(m, t, tx[m], lane[m], policy[m].nonceReleasable)
    BY <1>1, <1>2, <1>3, <2>1, <2>4, ReconciledVerdict, Zenon
  <2> QED BY <1>8, <2>3, <2>4, Zenon DEF ReconcileRejection
<1> QED BY <1>5, <1>6, <1>7, <1>8, Zenon

\* Errors, crashes and unlocking, and the commit of a signed row.
LEMMA AbortedVerdict ==
  ASSUME TypeInv, LaneInv, RowVerdict, NEW m \in Managers,
         StepError(m) \/ Reschedule(m) \/ Crash(m) \/ UnlockLane(m) \/ RecordAttempt(m)
  PROVE  SaveStep
<1>1. UNCHANGED <<attempts, nodeVars, aged, elapsed>>
  BY Zenon DEF StepError, Reschedule, Crash, UnlockLane, RecordAttempt, storeVars, clockVars
<1>2. CASE StepError(m) \/ Crash(m) \/ UnlockLane(m)
  BY <1>1, <1>2, Zenon DEF StepError, Crash, UnlockLane, storeVars, SaveStep
<1>3. CASE Reschedule(m)
  <2> DEFINE t == cur[m]
  <2>1. t \in Txs /\ rows' \in {rows, UpdateIfActive(t, rescheduled(t))} /\ rows[t] \in Row
    BY <1>3, Zenon DEF Reschedule, TypeInv, CopyType, StoreType
  <2>2. ASSUME Active(rows[t]) PROVE rescheduled(t) \in Row /\ Warranted(t, rescheduled(t))
    <3> DEFINE q == rescheduled(t)
    <3>1. q \in Row /\ Active(q) /\ q.nonce = rows[t].nonce /\ q.consumed = rows[t].consumed /\ q.rejected = rows[t].rejected
      BY <2>1, <2>2, Zenon DEF rescheduled, Row, Active, ActiveStatuses
    <3> HIDE DEF q
    <3>2. Warranted(t, q)
      BY <2>1, <2>2, <3>1, WarrantedCopy, Zenon
    <3> QED BY <3>1, <3>2, Zenon DEF q
  <2>3. CASE Active(rows[t])
    BY <1>1, <2>1, <2>2, <2>3, WarrantedSave, Zenon DEF SaveStep
  <2>4. CASE ~Active(rows[t])
    BY <1>1, <2>1, <2>4, Zenon DEF UpdateIfActive, SaveStep
  <2> QED BY <2>3, <2>4, Zenon
<1>4. CASE RecordAttempt(m)
  <2> DEFINE t == cur[m]
  <2>1. pc[m] = "record" /\ rows' = UpdateIfActive(t, tx[m])
    BY <1>4, Zenon DEF RecordAttempt
  <2>2. /\ t \in Txs /\ tx[m] \in Row /\ Active(rows[t])
        /\ SoundCopy(rows[t], tx[m], lane[m], policy[m], pc[m])
    BY <2>1, WorkingFacts, Zenon DEF Working
  <2>3. Warranted(t, tx[m])
    BY <2>1, <2>2, WarrantedCopy, Zenon DEF SoundCopy
  <2> QED BY <1>1, <2>1, <2>2, <2>3, WarrantedSave, Zenon
<1> QED BY <1>2, <1>3, <1>4, Zenon

\* The steps that start work on a row: a nonce is assigned, or nothing is saved.
LEMMA StartedVerdict ==
  ASSUME TypeInv, LaneInv, RowVerdict, NEW m \in Managers, NEW t \in Txs,
         AssignNonce(m, t) \/ ResumeBroadcast(m, t) \/ BeginAttempt(m, t)
  PROVE  SaveStep
<1>1. UNCHANGED <<attempts, nodeVars, aged, elapsed>>
  BY Zenon DEF AssignNonce, ResumeBroadcast, BeginAttempt, storeVars, clockVars
<1>2. CASE ResumeBroadcast(m, t) \/ BeginAttempt(m, t)
  BY <1>1, <1>2, Zenon DEF ResumeBroadcast, BeginAttempt, storeVars, SaveStep
<1>3. CASE AssignNonce(m, t)
  <2>1. NextInBatch(m, t) /\ snap[m][t].rejected = None /\ Repaired(m, t).nonce = None
    BY <1>3, Zenon DEF AssignNonce, Ready, Workable, Unmined, Loaded
  <2>2. snap[m][t] = rows[t] /\ Active(rows[t])
    BY <2>1, LoadedFacts, Zenon
  <2>3. /\ Repaired(m, t) \in Row /\ Repaired(m, t).nonce = rows[t].nonce
        /\ Repaired(m, t).rejected = rows[t].rejected /\ Repaired(m, t).consumed = rows[t].consumed
    BY <2>1, RepairedFacts, Zenon
  <2>4. PICK n \in 0..MaxNonce : rows' = UpdateIfActive(t, [Repaired(m, t) EXCEPT !.nonce = n, !.status = "processing"])
    BY <1>3, Zenon DEF AssignNonce
  <2> DEFINE q == [Repaired(m, t) EXCEPT !.nonce = n, !.status = "processing"]
  <2>5. n \in Nat
    BY TxManagerAssumptions
  <2>6. q \in Row /\ q.status = "processing" /\ q.rejected = None /\ q.consumed = rows[t].consumed
    BY <2>1, <2>2, <2>3, <2>5, Zenon DEF Row, ActiveStatuses
  <2>7. rows' = UpdateIfActive(t, q)
    BY <2>4, Zenon
  <2> HIDE DEF q
  <2>8. ~rows[t].consumed
    BY <2>1, <2>2, <2>3, Zenon DEF RowVerdict, Justified
  <2>9. Warranted(t, q)
    BY <2>6, <2>8, Zenon DEF Warranted, Justified
  <2> QED BY <1>1, <2>6, <2>7, <2>9, WarrantedSave, Zenon
<1> QED BY <1>2, <1>3, Zenon

\* A signed envelope is new to the network, or an attempt of the row already: the
\* network holds only attempts, and no other row owns this one.
LEMMA SignedVerdict ==
  ASSUME TypeInv, LaneInv, Durable, NodeVerdict, RowVerdict, NEW m \in Managers, SignAttempt(m)
  PROVE  /\ NodeVerdict' /\ RowVerdict'
         /\ UNCHANGED <<rows, mined>> /\ \A u \in Txs : Envelopes(u)' \cap mined = Envelopes(u) \cap mined
<1>1. pc[m] = "sign" /\ UNCHANGED <<rows, nodeVars, elapsed>>
  BY Zenon DEF SignAttempt
<1>2. tx[m].nonce \in Nat /\ StoreType /\ aged \in [Txs -> BOOLEAN]
  BY <1>1, WorkingFacts, Zenon DEF Working, TypeInv, CopyType, ClockType
<1>0. PICK t \in Txs : t = cur[m]
  BY <1>1, WorkingFacts, Zenon DEF Working
<1>3. PICK e \in uniqueAttempts(t, tx[m].nonce) :
        \/ attempts' = attempts /\ aged' = aged
        \/ ~OwnedByAnother(t, e) /\ attempts' = InsertAttempt(t, e) /\ aged' = [aged EXCEPT ![t] = FALSE]
  BY <1>0, Zenon DEF SignAttempt
<1>4. CASE attempts' = attempts /\ aged' = aged
  <2>1. SaveStep
    BY <1>1, <1>4, Zenon DEF SaveStep
  <2> QED BY <1>1, <1>4, <2>1, SavedVerdict, AttemptsStay, Zenon DEF nodeVars
<1>5. CASE ~OwnedByAnother(t, e) /\ attempts' = InsertAttempt(t, e) /\ aged' = [aged EXCEPT ![t] = FALSE]
  <2>1. e \in Envelope /\ e.payload # "foreign"
    BY <1>2, SignedFacts, TxManagerAssumptions
  <2>2. Envelopes(t)' = Envelopes(t) \cup {e} /\ \A u \in Txs \ {t} : Envelopes(u)' = Envelopes(u)
    BY <1>2, <1>5, <2>1, InsertionAdds, Zenon
  <2>3. e \in Live => e \in Envelopes(t)
    BY <1>5, <2>1, Zenon DEF Durable, OnNetwork, Live, OwnedByAnother
  <2>4. \A u \in Txs : Envelopes(u)' \cap Live = Envelopes(u) \cap Live
    BY <2>2, <2>3, Zenon
  <2>5. NodeVerdict' /\ Live' = Live
    BY <1>1, Zenon DEF NodeVerdict, Live, nodeVars
  <2>6. ASSUME NEW u \in Txs PROVE Justified(u, rows[u])' /\ Graced(u)'
    <3>1. Justified(u, rows[u]) /\ Graced(u)
      BY Zenon DEF RowVerdict
    <3>2. Envelopes(u)' \cap mined = Envelopes(u) \cap mined
      BY <2>4, Zenon DEF Live
    <3>3. Justified(u, rows[u])'
      BY <1>1, <2>4, <2>5, <3>1, <3>2, Zenon DEF Justified, nodeVars, Active
    <3>4. aged'[u] => u # t /\ aged[u]
      BY <1>2, <1>5, Zenon
    <3>5. u # t => Latest(u)' = Latest(u)
      BY <1>2, <1>5, Zenon DEF InsertAttempt, StoreType, Latest
    <3>6. aged'[u] => (Envelopes(u)' \ {Latest(u)'}) \cap Live \subseteq seen
      BY <2>4, <3>1, <3>4, <3>5, Zenon DEF Graced
    <3>7. /\ elapsed[u] => rows[u].consumed
          /\ Active(rows[u]) /\ elapsed[u] => Envelopes(u)' \cap mined \subseteq receipts
      BY <3>1, <3>2, Zenon DEF Graced
    <3> QED BY <1>1, <2>5, <3>3, <3>6, <3>7, Zenon DEF Graced, nodeVars, Active
  <2>7. \A u \in Txs : Envelopes(u)' \cap mined = Envelopes(u) \cap mined
    BY <2>4, Zenon DEF Live
  <2> QED BY <1>1, <2>5, <2>6, <2>7, Zenon DEF RowVerdict, nodeVars
<1> QED BY <1>3, <1>4, <1>5, Zenon

\* A send: the envelope is the latest attempt of a row without evidence, and of
\* no other row.
LEMMA SentVerdict ==
  ASSUME TypeInv, TypeInv', StableRejection, LaneInv, Durable, NodeVerdict, RowVerdict,
         NEW m \in Managers, WorkVerdict(m), Broadcast(m)
  PROVE  NodeVerdict' /\ RowVerdict' /\ WorkVerdict(m)'
<1>1. /\ pc[m] = "send" /\ pc'[m] = "reply" /\ cur' = cur /\ tx' = tx /\ policy' = policy
      /\ UNCHANGED <<rows, attempts, clockVars>>
  BY Zenon DEF Broadcast, storeVars, TypeInv, LocalType
<1>2. PICK rep \in Replies : SendTransaction(tx[m].env, rep) /\ reply'[m] = rep
  BY Zenon DEF Broadcast, TypeInv, LocalType
<1>3. PICK t \in Txs : t = cur[m]
  BY <1>1, WorkingFacts, Zenon DEF Working
<1>4. /\ Active(rows[t]) /\ rows[t].rejected = None /\ tx[m].env = Latest(t)
      /\ SoundRow(t, tx[m]) /\ Active(tx[m])
  BY <1>1, <1>3, WorkingFacts, Zenon DEF Working, SoundCopy, HoldsLatest
<1>5. tx[m].env \in Envelopes(t) /\ \A u \in Txs : tx[m].env \in Envelopes(u) => u = t
  BY <1>1, <1>3, Zenon DEF Durable, SendsDurable, OneOwner
<1>6. /\ tx[m].env \in Envelope /\ tx[m].env.payload # "foreign" /\ tx[m].env.signer = "self"
      /\ tx[m].env.nonce = tx[m].nonce
  BY <1>4, <1>5, OwnEnvelopes, Zenon DEF SoundRow, Active, ActiveStatuses
<1>7. /\ NodeVerdict' /\ Steady({tx[m].env})
      /\ rep = "nonceConsumed" => tx[m].nonce < chainNonce'["self"]
      /\ rep = "rejectedPermanent" => tx[m].env \in refused'
  BY <1>2, <1>6, SendVerdict, Zenon
<1>8. chainNonce'["self"] \in Nat
  BY Zenon DEF TypeInv, NodeType, Signers
<1>9. RowVerdict'
  <2>1. \A u \in Txs : {tx[m].env} \cap Envelopes(u) # {} =>
           Active(rows[u]) /\ rows[u].rejected = None /\ {tx[m].env} \subseteq {Latest(u)}
    BY <1>4, <1>5, Zenon
  <2> QED BY <1>1, <1>7, <1>8, <2>1, SteadyRows, Zenon
<1>10. WorkVerdict(m)'
  <2>1. policy[m].firstAttemptThisPass => Envelopes(cur[m]) = {tx[m].env}
    BY <1>1, Zenon DEF WorkVerdict
  <2>2. Envelopes(cur[m])' = Envelopes(cur[m])
    BY <1>1, Zenon DEF Envelopes
  <2> QED BY <1>1, <1>2, <1>7, <2>1, <2>2, Zenon DEF WorkVerdict
<1> QED BY <1>7, <1>9, <1>10, Zenon

-----------------------------------------------------------------------------
(* What the manager at work knows.                                         *)

LEMMA DroppedWork ==
  ASSUME NEW m \in Managers, pc'[m] \in {"idle", "batch", "fail"}
  PROVE  WorkVerdict(m)'
BY Zenon DEF WorkVerdict

\* A first attempt is the only one of its row, from its signing to its reply.
LEMMA StartedWork ==
  ASSUME TypeInv, LaneInv, NEW m \in Managers, NEW t \in Txs,
         AssignNonce(m, t) \/ ResumeBroadcast(m, t) \/ BeginAttempt(m, t)
  PROVE  WorkVerdict(m)'
<1>1. LocalType /\ attempts' = attempts
  BY Zenon DEF TypeInv, AssignNonce, ResumeBroadcast, BeginAttempt, storeVars
<1>2. AssignNonce(m, t) => attempts[t] = <<>>
  <2> SUFFICES ASSUME AssignNonce(m, t), attempts[t] # <<>> PROVE FALSE
    BY Zenon
  <2>1. NextInBatch(m, t) /\ Repaired(m, t).nonce = None
    BY Zenon DEF AssignNonce, Ready, Workable, Unmined, Loaded
  <2>2. Latest(t) \in Envelopes(t) /\ Latest(t).nonce \in Nat
    BY AttemptsAreEnvelopes, EnvelopeFields, Zenon DEF TypeInv
  <2>3. Repaired(m, t).nonce = Latest(t).nonce
    BY <2>1, <2>2, RepairedFacts, Zenon DEF SoundRow, Active, ActiveStatuses
  <2> QED BY <2>1, <2>2, <2>3, TxManagerAssumptions, Zenon
<1>3. CASE pc'[m] \in {"idle", "batch", "fail"}
  BY <1>3, DroppedWork, Zenon
<1>4. CASE pc'[m] = "sign" /\ cur'[m] = t /\ (policy'[m].firstAttemptThisPass => attempts[t] = <<>>)
  BY <1>1, <1>4, Zenon DEF WorkVerdict
<1>5. CASE pc'[m] = "send" /\ ~policy'[m].firstAttemptThisPass
  BY <1>5, Zenon DEF WorkVerdict
<1>6. CASE AssignNonce(m, t)
  BY <1>1, <1>2, <1>3, <1>4, <1>6, Zenon DEF AssignNonce, WorkOn, Continue, Fail, LocalType
<1>7. CASE ResumeBroadcast(m, t)
  BY <1>1, <1>5, <1>7, Zenon DEF ResumeBroadcast, WorkOn, LocalType, NoPolicy
<1>8. CASE BeginAttempt(m, t)
  <2>1. \A r, l, p, s : WorkOn(m, t, r, l, p, s) => pc'[m] = s /\ cur'[m] = t /\ policy'[m] = p
    BY <1>1, Zenon DEF WorkOn, LocalType
  <2>2. ~NoPolicy.firstAttemptThisPass
        /\ \A b : ~[NoPolicy EXCEPT !.nonceReleasable = b].firstAttemptThisPass
    BY DEF NoPolicy
  <2> QED BY <1>4, <1>5, <1>8, <2>1, <2>2, ZenonT(30) DEF BeginAttempt
<1> QED BY <1>6, <1>7, <1>8, Zenon

LEMMA SignedWork ==
  ASSUME TypeInv, LaneInv, NEW m \in Managers, WorkVerdict(m), SignAttempt(m)
  PROVE  WorkVerdict(m)'
<1>1. pc[m] = "sign" /\ LocalType /\ StoreType /\ tx[m].nonce \in Nat
  BY WorkingFacts, Zenon DEF SignAttempt, TypeInv, CopyType, Working
<1>2. PICK t \in Txs : t = cur[m]
  BY <1>1, WorkingFacts, Zenon DEF Working
<1>3. PICK e \in uniqueAttempts(t, tx[m].nonce) :
        \/ Fail(m, t)
        \/ /\ attempts' = InsertAttempt(t, e)
           /\ WorkOn(m, t, [tx[m] EXCEPT !.env = e, !.status = "confirming", !.pending = TRUE, !.rejected = None],
                     lane[m], policy[m], "record")
  BY <1>2, Zenon DEF SignAttempt
<1>4. CASE Fail(m, t)
  BY <1>1, <1>4, DroppedWork, Zenon DEF Fail, LocalType
<1>5. CASE /\ attempts' = InsertAttempt(t, e)
           /\ WorkOn(m, t, [tx[m] EXCEPT !.env = e, !.status = "confirming", !.pending = TRUE, !.rejected = None],
                     lane[m], policy[m], "record")
  <2>1. e \in Envelope /\ tx[m] \in Row
    BY <1>1, SignedFacts, WorkingFacts, Zenon DEF Working
  <2>2. Envelopes(t)' = Envelopes(t) \cup {e}
    BY <1>1, <1>5, <2>1, InsertionAdds, Zenon
  <2>3. policy[m].firstAttemptThisPass => Envelopes(t) = {}
    BY <1>1, <1>2 DEF WorkVerdict, Envelopes
  <2>4. pc'[m] = "record" /\ cur'[m] = t /\ policy'[m] = policy[m] /\ tx'[m].env = e
    BY <1>1, <1>5, <2>1, Zenon DEF WorkOn, LocalType, Row
  <2>5. Envelopes(cur[m])' = Envelopes(t)'
    BY <2>4, Zenon DEF Envelopes
  <2> QED BY <2>2, <2>3, <2>4, <2>5, Zenon DEF WorkVerdict
<1> QED BY <1>3, <1>4, <1>5, Zenon

LEMMA RecordedWork ==
  ASSUME TypeInv, LaneInv, NEW m \in Managers, WorkVerdict(m), RecordAttempt(m)
  PROVE  WorkVerdict(m)'
<1>1. pc[m] = "record" /\ LocalType /\ attempts' = attempts
  BY Zenon DEF RecordAttempt, TypeInv
<1>2. CASE GoTo(m, "send")
  <2>1. pc'[m] = "send" /\ cur' = cur /\ tx' = tx /\ policy' = policy
    BY <1>1, <1>2, Zenon DEF GoTo, LocalType
  <2>2. Envelopes(cur[m])' = Envelopes(cur[m])
    BY <1>1, <2>1, Zenon DEF Envelopes
  <2> QED BY <1>1, <2>1, <2>2, Zenon DEF WorkVerdict
<1>3. CASE Continue(m, cur[m], lane[m]) \/ Fail(m, cur[m])
  BY <1>1, <1>3, DroppedWork, Zenon DEF Continue, Fail, LocalType
<1> QED BY <1>2, <1>3, Zenon DEF RecordAttempt

\* Evidence is reconciled after it is stored.
LEMMA SettledWork ==
  ASSUME TypeInv, LaneInv, NEW m \in Managers, Settling(m)
  PROVE  WorkVerdict(m)'
<1>1. Dropped(m) \/ pc'[m] = "reconcile"
  BY SettlingFrame, Zenon
<1>2. CASE Dropped(m)
  BY <1>2, DroppedWork, Zenon DEF Dropped
<1>3. CASE pc'[m] = "reconcile"
  <2>1. LocalType /\ CopyType /\ \A k \in Managers : cur[k] \in Txs \cup {None}
    BY Zenon DEF TypeInv, CopyType, LocalType
  <2>2. RecordRejection(m)
    BY <1>3, <2>1, Zenon
         DEF Settling, Accepted, Unconfirmed, ReconcileRejection, StepError, Reschedule, Crash, UnlockLane,
       SaveAndContinue, SaveAndLeave, RetryReconciliation, reconcileRejectedSubmission, RejectedIsKnown,
       ReleaseRejected, RejectedIsConsumed, Continue, Fail, LeaveLane, LocalType
  <2>3. pc[m] = "reply" /\ cur[m] \in Txs /\ tx[m].env \in Envelope
    <3>1. pc[m] = "reply"
      BY <2>2, Zenon DEF RecordRejection
    <3> QED BY <3>1, WorkingFacts, AttemptsAreEnvelopes, Zenon DEF Working, HoldsLatest, TypeInv
  <2>4. rows'[cur[m]] = Evidence(m) /\ cur'[m] = cur[m]
    BY <1>3, <2>1, <2>2, <2>3, SMTT(20)
         DEF RecordRejection, WorkOn, Continue, Fail, LocalType, UpdateIfActive, Evidence,
       TypeInv, StoreType
  <2>5. Evidence(m).rejected # None
    BY <2>3, EvidenceFacts, TxManagerAssumptions, Zenon
  <2> QED BY <1>3, <2>4, <2>5, Zenon DEF WorkVerdict
<1> QED BY <1>1, <1>2, <1>3, Zenon

-----------------------------------------------------------------------------
(* VerdictInv is inductive.                                                *)

\* Every step of a manager saves a warranted row, or signs, or sends.
LEMMA ManageSaves ==
  ASSUME Reliable, TypeInv, LaneInv, Durable, VerdictInv, NEW m \in Managers, Manage(m)
  PROVE  SaveStep \/ SignAttempt(m) \/ Broadcast(m)
<1>1. NodeVerdict /\ RowVerdict /\ WorkVerdict(m) /\ ~ReceiptReadsFail
  BY Zenon DEF VerdictInv, Reliable
<1>2. ASSUME NEW t \in Txs, ProcessRow(m, t) PROVE SaveStep
  BY <1>1, <1>2, NothingToRecover, EndingVerdict, StartedVerdict, Zenon DEF ProcessRow, Ending
<1>3. LockLane(m) => SaveStep
  BY Zenon DEF LockLane, SaveStep, clockVars
<1>4. LoseLock(m) => SaveStep
  BY Zenon DEF LoseLock, SaveStep, clockVars
<1> QED BY <1>1, <1>2, <1>3, <1>4, RepliedVerdict, AbortedVerdict, Zenon DEF Manage, Reliable

LEMMA ManageVerdict ==
  ASSUME Reliable, TypeInv, TypeInv', LaneInv, LaneHeld, Durable, VerdictInv, NEW m \in Managers, Manage(m)
  PROVE  VerdictInv'
<1>1. NodeVerdict /\ RowVerdict /\ WorkVerdict(m) /\ StableRejection /\ Exclusive
  BY Zenon DEF VerdictInv, Reliable
<1>2. NodeVerdict' /\ RowVerdict'
  BY <1>1, ManageSaves, SavedVerdict, SignedVerdict, SentVerdict, Zenon
<1>3. \A k \in Managers \ {m} : WorkVerdict(k)'
  BY <1>1, ManageHeld, DroppedWork, Zenon
<1>4. WorkVerdict(m)'
  <2>1. LocalType
    BY Zenon DEF TypeInv
  <2>2. ASSUME NEW t \in Txs, ProcessRow(m, t) PROVE WorkVerdict(m)'
    BY <2>1, <2>2, NothingToRecover, EndingFrame, DroppedWork, StartedWork, SMTT(20)
         DEF ProcessRow, Ending, Dropped
  <2>3. CASE LockLane(m)
    BY <2>1, <2>3, DroppedWork, Zenon DEF LockLane, LocalType
  <2>4. CASE LoseLock(m)
    BY <1>1, <2>4, Zenon DEF LoseLock, WorkVerdict, Envelopes, nodeVars, localVars
  <2> QED BY <1>1, <2>2, <2>3, <2>4, SignedWork, RecordedWork, SentVerdict, SettledWork, SMTT(20)
       DEF Manage, Settling
<1> QED BY <1>2, <1>3, <1>4, Zenon DEF VerdictInv

\* The network, new rows and the two clocks.
LEMMA EnvironmentVerdict ==
  ASSUME TypeInv, TypeInv', LaneInv, OneEnvelopePerNonce, VerdictInv,
         \/ Network \/ Quiescent \/ UNCHANGED vars
         \/ \E t \in Txs : SendTxAsync(t) \/ Age(t) \/ Elapse(t)
  PROVE  VerdictInv'
<1>1. /\ attempts' = attempts /\ UNCHANGED <<pc, cur, tx, policy, reply>>
      /\ \A t \in Txs : Envelopes(t)' = Envelopes(t) /\ Latest(t)' = Latest(t)
  BY Zenon DEF Network, Quiescent, SendTxAsync, Age, Elapse, vars, storeVars, localVars, Envelopes, Latest
<1>2. NodeVerdict /\ RowVerdict /\ \A m \in Managers : WorkVerdict(m)
  BY Zenon DEF VerdictInv
<1>3. /\ StoreType /\ aged \in [Txs -> BOOLEAN] /\ elapsed \in [Txs -> BOOLEAN]
      /\ chainNonce["self"] \in Nat /\ chainNonce'["self"] \in Nat
  BY Zenon DEF TypeInv, ClockType, NodeType, Signers
<1>4. ASSUME NEW m \in Managers, pc[m] = "reconcile" PROVE cur[m] \in Txs /\ Active(rows[cur[m]])
  BY <1>4, WorkingFacts, Zenon DEF Working
<1>5. ASSUME refused \subseteq refused', chainNonce["self"] <= chainNonce'["self"],
             \A t \in Txs : Active(rows[t]) => rows'[t] = rows[t]
      PROVE  \A m \in Managers : WorkVerdict(m)'
  <2> SUFFICES ASSUME NEW m \in Managers PROVE WorkVerdict(m)'
    BY Zenon
  <2>1. WorkVerdict(m) /\ tx[m] \in Row
    BY <1>2, Zenon DEF TypeInv, LocalType
  <2>2. pc[m] = "reply" /\ reply[m] = "nonceConsumed" => tx[m].nonce < chainNonce'["self"]
    <3>1. pc[m] = "reply" => tx[m].nonce \in Nat
      BY <2>1, WorkingFacts, Zenon DEF Working, SoundCopy, Row
    <3> QED BY <1>3, <1>5, <2>1, <3>1 DEF WorkVerdict
  <2>3. pc[m] = "reconcile" => rows'[cur[m]].rejected # None
    BY <1>4, <1>5, <2>1, Zenon DEF WorkVerdict
  <2>4. Envelopes(cur[m])' = Envelopes(cur[m])
    BY <1>1, Zenon DEF Envelopes
  <2> QED BY <1>1, <1>5, <2>1, <2>2, <2>3, <2>4, SMTT(20) DEF WorkVerdict
<1>6. CASE Network
  <2>1. NodeVerdict' /\ Steady({}) /\ UNCHANGED <<rows, attempts, clockVars>>
    BY <1>2, <1>6, NetworkVerdict, Zenon DEF Network, storeVars
  <2>2. RowVerdict'
    BY <1>2, <1>3, <2>1, SteadyRows, Zenon
  <2> QED BY <1>5, <2>1, <2>2, Zenon DEF VerdictInv, Steady
<1>7. CASE UNCHANGED nodeVars
  <2>0. UNCHANGED <<pool, seen, mined, receipts, chainNonce, refused>> /\ NodeVerdict' /\ Live' = Live
    BY <1>2, <1>7, Zenon DEF nodeVars, NodeVerdict, Live
  <2>1. CASE UNCHANGED <<rows, attempts, clockVars>>
    <3>1. SaveStep
      BY <1>7, <2>1, Zenon DEF SaveStep, clockVars
    <3> QED BY <1>2, <1>3, <1>5, <2>0, <2>1, <3>1, SavedVerdict, SMTT(20) DEF VerdictInv
  <2>2. ASSUME NEW t \in Txs, SendTxAsync(t) PROVE VerdictInv'
    <3>1. /\ rows[t] = AbsentRow /\ rows' = [rows EXCEPT ![t] = [AbsentRow EXCEPT !.status = "pending", !.sender = "self"]]
          /\ aged' = aged /\ elapsed' = elapsed
      BY <2>2, Zenon DEF SendTxAsync, clockVars
    <3>2. \A u \in Txs \ {t} : rows'[u] = rows[u]
      BY <1>3, <3>1, Zenon DEF StoreType
    <3>3. rows'[t].status = "pending" /\ rows'[t].consumed = FALSE /\ rows'[t].rejected = None
      BY <1>3, <3>1, Zenon DEF StoreType, AbsentRow
    <3>4. ~Active(rows[t]) /\ Envelopes(t) = {}
      BY <3>1 DEF AbsentRow, Active, ActiveStatuses, LaneInv, SoundRows, SoundRow, Envelopes
    <3>5. \A u \in Txs \ {t} : Justified(u, rows[u])' /\ Graced(u)'
      BY <1>1, <1>2, <2>0, <3>1, <3>2, Zenon DEF RowVerdict, Justified, Graced, Active
    <3>6. Justified(t, rows[t])' /\ Graced(t)'
      <4>1. Graced(t)
        BY <1>2, Zenon DEF RowVerdict
      <4>2. Justified(t, rows[t])'
        BY <3>3, Zenon DEF Justified
      <4>3. ~elapsed[t]
        BY <3>1, <4>1 DEF Graced, AbsentRow
      <4> QED BY <1>1, <3>1, <3>4, <4>2, <4>3, Zenon DEF Graced
    <3> QED BY <1>3, <1>5, <2>0, <3>2, <3>4, <3>5, <3>6, SMTT(20) DEF VerdictInv, RowVerdict
  <2>3. ASSUME NEW t \in Txs, Age(t) \/ Elapse(t) PROVE VerdictInv'
    <3>1. /\ rows' = rows
          /\ \A u \in Txs : elapsed'[u] => \/ elapsed[u]
                                           \/ rows[u].consumed /\ Envelopes(u) \cap mined \subseteq receipts
          /\ \A u \in Txs : aged'[u] => aged[u] \/ Envelopes(u) \cap Live \subseteq seen
      BY <1>3, <2>3, Zenon DEF Age, Elapse, storeVars, Live
    <3>2. ASSUME NEW u \in Txs PROVE Justified(u, rows[u])' /\ Graced(u)'
      <4>1. Justified(u, rows[u]) /\ Graced(u)
        BY <1>2, Zenon DEF RowVerdict
      <4>2. Justified(u, rows[u])'
        BY <1>1, <2>0, <3>1, <4>1, Zenon DEF Justified, Active
      <4>3. /\ elapsed'[u] => rows[u].consumed
            /\ Active(rows[u]) /\ elapsed'[u] => Envelopes(u) \cap mined \subseteq receipts
        BY <3>1, <4>1, Zenon DEF Graced
      <4>4. aged'[u] => (Envelopes(u) \ {Latest(u)}) \cap Live \subseteq seen
        BY <3>1, <4>1, Zenon DEF Graced
      <4> QED BY <1>1, <2>0, <3>1, <4>2, <4>3, <4>4, SMTT(20) DEF Graced, Active
    <3> QED BY <1>3, <1>5, <2>0, <3>1, <3>2 DEF VerdictInv, RowVerdict
  <2> QED BY <2>1, <2>2, <2>3, <1>6, ZenonT(30) DEF Quiescent, vars, storeVars
<1> QED BY <1>6, <1>7, Zenon DEF Quiescent, vars, SendTxAsync, Age, Elapse

LEMMA VerdictInvInductive ==
  ASSUME Reliable
  PROVE  /\ Init => VerdictInv
         /\ /\ TypeInv /\ TypeInv' /\ CompetingInv /\ LaneInv /\ Durable /\ VerdictInv
            /\ [Next]_vars
            => VerdictInv'
<1>1. ASSUME Init PROVE VerdictInv
  <2>1. /\ \A t \in Txs : /\ rows[t] = AbsentRow /\ attempts[t] = <<>> /\ Envelopes(t) = {}
                          /\ aged[t] = FALSE /\ elapsed[t] = FALSE
        /\ pool = {} /\ mined = {} /\ receipts = {} /\ refused = {}
    BY <1>1 DEF Init, NodeInit, Envelopes, Reliable
  <2>2. NodeVerdict
    BY <2>1, Zenon DEF NodeVerdict
  <2>3. RowVerdict
    BY <2>1 DEF RowVerdict, Justified, Graced, AbsentRow, Active, ActiveStatuses
  <2>4. \A m \in Managers : pc[m] = "idle"
    BY <1>1, Zenon DEF Init
  <2>5. \A m \in Managers : WorkVerdict(m)
    BY <2>4, Zenon DEF WorkVerdict
  <2> QED BY <2>2, <2>3, <2>5, Zenon DEF VerdictInv
<1>2. ASSUME TypeInv, TypeInv', CompetingInv, LaneInv, Durable, VerdictInv, [Next]_vars PROVE VerdictInv'
  <2>1. LaneHeld /\ OneEnvelopePerNonce
    BY <1>2, Zenon DEF CompetingInv, Competing
  <2> QED BY <1>2, <2>1, ManageVerdict, EnvironmentVerdict, Zenon DEF Next
<1> QED BY <1>1, <1>2, Zenon

\* No attempt of an abandoned row is on the network or ever mined: a row is given
\* up only unsigned, or when all its attempts were looked up after the grace
\* periods and its nonce is free or taken by another transaction.
THEOREM AbandonedForGood ==
  ASSUME Reliable
  PROVE  Spec => []AbandonedNeverMined
<1>1. VerdictInv => AbandonedNeverMined
  BY Zenon DEF VerdictInv, RowVerdict, Justified, AbandonedNeverMined, Live
<1>2. Exclusive /\ DOMAIN Legacy = {}
  BY Zenon DEF Reliable
<1> QED BY <1>1, <1>2, TypeInvInductive, CompetingInductive, LaneInvInductive, DurableInductive,
           VerdictInvInductive, PTL DEF Spec

-----------------------------------------------------------------------------
(* The refinement: which step of the contract each step is.                *)

\* What the mapping needs of Cardinality, from its recursive definition: one function
\* satisfies the recursion, so the chosen one does.
LEMMA EmptyCounts == Cardinality({}) = 0
<1> DEFINE Counts(f) == f = [T \in SUBSET {} |-> IF T = {} THEN 0 ELSE 1 + f[T \ {CHOOSE x : x \in T}]]
<1>1. Counts([T \in SUBSET {} |-> 0])
  OBVIOUS
<1>2. \A f : Counts(f) => f[{}] = 0
  OBVIOUS
<1>3. Counts(CHOOSE f : Counts(f))
  BY <1>1, Zenon
<1>4. Cardinality({}) = (CHOOSE f : Counts(f))[{}]
  BY Zenon DEF Cardinality
<1> QED BY <1>2, <1>3, <1>4, Zenon

LEMMA SingletonCounts == ASSUME NEW e PROVE Cardinality({e}) = 1
<1> DEFINE Counts(f) == f = [T \in SUBSET {e} |-> IF T = {} THEN 0 ELSE 1 + f[T \ {CHOOSE x : x \in T}]]
           one == [T \in SUBSET {e} |-> IF T = {} THEN 0 ELSE 1]
<1>1. \A T \in SUBSET {e} : T # {} => T \ {CHOOSE x : x \in T} = {}
  <2>1. ASSUME NEW T \in SUBSET {e}, T # {} PROVE T = {e} /\ (CHOOSE x : x \in T) = e
    <3>1. T = {e}
      BY <2>1
    <3>2. (CHOOSE x : x \in T) \in T
      BY <2>1, Zenon
    <3> QED BY <3>1, <3>2, Zenon
  <2> QED BY <2>1
<1>2. Counts(one)
  <2>1. ASSUME NEW T \in SUBSET {e}
        PROVE  one[T] = IF T = {} THEN 0 ELSE 1 + one[T \ {CHOOSE x : x \in T}]
    <3>1. one[{}] = 0
      OBVIOUS
    <3>2. CASE T = {}
      BY <3>2
    <3>3. CASE T # {}
      <4>1. one[T] = 1
        BY <3>3
      <4>2. one[T \ {CHOOSE x : x \in T}] = 0
        BY <1>1, <3>1, <3>3, SMTT(20)
      <4> QED BY <3>3, <4>1, <4>2
    <3> QED BY <3>2, <3>3
  <2> QED BY <2>1
<1>3. \A f : Counts(f) => f[{e}] = 1
  <2> SUFFICES ASSUME NEW f, Counts(f) PROVE f[{e}] = 1
    BY Zenon
  <2>1. \A T \in SUBSET {e} : f[T] = IF T = {} THEN 0 ELSE 1 + f[T \ {CHOOSE x : x \in T}]
    BY Zenon
  <2>2. f[{}] = 0
    BY <2>1
  <2>3. {e} # {} /\ {e} \in SUBSET {e}
    OBVIOUS
  <2>4. f[{e}] = 1 + f[{e} \ {CHOOSE x : x \in {e}}]
    BY <2>1, <2>3, Zenon
  <2>5. {e} \ {CHOOSE x : x \in {e}} = {}
    BY <1>1, <2>3, Zenon
  <2> QED BY <2>2, <2>4, <2>5
<1>4. Counts(CHOOSE f : Counts(f))
  BY <1>2, Zenon
<1>5. Cardinality({e}) = (CHOOSE f : Counts(f))[{e}]
  BY Zenon DEF Cardinality
<1> QED BY <1>3, <1>4, <1>5, Zenon

\* A row has executed once or not at all.
LEMMA CountedOnce ==
  ASSUME DOMAIN Legacy = {}, MinedAtMostOnce, NEW t \in Txs
  PROVE  /\ Executions[t] = Cardinality(Envelopes(t) \cap mined)
         /\ Envelopes(t) \cap mined = {} => Executions[t] = 0
         /\ Envelopes(t) \cap mined # {} => Executions[t] = 1
<1>1. Executions[t] = Cardinality(Envelopes(t) \cap mined)
  BY Zenon DEF Executions, RawTx
<1>2. CASE Envelopes(t) \cap mined = {}
  BY <1>1, <1>2, EmptyCounts, Zenon
<1>3. ASSUME NEW e \in Envelopes(t) \cap mined PROVE Executions[t] = 1
  <2>1. Envelopes(t) \cap mined = {e}
    BY DEF MinedAtMostOnce
  <2> QED BY <1>1, <2>1, SingletonCounts, Zenon
<1> QED BY <1>1, <1>2, <1>3, Zenon

\* Nothing executes while no attempt is mined, nothing is reported while the rows stay.
LEMMA Unexecuted ==
  ASSUME DOMAIN Legacy = {}, \A t \in Txs : Envelopes(t)' \cap mined' = Envelopes(t) \cap mined
  PROVE  Executions' = Executions
<1>1. \A t \in Txs : RawTx(t) = {} /\ RawTx(t)' = {}
  BY Zenon DEF RawTx
<1>2. \A t \in Txs : Cardinality((Envelopes(t)' \cup RawTx(t)') \cap mined') = Cardinality((Envelopes(t) \cup RawTx(t)) \cap mined)
  BY <1>1, Zenon
<1> QED BY <1>2, Zenon DEF Executions

LEMMA Unreported ==
  ASSUME rows' = rows
  PROVE  Outcome' = Outcome
BY Zenon DEF Outcome, Active

\* A save reports a completion after the execution, an abandonment without one,
\* or nothing.
LEMMA SaveImplements ==
  ASSUME DOMAIN Legacy = {}, TypeInv, MinedAtMostOnce, SaveStep
  PROVE  [C!Next]_C!vars
<1>1. Executions' = Executions
  <2>1. \A t \in Txs : Envelopes(t)' \cap mined' = Envelopes(t) \cap mined
    BY Zenon DEF SaveStep, nodeVars, Envelopes
  <2> QED BY <2>1, Unexecuted, Zenon
<1>2. CASE rows' = rows
  BY <1>1, <1>2, Unreported, Zenon DEF C!vars
<1>3. ASSUME NEW t \in Txs, NEW r \in Row, Active(rows[t]), rows' = [rows EXCEPT ![t] = r], Warranted(t, r)
      PROVE  [C!Next]_C!vars
  <2>1. Outcome' = [Outcome EXCEPT ![t] = IF Active(r) THEN "queued" ELSE r.status]
    BY <1>3, Zenon DEF Outcome, Active, TypeInv, StoreType
  <2>2. Outcome[t] = "queued" /\ DOMAIN Outcome = Txs /\ Outcome = [Outcome EXCEPT ![t] = Outcome[t]]
    BY <1>3, Zenon DEF Outcome
  <2>3. CASE Active(r)
    BY <1>1, <2>1, <2>2, <2>3, Zenon DEF C!vars
  <2>4. CASE r.status \in {"succeed", "failed"}
    <3>1. Executions[t] = 1 /\ r.status = IF Payload[t] \in Reverts THEN "failed" ELSE "succeed"
      BY <1>3, <2>4, CountedOnce, Zenon DEF Warranted, Justified
    <3>2. C!Complete(t)
      BY <1>1, <2>1, <2>2, <2>4, <3>1, Zenon DEF C!Complete, Active, ActiveStatuses
    <3> QED BY <3>2, Zenon DEF C!Next
  <2>5. CASE r.status = "errored"
    <3>1. Executions[t] = 0
      BY <1>3, <2>5, CountedOnce, Zenon DEF Warranted, Justified, Live
    <3>2. C!Abandon(t)
      BY <1>1, <2>1, <2>2, <2>5, <3>1, Zenon DEF C!Abandon, Active, ActiveStatuses
    <3> QED BY <3>2, Zenon DEF C!Next
  <2> QED BY <1>3, <2>3, <2>4, <2>5, Zenon DEF Row, Warranted, Active, TerminalStatuses
<1> QED BY <1>2, <1>3, Zenon DEF SaveStep

\* What is mined from the pool is the first mined attempt of one active row.
LEMMA MineImplements ==
  ASSUME DOMAIN Legacy = {}, TypeInv, AttemptsCompete, OneEnvelopePerNonce, MinedAtMostOnce, MinedAtMostOnce', LaneInv, Durable, VerdictInv,
         UNCHANGED <<rows, attempts>>, NEW e \in pool, MineEnvelope(e)
  PROVE  [C!Next]_C!vars
<1>1. e \in Envelope /\ e.payload # "foreign" /\ chainNonce[e.signer] \in Nat /\ e.nonce = chainNonce[e.signer] /\ mined' = mined \cup {e}
  BY EnvelopeFields, Zenon DEF TypeInv, NodeType, VerdictInv, NodeVerdict, MineEnvelope
<1>2. PICK t \in Txs : e \in Envelopes(t) /\ \A u \in Txs \ {t} : e \notin Envelopes(u)
  BY <1>1, Zenon DEF Durable, OnNetwork, OneOwner
<1>3. Envelopes(t) \cap mined = {}
  <2> SUFFICES ASSUME NEW f \in Envelopes(t) \cap mined PROVE FALSE
    BY Zenon
  <2>1. f.nonce = e.nonce /\ f.signer = e.signer
    BY <1>2, Zenon DEF AttemptsCompete
  <2> QED BY <1>1, <2>1 DEF OneEnvelopePerNonce
<1>4. Active(rows[t])
  <2>1. rows[t] \in Row /\ rows[t].status # "absent"
    BY <1>2 DEF LaneInv, SoundRows, SoundRow, Envelopes, TypeInv, StoreType
  <2>2. Justified(t, rows[t]) /\ e \in Live
    BY Zenon DEF VerdictInv, RowVerdict, Live
  <2>3. rows[t].status \notin TerminalStatuses
    BY <1>2, <1>3, <2>2, Zenon DEF Justified, TerminalStatuses
  <2> QED BY <2>1, <2>3, ZenonT(30) DEF Row, Active
<1>5. \A u \in Txs : Envelopes(u)' = Envelopes(u)
  BY AttemptsStay, Zenon
<1>6. Executions[t] = 0 /\ Executions'[t] = 1
  <2>1. Executions[t] = 0
    BY <1>3, CountedOnce, Zenon
  <2>2. (Envelopes(t)' \cup RawTx(t)') \cap mined' = {e} /\ Cardinality({e}) = 1
    BY <1>1, <1>2, <1>3, <1>5, SingletonCounts, Zenon DEF RawTx
  <2>3. Executions'[t] = Cardinality((Envelopes(t)' \cup RawTx(t)') \cap mined')
    BY Zenon DEF Executions
  <2> QED BY <2>1, <2>2, <2>3, Zenon
<1>7. \A u \in Txs \ {t} : Executions'[u] = Executions[u]
  <2> SUFFICES ASSUME NEW u \in Txs \ {t} PROVE Executions'[u] = Executions[u]
    BY Zenon
  <2>1. (Envelopes(u)' \cup RawTx(u)') \cap mined' = (Envelopes(u) \cup RawTx(u)) \cap mined
    BY <1>1, <1>2, <1>5, Zenon DEF RawTx
  <2> QED BY <2>1, Zenon DEF Executions
<1>8. Executions' = [Executions EXCEPT ![t] = 1]
  BY <1>6, <1>7, Zenon DEF Executions
<1>9. Outcome' = Outcome /\ Outcome[t] = "queued"
  BY <1>4, Unreported, Zenon DEF Outcome
<1>10. C!Execute(t)
  BY <1>6, <1>8, <1>9, Zenon DEF C!Execute
<1> QED BY <1>10, Zenon DEF C!Next

LEMMA EnvironmentImplements ==
  ASSUME DOMAIN Legacy = {}, TypeInv, AttemptsCompete, OneEnvelopePerNonce, MinedAtMostOnce, MinedAtMostOnce', LaneInv, Durable, VerdictInv,
         \/ Network \/ Quiescent \/ UNCHANGED vars
         \/ \E t \in Txs : SendTxAsync(t) \/ Age(t) \/ Elapse(t)
  PROVE  [C!Next]_C!vars
<1>1. \A u \in Txs : Envelopes(u)' = Envelopes(u)
  BY Zenon DEF Network, Quiescent, SendTxAsync, Age, Elapse, vars, storeVars, Envelopes
<1>2. CASE rows' = rows /\ \A t \in Txs : Envelopes(t) \cap mined' = Envelopes(t) \cap mined
  BY <1>1, <1>2, Unexecuted, Unreported, Zenon DEF C!vars
<1>3. CASE Network
  <2>1. UNCHANGED <<rows, attempts>>
    BY <1>3, Zenon DEF Network, storeVars
  <2>2. CASE Mine
    BY <2>1, <2>2, MineImplements, Zenon DEF Mine
  <2>3. CASE ForeignMine
    <3>1. mined' = mined \cup {Foreign("self")} /\ Foreign("self").payload = "foreign"
      BY <2>3, Zenon DEF ForeignMine, MineEnvelope, Foreign
    <3>2. \A t \in Txs : \A e \in Envelopes(t) : e.payload # "foreign"
      BY OwnEnvelopes, Zenon
    <3> QED BY <1>2, <2>1, <3>1, <3>2, Zenon
  <2>4. CASE Publish \/ Propagate \/ Evict
    BY <1>2, <2>1, <2>4, Zenon DEF Publish, Propagate, Evict
  <2> QED BY <1>3, <2>2, <2>3, <2>4, Zenon DEF Network
<1>4. ASSUME NEW t \in Txs, SendTxAsync(t) PROVE [C!Next]_C!vars
  <2>1. /\ rows[t] = AbsentRow /\ rows' = [rows EXCEPT ![t] = [AbsentRow EXCEPT !.status = "pending", !.sender = "self"]]
        /\ mined' = mined
    BY <1>4, Zenon DEF SendTxAsync, nodeVars
  <2>2. Executions' = Executions
    BY <1>1, <2>1, Unexecuted, Zenon
  <2>3. Outcome[t] = "absent" /\ Outcome' = [Outcome EXCEPT ![t] = "queued"]
    <3>1. ~Active(rows[t]) /\ rows[t].status = "absent"
      BY <2>1 DEF AbsentRow, Active, ActiveStatuses
    <3>2. Active(rows'[t]) /\ \A u \in Txs \ {t} : rows'[u] = rows[u]
      BY <2>1, Zenon DEF AbsentRow, Active, ActiveStatuses, TypeInv, StoreType
    <3> QED BY <3>1, <3>2, Zenon DEF Outcome, Active
  <2>4. C!Submit(t)
    BY <2>2, <2>3, Zenon DEF C!Submit
  <2> QED BY <2>4, Zenon DEF C!Next
<1>5. CASE Quiescent \/ UNCHANGED vars \/ \E t \in Txs : Age(t) \/ Elapse(t)
  BY <1>2, <1>5, Zenon DEF Quiescent, vars, storeVars, nodeVars, Age, Elapse
<1> QED BY <1>3, <1>4, <1>5, Zenon

\* Signing adds an attempt that is not mined yet, and sending mines nothing.
LEMMA ManageImplements ==
  ASSUME Reliable, TypeInv, MinedAtMostOnce, LaneInv, Durable, VerdictInv, NEW m \in Managers, Manage(m)
  PROVE  [C!Next]_C!vars
<1>1. NodeVerdict /\ RowVerdict /\ DOMAIN Legacy = {}
  BY Zenon DEF VerdictInv, Reliable
<1>2. CASE rows' = rows /\ \A t \in Txs : Envelopes(t)' \cap mined' = Envelopes(t) \cap mined
  BY <1>1, <1>2, Unexecuted, Unreported, Zenon DEF C!vars
<1>3. CASE SignAttempt(m)
  BY <1>1, <1>2, <1>3, SignedVerdict, Zenon
<1>4. CASE Broadcast(m)
  <2>1. UNCHANGED <<rows, attempts, mined>>
    BY <1>4, Zenon DEF Broadcast, SendTransaction, storeVars
  <2> QED BY <1>2, <2>1, AttemptsStay, Zenon
<1> QED BY <1>1, <1>3, <1>4, ManageSaves, SaveImplements, Zenon

\* The manager implements its contract (ImplementsContract), for any number of
\* rows, replicas and attempts: through crashes, lost replies, fee replacements
\* and releases a transaction executes at most once, and what WaitTxCompleted
\* reports is what happened on chain.
THEOREM ContractImplemented ==
  ASSUME Reliable
  PROVE  Spec => ImplementsContract
<1>1. Exclusive /\ DOMAIN Legacy = {}
  BY Zenon DEF Reliable
<1>2. ASSUME Init PROVE C!Init
  <2>1. \A t \in Txs : rows[t] = AbsentRow /\ Envelopes(t) = {} /\ RawTx(t) = {}
    BY <1>1, <1>2 DEF Init, Envelopes, RawTx
  <2>2. Outcome \in [Txs -> {"absent", "queued"}]
    BY <2>1 DEF Outcome, AbsentRow, Active, ActiveStatuses
  <2>3. \A t \in Txs : Cardinality((Envelopes(t) \cup RawTx(t)) \cap mined) = 0
    BY <2>1, EmptyCounts, Zenon
  <2>4. Executions = [t \in Txs |-> 0]
    BY <2>3, Zenon DEF Executions
  <2> QED BY <2>2, <2>4, ZenonT(30) DEF C!Init
<1>4. ASSUME TypeInv, CompetingInv, CompetingInv', LaneInv, Durable, VerdictInv, [Next]_vars PROVE [C!Next]_C!vars
  <2>1. MinedAtMostOnce /\ MinedAtMostOnce' /\ AttemptsCompete /\ OneEnvelopePerNonce
    <3>1. CompetingInv => MinedAtMostOnce
      BY CompetingMinesOnce, Zenon
    <3>2. (CompetingInv => MinedAtMostOnce)'
      BY CompetingMinesOnce, PTL
    <3> QED BY <1>4, <3>1, <3>2, Zenon DEF CompetingInv, Competing
  <2> QED BY <1>1, <1>4, <2>1, ManageImplements, EnvironmentImplements, ZenonT(30) DEF Next
<1>5. Spec => C!Init /\ [][C!Next]_C!vars
  BY <1>1, <1>2, <1>4, TypeInvInductive, CompetingInductive, LaneInvInductive, DurableInductive,
     VerdictInvInductive, PTL DEF Spec
<1> QED BY <1>5, Zenon DEF ImplementsContract, C!Spec
=============================================================================
