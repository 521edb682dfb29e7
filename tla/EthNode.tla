-------------------------------- MODULE EthNode --------------------------------
(***************************************************************************)
(* The Ethereum network behind the RPC endpoint, as the manager uses it.   *)
(* External: nothing of it is in the repository.  The endpoint may lag the *)
(* network, lose a reply, or fail; what it says is otherwise true.         *)
(***************************************************************************)
EXTENDS Naturals, FiniteSets

CONSTANTS StableRejection, \* a permanently rejected envelope is rejected by every backend
          Evicts,          \* the network may drop a pooled envelope
          MaxForeign       \* transactions the same account sends from elsewhere

VARIABLES pool,       \* envelopes some node of the network holds
          seen,       \* envelopes the RPC endpoint knows, pooled or mined
          mined,      \* envelopes in the canonical chain
          receipts,   \* mined envelopes whose receipt the endpoint serves
          chainNonce, \* per signer, how many of its envelopes are mined
          refused     \* envelopes some backend rejected permanently

nodeVars == <<pool, seen, mined, receipts, chainNonce, refused>>

\* P: what was sent before the modelled history begins.
NodeInit(P) ==
  /\ pool = P /\ seen = {} /\ mined = {} /\ receipts = {} /\ refused = {}
  /\ chainNonce = [s \in {"self", "old"} |-> 0]

Foreign(s) == [signer |-> s, payload |-> "foreign", nonce |-> chainNonce[s], fee |-> 0]

Admissible(e) ==
  /\ e.nonce >= chainNonce[e.signer]
  /\ StableRejection => e \notin refused

(* SendTransaction(e): the effect on the network and the reply, after      *)
(* classifyBroadcastError has sorted it.                                   *)

Replies == {"accepted", "alreadyKnown", "nonceConsumed", "feeRejected",
            "rejectedPermanent", "rejectedRetryable", "ambiguous"}

SendTransaction(e, reply) ==
  /\ \/ /\ reply = "accepted"
        /\ Admissible(e)
        /\ pool' = pool \cup {e} /\ seen' = seen \cup {e}
        /\ UNCHANGED refused
     \/ /\ reply = "alreadyKnown"
        /\ e \in seen
        /\ UNCHANGED <<pool, seen, refused>>
     \/ /\ reply = "nonceConsumed"
        /\ e.nonce < chainNonce[e.signer]
        /\ UNCHANGED <<pool, seen, refused>>
     \/ /\ reply \in {"feeRejected", "rejectedRetryable"}
        /\ e \notin seen
        /\ UNCHANGED <<pool, seen, refused>>
     \/ /\ reply = "rejectedPermanent"
        /\ e \notin seen
        /\ StableRejection => e \notin pool \cup mined
        /\ refused' = refused \cup {e}
        /\ UNCHANGED <<pool, seen>>
     \/ /\ reply = "ambiguous"        \* lost before or after admission
        /\ pool' \in IF Admissible(e) THEN {pool, pool \cup {e}} ELSE {pool}
        /\ UNCHANGED <<seen, refused>>
  /\ UNCHANGED <<mined, receipts, chainNonce>>

(* PendingNonceAt may answer any nonce the pool is contiguous up to, or a  *)
(* smaller, older one.                                                     *)

PendingNonceAt(s, n) ==
  \A k \in chainNonce[s]..(n - 1) :
    \E e \in pool \cap seen : e.signer = s /\ e.nonce = k

(* What happens behind the endpoint.                                       *)

Consumes(e) == {f \in pool : f.signer = e.signer /\ f.nonce = e.nonce}

MineEnvelope(e) ==
  /\ e.nonce = chainNonce[e.signer]
  /\ mined' = mined \cup {e}
  /\ chainNonce' = [chainNonce EXCEPT ![e.signer] = @ + 1]
  /\ pool' = pool \ Consumes(e)
  /\ seen' = seen \ (Consumes(e) \ {e})
  /\ UNCHANGED <<receipts, refused>>

Mine == \E e \in pool : MineEnvelope(e)

ForeignMine ==
  /\ Cardinality({e \in mined : e.payload = "foreign"}) < MaxForeign
  /\ MineEnvelope(Foreign("self"))

Publish == \E e \in mined \ receipts :
  /\ receipts' = receipts \cup {e}
  /\ seen' = seen \cup {e}
  /\ UNCHANGED <<pool, mined, chainNonce, refused>>

Propagate == \E e \in pool \ seen :
  /\ seen' = seen \cup {e}
  /\ UNCHANGED <<pool, mined, receipts, chainNonce, refused>>

Evict == \E e \in pool :
  /\ Evicts
  /\ pool' = pool \ {e}
  /\ seen' = seen \ {e}
  /\ UNCHANGED <<mined, receipts, chainNonce, refused>>
=============================================================================
