-------------------------------- MODULE TxStore --------------------------------
(***************************************************************************)
(* The durable transaction queue (TransactionsQ): one row per logical      *)
(* transaction, the immutable signed attempts of each row, and the lane    *)
(* lock.  Each operation is one atomic statement of the database.          *)
(*                                                                         *)
(* A signed envelope is identified with its hash: the signer, the payload, *)
(* the nonce and the fee determine it.  Two logical transactions with one  *)
(* payload sign the same envelope when nonce and fee agree.                *)
(***************************************************************************)
EXTENDS Naturals, Sequences, NonceLane

CONSTANTS Txs,       \* ids of the logical transactions
          Payload,   \* [Txs -> Payloads], what each of them executes
          Managers,  \* the replicas that share the database
          None       \* nil

VARIABLES rows,      \* [Txs -> Row]
          attempts,  \* [Txs -> Seq(Envelope)], oldest first
          lock       \* the manager holding the lane lock, or None

storeVars == <<rows, attempts, lock>>

Signers == {"self", "old"}   \* the managers' signer, and a rotated-out one
Payloads == {Payload[t] : t \in Txs} \cup {"foreign"}
Envelope == [signer : Signers, payload : Payloads, nonce : Nat, fee : Nat]

ActiveStatuses == {"pending", "processing", "confirming"}
TerminalStatuses == {"succeed", "failed", "errored"}

Row == [status   : ActiveStatuses \cup TerminalStatuses \cup {"absent"},
        sender   : Signers \cup {"unset"},
        nonce    : Nat \cup {None},          \* AssignedNonce
        env      : Envelope \cup {None},     \* Tx, the canonical signed envelope
        pending  : BOOLEAN,                  \* BroadcastPending
        rejected : Envelope \cup {None},     \* RejectedAttemptHash
        consumed : BOOLEAN]                  \* NonceConsumedAt # nil

AbsentRow == [status |-> "absent", sender |-> "unset", nonce |-> None, env |-> None,
              pending |-> FALSE, rejected |-> None, consumed |-> FALSE]

Active(r) == r.status \in ActiveStatuses
IsCompleted(r) == r.status \in TerminalStatuses

Envelopes(t) == {attempts[t][i] : i \in 1..Len(attempts[t])}
Latest(t) == attempts[t][Len(attempts[t])]

-----------------------------------------------------------------------------
(* UpdateIfActive writes the whole row, and nothing once it is terminal.   *)

UpdateIfActive(t, r) ==
  IF Active(rows[t]) THEN [rows EXCEPT ![t] = r] ELSE rows

(* InsertAttempt: an envelope has one owner; its owner may insert it twice. *)

OwnedByAnother(t, e) == \E u \in Txs \ {t} : e \in Envelopes(u)

\* Fault: the insert is not committed.
InsertIsLost(t, e) == attempts

InsertAttempt(t, e) ==
  IF e \in Envelopes(t) THEN attempts ELSE [attempts EXCEPT ![t] = Append(@, e)]

(* MaxAssignedNonce: every row counts, the terminal ones included.          *)

AssignedNonces == {rows[t].nonce : t \in {u \in Txs : /\ rows[u].sender = "self"
                                                      /\ rows[u].nonce # None}}
IsMaxAssignedNonce(n) == n \in AssignedNonces /\ \A k \in AssignedNonces : k <= n

(* FilterBySenderOrUnset and ActiveStatuses select a lane's work;           *)
(* OrderByLaneWork puts nonce owners first, by nonce.                       *)

LaneWork == {t \in Txs : Active(rows[t]) /\ rows[t].sender \in {"self", "unset"}}

OrderedBefore(r, s) == s.nonce # None => r.nonce # None /\ r.nonce <= s.nonce

(* TryLockLane and Unlock.                                                  *)

TryLockLane(m) == lock = None /\ lock' = m
Unlock(m) == lock' = IF lock = m THEN None ELSE lock
=============================================================================
