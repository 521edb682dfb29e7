----------------------------- MODULE Submission -----------------------------
(***************************************************************************)
(* SendTxAsync and WaitTxCompleted: callers of several managers submit     *)
(* transactions to one table, under operation keys or without, and repeat  *)
(* a submission whose reply was lost. The insert is one statement of the   *)
(* database that commits, or not, after it has been executed; the unique   *)
(* index on operation_key makes a second insert of a key wait for that.    *)
(***************************************************************************)
EXTENDS Naturals, FiniteSets

CONSTANTS
    Submitters,     \* concurrent callers
    Manager,        \* caller -> [sender, scope], its manager; scope: NewSenderTransactionsQ
    Keys,           \* operation keys
    NoKey,
    Payloads,
    LegacyKeys,     \* keys of rows from before payload hashes were kept
    MaxRows         \* bound on the inserts tried

VARIABLES
    table,          \* id -> [key, payload, sender, committed, completed], partial
    ids,            \* ids made
    submission      \* caller -> [pc, key, payload, id]

submitVars == <<table, ids, submission>>

NoHash == "none"    \* a payload_hash that is NULL
NoId == 0

\* Old rows have real keys, and no hash of theirs is a payload of today.
ASSUME SubmitConstants ==
    /\ IsFiniteSet(LegacyKeys) /\ LegacyKeys \subseteq Keys /\ NoKey \notin Keys
    /\ NoHash \notin Payloads

NotSubmitted == [pc |-> "idle", key |-> NoKey, payload |-> NoHash, id |-> NoId]
Row(key, payload, sender, committed) ==
    [key |-> key, payload |-> payload, sender |-> sender, committed |-> committed, completed |-> FALSE]
With(i, row) == [j \in DOMAIN table \union {i} |-> IF j = i THEN row ELSE table[j]]
Holders(key) == {i \in DOMAIN table : key # NoKey /\ table[i].key = key}

\* At most one row of the old kind for each of the legacy keys
SubmitInit ==
    /\ ids = Cardinality(LegacyKeys)
    /\ \E key \in [1..ids -> LegacyKeys] :
          /\ \A i, j \in 1..ids : key[i] = key[j] => i = j
          /\ table = [i \in 1..ids |-> Row(key[i], NoHash, "a", TRUE)]
    /\ submission = [c \in Submitters |-> NotSubmitted]

SubmitGoto(c, pc) == submission' = [submission EXCEPT ![c].pc = pc]

-----------------------------------------------------------------------------
(* SendTxAsync *)

\* The payload is hashed and the row made; an unknown chain has been refused.
InScope(c) == Manager[c].scope \in {"", Manager[c].sender}
SendTxAsync(c) ==
    /\ submission[c].pc = "idle" /\ ids < MaxRows
    /\ InScope(c)
    /\ \E key \in Keys \union {NoKey}, payload \in Payloads :
          submission' = [submission EXCEPT ![c] = [pc |-> "insert", key |-> key, payload |-> payload, id |-> NoId]]
    /\ UNCHANGED <<table, ids>>

\* A queue that is scoped to another signer refuses the row before any statement.
SendRefused(c) ==
    /\ submission[c].pc = "idle"
    /\ ~InScope(c)
    /\ SubmitGoto(c, "refused")
    /\ UNCHANGED <<table, ids>>

\* The statement is executed and holds its key until it ends.
Insert(c) ==
    /\ submission[c].pc = "insert" /\ ids < MaxRows
    /\ Holders(submission[c].key) = {}
    /\ ids' = ids + 1
    /\ table' = With(ids + 1, Row(submission[c].key, submission[c].payload, Manager[c].sender, FALSE))
    /\ submission' = [submission EXCEPT ![c].pc = "commit", ![c].id = ids + 1]

\* ON CONFLICT DO UPDATE: the row that is there, once it is committed
Conflict(c) ==
    /\ submission[c].pc = "insert"
    /\ \E i \in Holders(submission[c].key) :
          /\ table[i].committed
          /\ submission' = [submission EXCEPT ![c].pc = "compare", ![c].id = i]
    /\ UNCHANGED <<table, ids>>

Commit(c) ==
    /\ submission[c].pc = "commit"
    /\ table' = [table EXCEPT ![submission[c].id].committed = TRUE]
    /\ SubmitGoto(c, "compare")
    /\ UNCHANGED ids

Rollback(c) ==
    /\ submission[c].pc = "commit"
    /\ table' = [i \in DOMAIN table \ {submission[c].id} |-> table[i]]
    /\ submission' = [submission EXCEPT ![c].pc = "error", ![c].id = NoId]
    /\ UNCHANGED ids

\* The statement has succeeded, but its reply does not arrive.
ReplyLost(c) ==
    /\ submission[c].pc = "compare"
    /\ submission' = [submission EXCEPT ![c].pc = "error", ![c].id = NoId]
    /\ UNCHANGED <<table, ids>>

\* Fault: the row that is there is returned whatever it holds.
SamePayloadAssumed(c) == TRUE

\* The payload hashes are compared, if there is a key.
SamePayload(c) ==
    \/ submission[c].key = NoKey
    \/ table[submission[c].id].payload # NoHash /\ table[submission[c].id].payload = submission[c].payload
Compare(c) ==
    /\ submission[c].pc = "compare"
    /\ IF SamePayload(c) THEN SubmitGoto(c, "sent") ELSE SubmitGoto(c, "conflict")
    /\ UNCHANGED <<table, ids>>

\* The caller repeats the call that failed.
Repeat(c) ==
    /\ submission[c].pc = "error" /\ ids < MaxRows
    /\ SubmitGoto(c, "insert")
    /\ UNCHANGED <<table, ids>>

-----------------------------------------------------------------------------
(* WaitTxCompleted, on the same queue *)

Visible(c, i) == Manager[c].scope \in {"", table[i].sender}
Told(c) == submission[c].pc = "sent" /\ Visible(c, submission[c].id) /\ table[submission[c].id].completed
WaitReturns(c) ==
    /\ Told(c)
    /\ SubmitGoto(c, "completed")
    /\ UNCHANGED <<table, ids>>

\* Some manager finishes the transaction.
Complete(i) ==
    /\ i \in DOMAIN table /\ table[i].committed /\ ~table[i].completed
    /\ table' = [table EXCEPT ![i].completed = TRUE]
    /\ UNCHANGED <<ids, submission>>

\* A submission under way, unless the bound keeps its row from being inserted
Sending(c) ==
    \/ submission[c].pc \in {"commit", "compare"}
    \/ submission[c].pc = "insert" /\ (ids < MaxRows \/ Holders(submission[c].key) # {})

SendStep(c) == Insert(c) \/ Conflict(c) \/ Commit(c) \/ Rollback(c) \/ ReplyLost(c) \/ Compare(c)

SubmitNext ==
    \/ \E c \in Submitters : SendTxAsync(c) \/ SendRefused(c) \/ SendStep(c) \/ Repeat(c) \/ WaitReturns(c)
    \/ \E i \in DOMAIN table : Complete(i)

SubmitSpec == SubmitInit /\ [][SubmitNext]_submitVars

-----------------------------------------------------------------------------
(* Properties *)

\* A key names one row, however its submissions interleave, fail and are repeated.
OneRowPerKey == \A k \in Keys : Cardinality(Holders(k)) <= 1

\* "WithOperationKey makes SendTxAsync idempotent": calls with one key that succeed have
\* the same id, that of a committed row with their payload; a caller without a key gets
\* a row nobody else has.
SentAgree ==
    \A c \in Submitters : submission[c].pc \in {"sent", "completed"} =>
        /\ submission[c].id \in DOMAIN table /\ table[submission[c].id].committed
        /\ table[submission[c].id].payload = submission[c].payload
        /\ \A d \in Submitters \ {c} : submission[d].pc \in {"sent", "completed"} =>
              (submission[c].id = submission[d].id <=> submission[c].key = submission[d].key /\ submission[c].key # NoKey)

\* "Reusing the key with different payload fields returns ErrIdempotencyConflict", and
\* only that does, or a row whose payload hash is not known: whose insert was repeated,
\* or waited for one that was rolled back, is not in conflict with itself.
ConflictIsReal ==
    \A c \in Submitters : submission[c].pc = "conflict" =>
        \E i \in Holders(submission[c].key) : table[i].committed /\ table[i].payload # submission[c].payload
=============================================================================
