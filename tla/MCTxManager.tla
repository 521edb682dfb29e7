----------------------------- MODULE MCTxManager -----------------------------
(* Instances of the transaction manager for model checking.                *)
EXTENDS TxManager, TLC

CONSTANTS t1, t2, t3, m1, m2

\* All rows execute one payload, so that they can sign the same envelope.
OnePayload == [t \in Txs |-> "p"]
NoLegacy == [t \in {} |-> t]

\* Rows of the old schema: signed by the managers' key, signed by a key that
\* has been rotated out, and not signed yet.
LegacyEnvelope(s) == [signer |-> s, payload |-> "p", nonce |-> 0, fee |-> 1]
LegacyMixed == (t1 :> LegacyEnvelope("self")) @@ (t2 :> LegacyEnvelope("old"))
LegacyUnsigned == t2 :> None

Symmetry == Permutations(Txs) \cup Permutations(Managers)
=============================================================================
