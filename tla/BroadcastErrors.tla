--------------------------- MODULE BroadcastErrors ---------------------------
(***************************************************************************)
(* classifyBroadcastError: what the error of eth_sendRawTransaction says   *)
(* of the transaction's admission. An error has the code of a JSON-RPC     *)
(* response, if it carries one, and a text in which phrases are found.     *)
(***************************************************************************)
EXTENDS Integers

NoResponse == -1    \* the error carries no JSON-RPC response

\* The phrases, by the list they are in. "unknown transaction" contains "known transaction".
Phrases == {"already known", "unknown transaction", "nonce too low", "fee", "retryable", "permanent"}
NonceConsumedCodes == {1, -38010}
FeeCodes == {802, 806}
RetryableCodes == {2, 809, -38011, -38014, -38026, -32700, -32600, -32601, -32004, -32006}
PermanentCodes == {3, 4, 800, 801, 803, 804, 805, 807, 808, 1001, -38013, -38015, -38024, -38025, -32602}
OverloadedCodes == {-32603, -32000, -32002, -32003, -32005}
Codes == {NoResponse, 0, 1000} \union NonceConsumedCodes \union FeeCodes \union RetryableCodes
           \union PermanentCodes \union OverloadedCodes

isAlreadyKnownError(code, text) == code = 1000 \/ ("unknown transaction" \notin text /\ "already known" \in text)
isNonceTooLowError(code, text) == code \in NonceConsumedCodes \/ "nonce too low" \in text
isFeePolicyRejectionError(code, text) == code \in FeeCodes \/ "fee" \in text
isRetryableTransactionRejectionError(code, text) == code \in RetryableCodes \/ "retryable" \in text

\* Fault: a text that no node has answered is believed.
isPermanentByText(code, text) ==
    /\ ~isAlreadyKnownError(code, text) /\ ~isNonceTooLowError(code, text)
    /\ ~isFeePolicyRejectionError(code, text) /\ ~isRetryableTransactionRejectionError(code, text)
    /\ code \in PermanentCodes \/ "permanent" \in text

isPermanentTransactionRejectionError(code, text) ==
    /\ ~isAlreadyKnownError(code, text) /\ ~isNonceTooLowError(code, text)
    /\ ~isFeePolicyRejectionError(code, text) /\ ~isRetryableTransactionRejectionError(code, text)
    /\ code # NoResponse
    /\ code \in PermanentCodes \/ "permanent" \in text

classifyBroadcastError(code, text) ==
    IF isAlreadyKnownError(code, text) THEN "alreadyKnown"
    ELSE IF isNonceTooLowError(code, text) THEN "nonceConsumed"
    ELSE IF isFeePolicyRejectionError(code, text) THEN "feeRejected"
    ELSE IF isRetryableTransactionRejectionError(code, text) THEN "rejectedRetryable"
    ELSE IF isPermanentTransactionRejectionError(code, text) THEN "rejectedPermanent"
    ELSE "ambiguous"

-----------------------------------------------------------------------------
\* Only a node's answer rejects a transaction for good, and only if nothing in it says
\* otherwise: the answer with some of its text left out, or before a wrapper added to
\* it, is ambiguous or a rejection too, but for "unknown transaction", which takes
\* "known transaction" back (isPermanentTransactionRejectionError).
RejectionIsUncontradicted(code, text) ==
    classifyBroadcastError(code, text) = "rejectedPermanent" =>
        /\ code # NoResponse
        /\ \A part \in SUBSET text :
             classifyBroadcastError(code, part) \in {"ambiguous", "rejectedPermanent"}
               \union (IF "unknown transaction" \in text \ part THEN {"alreadyKnown"} ELSE {})
=============================================================================
