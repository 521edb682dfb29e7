----------------------------- MODULE Algorithms -----------------------------
(***************************************************************************)
(* The algorithms, one at a time: the fee ladder, the loops that select    *)
(* evidence, the amounts of orders and of transfers, and the               *)
(* classification of errors.                                               *)
(***************************************************************************)
EXTENDS FeeLadder, Evidence, OrderAmounts, CoreScaling, BroadcastErrors

CONSTANTS Prices, Sizes     \* what orders and transfers are tried with

ASSUME AmountsAreNaturals == Prices \subseteq Nat /\ Sizes \subseteq Nat

VARIABLES
    focus,      \* the algorithm that runs
    order,      \* the order that is tried
    transfer,   \* the amount that is converted, and the decimals it has more
    code, text  \* the error that is classified; phrases are added to its text

inputs == <<order, transfer, code, text>>
allVars == <<focus, vars, evidenceVars, inputs>>

NoOrder == [side |-> "buy", price |-> 0, size |-> 0, tick |-> 0]
NoTransfer == [amount |-> 0, extra |-> 0]
Orders == [side : {"buy", "sell"}, price : Prices, size : Sizes, tick : TickSizes]
Transfers == [amount : Sizes \union {-1}, extra : -2..2]

AlgorithmsInit ==
    /\ focus \in {"fees", "evidence", "order", "transfer", "error"}
    /\ Init
    /\ EvidenceInit /\ (focus # "evidence" => task = "rates")
    /\ order = NoOrder /\ transfer = NoTransfer
    /\ code \in Codes /\ (focus # "error" => code = NoResponse)
    /\ text = {}

RaiseFees == focus = "fees" /\ Next /\ UNCHANGED <<focus, evidenceVars, inputs>>
SelectEvidence == focus = "evidence" /\ EvidenceNext /\ UNCHANGED <<focus, vars, inputs>>
TryOrder ==
    /\ focus = "order" /\ order = NoOrder /\ order' \in Orders
    /\ UNCHANGED <<focus, vars, evidenceVars, transfer, code, text>>
TryTransfer ==
    /\ focus = "transfer" /\ transfer = NoTransfer /\ transfer' \in Transfers
    /\ UNCHANGED <<focus, vars, evidenceVars, order, code, text>>
AddToError ==
    /\ focus = "error" /\ \E phrase \in Phrases \ text : text' = text \union {phrase}
    /\ UNCHANGED <<focus, vars, evidenceVars, order, transfer, code>>

AlgorithmsNext == RaiseFees \/ SelectEvidence \/ TryOrder \/ TryTransfer \/ AddToError

AlgorithmsSpec == AlgorithmsInit /\ [][AlgorithmsNext]_allVars

-----------------------------------------------------------------------------
(* Properties of the pure functions; those of the machines are in their modules *)

\* BuildOrder: the amounts of every order that it accepts have exactly the price asked
\* for (AmountsAreExact). NormalizeOrderAmounts, which is called for any price and size:
\* off the grids it rounds a buy up and a sell down (RoundedAgainstMaker).
OrdersAreExact ==
    order # NoOrder =>
        /\ AmountsAreExact(order.side, order.price, order.size, order.tick)
        /\ RoundedAgainstMaker(order.side, order.price, order.size)

\* EvmToCoreWei, CoreWeiToEvm and their floors: every conversion is undone by the one
\* back, up to the remainder it reports (DustIsAccountedFor).
TransfersAreWhole == DustIsAccountedFor(transfer.amount, transfer.extra)

\* classifyBroadcastError: an error is a permanent rejection only if a node answered and
\* no part of its text, taken alone, says otherwise (RejectionIsUncontradicted).
RejectionsAreUncontradicted == RejectionIsUncontradicted(code, text)
=============================================================================
