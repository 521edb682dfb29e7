--------------------------- MODULE MCEventIndexer ---------------------------
EXTENDS EventIndexer, TLC

CONSTANTS p1, p2, r1, r2, c1, c2

Key(chain) == [chain |-> chain, address |-> "a", events |-> "e"]
TwoKeys == {Key(1), Key(2)}
AllKeys == TwoKeys \union {Key(3)}
\* One chain, two chains at once, and a chain without client
AddRequests == {{Key(1)}, TwoKeys, {Key(3)}}
\* One caller adds, the other removes and stops; either may start.
Split == p1 :> {"start", "add"} @@ p2 :> {"start", "remove", "stop"}
=============================================================================
