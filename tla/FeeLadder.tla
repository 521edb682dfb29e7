------------------------------ MODULE FeeLadder ------------------------------
(***************************************************************************)
(* The fees of the successive attempts of one row, as signAttempt chooses  *)
(* them from the node's suggestions, the previous attempt and, after a     *)
(* hash collision, the floor of every attempt signed at the nonce.  A row  *)
(* without authorizations has a price, one with them a tip and a cap.      *)
(***************************************************************************)
EXTENDS GasFee

CONSTANTS Suggested,          \* prices and tips the node may suggest
          BaseFees,           \* base fees of the latest block
          Floors,             \* fees of other rows' attempts at this nonce
          maxFeeReplacements

ASSUME FeesAreNaturals ==
  Suggested \subseteq Nat /\ BaseFees \subseteq Nat /\ Floors \subseteq Nat /\ maxFeeReplacements \in Nat

VARIABLES signed,  \* number of attempts so far
          price,   \* gas price of the latest legacy-type attempt
          pair     \* tip and cap of the latest EIP-1559 attempt

vars == <<signed, price, pair>>

Init == signed = 0 /\ price = 0 /\ pair = [tip |-> 0, cap |-> 0]

highestGasFee(a, b) == [tip |-> maxFee(a.tip, b.tip), cap |-> maxFee(a.cap, b.cap)]

signAttempt ==
  /\ signed < maxFeeReplacements
  /\ signed' = signed + 1
  /\ \E s \in Suggested, f \in Floors \cup {0} :
       price' = suggestGasPrice(s, maxFee(price, f), signed + 1)
  /\ \E s \in Suggested, b \in BaseFees, f, g \in Floors \cup {0} :
       pair' = suggestEIP1559GasFee(b, s, highestGasFee(pair, [tip |-> f, cap |-> g]), signed + 1)

Next == signAttempt \/ (signed = maxFeeReplacements /\ UNCHANGED vars)

Spec == Init /\ [][Next]_vars

-----------------------------------------------------------------------------
TypeOK == signed \in 0..maxFeeReplacements /\ price \in Nat /\ pair \in [tip : Nat, cap : Nat]

\* A replacement of a positive fee raises every component by a tenth or more,
\* which is what nodes ask of a replacement, however far the suggestions and the
\* base fee have fallen since (suggestGasPrice, suggestEIP1559GasFee).
ReplacementOutbids ==
  [][signed > 0 /\ signed' > signed =>
       /\ price' * 10 >= price * 11 /\ (price > 0 => price' > price)
       /\ pair'.tip * 10 >= pair.tip * 11 /\ (pair.tip > 0 => pair'.tip > pair.tip)
       /\ pair'.cap * 10 >= pair.cap * 11 /\ (pair.cap > 0 => pair'.cap > pair.cap)]_vars

\* The cap always covers the tip, also when the floor mixes the tip of one
\* attempt with the cap of another: a node rejects an envelope with a tip above
\* its cap for ever (highestGasFee, suggestEIP1559GasFee).
CapCoversTip == signed > 0 => pair.cap >= pair.tip
=============================================================================
