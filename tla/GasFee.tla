-------------------------------- MODULE GasFee --------------------------------
(***************************************************************************)
(* The fee arithmetic of the transaction manager, on natural numbers of    *)
(* wei.  big.Int has no width, so there is no overflow to model.           *)
(***************************************************************************)
EXTENDS Naturals

priorityCoefficient == 15

maxFee(a, b) == IF a >= b THEN a ELSE b

\* Fault: small prices round down to themselves.
bumpRoundsDown(gasPrice, coef) == (gasPrice * (100 + coef)) \div 100

bumpGasPrice(gasPrice, coef) ==
  LET raised == (gasPrice * (100 + coef)) \div 100
  IN  IF gasPrice > 0 /\ raised <= gasPrice THEN gasPrice + 1 ELSE raised

\* The price of attempt number k of a legacy-type transaction: the node's
\* suggestion or the highest fee to outbid, whichever is larger, bumped.
suggestGasPrice(suggested, outbid, k) ==
  bumpGasPrice(maxFee(suggested, outbid), priorityCoefficient * k)

\* Fault: the new tip is left out of the cap.
suggestCapWithoutTip(baseFee, suggestedTip, prev, k) ==
  LET coef == priorityCoefficient * k
  IN  [tip |-> bumpGasPrice(maxFee(suggestedTip, prev.tip), coef),
       cap |-> maxFee(2 * baseFee, bumpGasPrice(prev.cap, coef))]

\* The EIP-1559 pair of attempt number k.  prev is the fee to outbid; absent
\* fees are zero, which the maxima below ignore as the code ignores nil.
suggestEIP1559GasFee(baseFee, suggestedTip, prev, k) ==
  LET coef == priorityCoefficient * k
      tip  == bumpGasPrice(maxFee(suggestedTip, prev.tip), coef)
  IN  [tip |-> tip,
       cap |-> maxFee(2 * baseFee + tip, bumpGasPrice(prev.cap, coef))]
=============================================================================
