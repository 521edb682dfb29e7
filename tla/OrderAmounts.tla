---------------------------- MODULE OrderAmounts ----------------------------
(***************************************************************************)
(* Polymarket orders: BuildOrder and NormalizeOrderAmounts. Prices are on  *)
(* the grid of a tick and sizes on one grid; the amounts that are signed   *)
(* are price * size / Scale, rounded up for what a buyer pays and down for *)
(* what a seller gets.                                                     *)
(***************************************************************************)
EXTENDS Integers

CONSTANTS
    Scale,          \* OrderPriceScaleE6
    SizeGrid,       \* OrderSizeGridE6
    TickSizes,      \* the ticks of SupportedTickSizeE6
    MaxUint256

\* One step of the size grid and one of a price grid make a whole amount. The source's
\* numbers do: 10 000 times 100 000, 10 000, 5 000, 2 500, 1 000 or 100 is a multiple of
\* 1 000 000.
ASSUME GridsMatch ==
    /\ Scale \in Nat \ {0} /\ SizeGrid \in Nat \ {0} /\ MaxUint256 \in Nat
    /\ TickSizes \subseteq Nat \ {0}
    /\ \A t \in TickSizes : (SizeGrid * t) % Scale = 0

Rejected == [maker |-> 0, taker |-> 0]

\* Fault: a tenth of a grid step is accepted.
OnGridRoughly(price, size, tick) == price % tick = 0 /\ (10 * size) % SizeGrid = 0

NormalizeOrderAmounts(side, price, size) ==
    LET product == price * size
        up == (product + (Scale - 1)) \div Scale
        down == product \div Scale
    IN  IF price = 0 \/ price >= Scale \/ size <= 0 \/ size > MaxUint256 THEN Rejected
        ELSE IF side = "buy" THEN IF up > MaxUint256 THEN Rejected ELSE [maker |-> up, taker |-> size]
        ELSE IF down <= 0 \/ down > MaxUint256 THEN Rejected ELSE [maker |-> size, taker |-> down]

OnGrid(price, size, tick) == tick \in TickSizes /\ price % tick = 0 /\ size % SizeGrid = 0

\* The fields that are copied are left out; the amounts are checked again as uint256.
BuildOrder(side, price, size, tick) ==
    IF OnGrid(price, size, tick) THEN NormalizeOrderAmounts(side, price, size) ELSE Rejected

-----------------------------------------------------------------------------
(* Properties *)

\* What is signed is never worse than the price asked for: a buyer pays at least, a
\* seller gets at most, the exact amount, by less than one unit, and neither amount is
\* zero or more than a uint256 ("BUY ceiling and SELL floor semantics").
RoundedAgainstMaker(side, price, size) ==
    LET order == NormalizeOrderAmounts(side, price, size)
    IN  order # Rejected =>
          /\ order.maker \in 1..MaxUint256 /\ order.taker \in 1..MaxUint256
          /\ side = "buy" => order.taker = size /\ Scale * order.maker - price * size \in 0..(Scale - 1)
          /\ side = "sell" => order.maker = size /\ price * size - Scale * order.taker \in 0..(Scale - 1)

\* The grids leave nothing to round: an order that BuildOrder accepts has exactly the
\* price asked for, so the buy and the sell order of a price and a size match.
AmountsAreExact(side, price, size, tick) ==
    LET order == BuildOrder(side, price, size, tick)
    IN  order # Rejected =>
          /\ side = "buy" => Scale * order.maker = price * order.taker
          /\ side = "sell" => Scale * order.taker = price * order.maker
=============================================================================
