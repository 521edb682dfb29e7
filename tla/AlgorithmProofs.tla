-------------------------- MODULE AlgorithmProofs --------------------------
(***************************************************************************)
(* The algorithms for every input: the fee ladder for any suggestions,     *)
(* base fees, floors and number of replacements, orders for every price,   *)
(* size, scale and grid, transfers of every amount, errors with any text,  *)
(* and the loops that select evidence for responses of any length.         *)
(***************************************************************************)
EXTENDS Algorithms, FiniteSetTheorems, TLAPS

-----------------------------------------------------------------------------
(* The fee ladder *)


\* A tenth more, and strictly more if there is anything to raise
Outbids(new, old) == new * 10 >= old * 11 /\ (old > 0 => new > old)

LEMMA BumpIsNat ==
  ASSUME NEW g \in Nat, NEW coef \in Nat
  PROVE  bumpGasPrice(g, coef) \in Nat
<1>1. g * (100 + coef) \in Nat  OBVIOUS
<1>2. (g * (100 + coef)) \div 100 \in Nat  BY <1>1
<1>3. QED  BY <1>2 DEF bumpGasPrice

\* A bump by thirty percent, that of the first replacement, outbids despite the division;
\* one by fifteen percent would not, as 11 wei would become 12.
LEMMA BumpOutbids ==
  ASSUME NEW g \in Nat, NEW coef \in Nat, coef >= 30
  PROVE  Outbids(bumpGasPrice(g, coef), g)
<1> DEFINE product == g * (100 + coef)
           raised == product \div 100
<1>1. product \in Nat /\ product >= g * 130
  <2>1. g * coef \in Nat /\ g * coef >= g * 30  OBVIOUS
  <2>2. product = g * 100 + g * coef  OBVIOUS
  <2>3. QED  BY <2>1, <2>2
<1> HIDE DEF product
<1>2. raised \in Nat /\ 100 * raised <= product /\ product < 100 * raised + 100
  BY <1>1
<1> HIDE DEF raised
<1>3. 100 * raised + 99 >= g * 130  BY <1>1, <1>2
<1>4. bumpGasPrice(g, coef) = IF g > 0 /\ raised <= g THEN g + 1 ELSE raised
  BY Zenon DEF bumpGasPrice, raised, product
<1>5. CASE g > 0 /\ raised <= g
  <2>1. g <= 3  BY <1>2, <1>3, <1>5
  <2>2. QED  BY <1>4, <1>5, <2>1 DEF Outbids
<1>6. CASE ~(g > 0 /\ raised <= g)
  BY <1>2, <1>3, <1>4, <1>6 DEF Outbids
<1>7. QED  BY <1>5, <1>6, Zenon

LEMMA MaxFeeBounds ==
  ASSUME NEW a \in Nat, NEW b \in Nat
  PROVE  maxFee(a, b) \in Nat /\ maxFee(a, b) >= a /\ maxFee(a, b) >= b /\ maxFee(a, b) \in {a, b}
  BY DEF maxFee

\* What outbids more outbids less.
LEMMA OutbidsLower ==
  ASSUME NEW new \in Nat, NEW old \in Nat, NEW lower \in Nat, lower <= old, Outbids(new, old)
  PROVE  Outbids(new, lower)
  BY DEF Outbids

LEMMA RaisedOutbids ==
  ASSUME NEW new \in Nat, NEW old \in Nat, NEW higher \in Nat, higher >= new, Outbids(new, old)
  PROVE  Outbids(higher, old)
  BY DEF Outbids

\* The price of a replacement outbids the one before it.
LEMMA PriceOutbids ==
  ASSUME NEW s \in Nat, NEW f \in Nat, NEW p \in Nat, NEW k \in Nat
  PROVE  /\ suggestGasPrice(s, maxFee(p, f), k) \in Nat
         /\ k >= 2 => Outbids(suggestGasPrice(s, maxFee(p, f), k), p)
<1> DEFINE floor == maxFee(p, f)
           base == maxFee(s, floor)
<1>1. floor \in Nat /\ floor >= p  BY MaxFeeBounds, Zenon
<1> HIDE DEF floor
<1>2. base \in Nat /\ base >= p  BY <1>1, MaxFeeBounds
<1>3. priorityCoefficient * k \in Nat /\ (k >= 2 => priorityCoefficient * k >= 30)  BY DEF priorityCoefficient
<1> HIDE DEF base
<1>4. bumpGasPrice(base, priorityCoefficient * k) \in Nat  BY <1>2, <1>3, BumpIsNat, Zenon
<1>5. k >= 2 => Outbids(bumpGasPrice(base, priorityCoefficient * k), base)  BY <1>2, <1>3, BumpOutbids, Zenon
<1>6. k >= 2 => Outbids(bumpGasPrice(base, priorityCoefficient * k), p)  BY <1>2, <1>4, <1>5, OutbidsLower,
         Zenon
<1>7. QED  BY <1>4, <1>6, Zenon DEF suggestGasPrice, base, floor

\* A new pair outbids the tip and the cap before it, and its cap covers its tip, though
\* the floor may take them from two attempts.
LEMMA PairOutbids ==
  ASSUME NEW b \in Nat, NEW s \in Nat, NEW prev \in [tip : Nat, cap : Nat], NEW k \in Nat
  PROVE  LET new == suggestEIP1559GasFee(b, s, prev, k)
         IN  /\ new \in [tip : Nat, cap : Nat]
             /\ k >= 2 => Outbids(new.tip, prev.tip) /\ Outbids(new.cap, prev.cap)
             /\ new.cap >= new.tip
<1> DEFINE coef == priorityCoefficient * k
           base == maxFee(s, prev.tip)
           tip == bumpGasPrice(base, coef)
           bumped == bumpGasPrice(prev.cap, coef)
           cap == maxFee(2 * b + tip, bumped)
<1>1. coef \in Nat /\ (k >= 2 => coef >= 30)  BY DEF priorityCoefficient
<1>2. prev.tip \in Nat /\ prev.cap \in Nat  BY Zenon
<1>3. base \in Nat /\ base >= prev.tip  BY <1>2, MaxFeeBounds, Zenon
<1>4. suggestEIP1559GasFee(b, s, prev, k) = [tip |-> tip, cap |-> cap]  BY Zenon DEF suggestEIP1559GasFee
<1> HIDE DEF coef, base
<1>5. tip \in Nat /\ bumped \in Nat  BY <1>1, <1>2, <1>3, BumpIsNat, Zenon
<1>6. k >= 2 => Outbids(tip, base) /\ Outbids(bumped, prev.cap)  BY <1>1, <1>2, <1>3, BumpOutbids, Zenon
<1> HIDE DEF tip, bumped
<1>7. k >= 2 => Outbids(tip, prev.tip)  BY <1>2, <1>3, <1>5, <1>6, OutbidsLower, Zenon
<1>8. 2 * b + tip \in Nat /\ 2 * b + tip >= tip  BY <1>5
<1>9. cap \in Nat /\ cap >= bumped /\ cap >= 2 * b + tip
  <2> DEFINE least == 2 * b + tip
  <2>1. least \in Nat  BY <1>8, Zenon
  <2> HIDE DEF least
  <2>2. maxFee(least, bumped) \in Nat /\ maxFee(least, bumped) >= least /\ maxFee(least, bumped) >= bumped
    BY <1>5, <2>1, MaxFeeBounds, Zenon
  <2>3. QED  BY <2>2, Zenon DEF least
<1> HIDE DEF cap
<1>10. cap >= tip  BY <1>5, <1>8, <1>9
<1>11. k >= 2 => Outbids(cap, prev.cap)  BY <1>2, <1>5, <1>6, <1>9, RaisedOutbids, Zenon
<1>12. QED  BY <1>4, <1>5, <1>7, <1>9, <1>10, <1>11

\* The floor dominates the attempt it includes.
LEMMA FloorDominates ==
  ASSUME NEW q \in [tip : Nat, cap : Nat], NEW f \in Nat, NEW g \in Nat
  PROVE  LET floor == highestGasFee(q, [tip |-> f, cap |-> g])
         IN  floor \in [tip : Nat, cap : Nat] /\ floor.tip >= q.tip /\ floor.cap >= q.cap
<1>1. maxFee(q.tip, f) \in Nat /\ maxFee(q.tip, f) >= q.tip  BY MaxFeeBounds, Zenon
<1>2. maxFee(q.cap, g) \in Nat /\ maxFee(q.cap, g) >= q.cap  BY MaxFeeBounds, Zenon
<1>3. highestGasFee(q, [tip |-> f, cap |-> g]) = [tip |-> maxFee(q.tip, f), cap |-> maxFee(q.cap, g)]
  BY Zenon DEF highestGasFee
<1>4. QED  BY <1>1, <1>2, <1>3

\* One attempt: types, the cap that covers the tip, and, from the second on, every fee outbid
LEMMA AttemptOutbids ==
  ASSUME TypeOK, signAttempt
  PROVE  /\ TypeOK' /\ pair'.cap >= pair'.tip
         /\ signed > 0 => Outbids(price', price) /\ Outbids(pair'.tip, pair.tip) /\ Outbids(pair'.cap, pair.cap)
<1>1. signed \in Nat /\ signed + 1 \in Nat /\ (signed > 0 => signed + 1 >= 2) /\ signed' \in 0..maxFeeReplacements
  BY FeesAreNaturals DEF TypeOK, signAttempt
<1>2. price' \in Nat /\ (signed > 0 => Outbids(price', price))
  <2>1. PICK s \in Suggested, f \in Floors \cup {0} : price' = suggestGasPrice(s, maxFee(price, f), signed + 1)
    BY Zenon DEF signAttempt
  <2>2. s \in Nat /\ f \in Nat /\ price \in Nat  BY FeesAreNaturals DEF TypeOK
  <2>3. QED  BY <1>1, <2>1, <2>2, PriceOutbids, Zenon
<1>3. PICK s \in Suggested, b \in BaseFees, f \in Floors \cup {0}, g \in Floors \cup {0} :
        pair' = suggestEIP1559GasFee(b, s, highestGasFee(pair, [tip |-> f, cap |-> g]), signed + 1)
  BY Zenon DEF signAttempt
<1> DEFINE floor == highestGasFee(pair, [tip |-> f, cap |-> g])
<1>4. s \in Nat /\ b \in Nat /\ f \in Nat /\ g \in Nat /\ pair \in [tip : Nat, cap : Nat]
  BY FeesAreNaturals DEF TypeOK
<1>5. floor \in [tip : Nat, cap : Nat] /\ floor.tip >= pair.tip /\ floor.cap >= pair.cap
  BY <1>4, FloorDominates, Zenon
<1> HIDE DEF floor
<1>6. /\ pair' \in [tip : Nat, cap : Nat] /\ pair'.cap >= pair'.tip
      /\ signed > 0 => Outbids(pair'.tip, floor.tip) /\ Outbids(pair'.cap, floor.cap)
  BY <1>1, <1>3, <1>4, <1>5, PairOutbids, Zenon DEF floor
<1>7. signed > 0 => Outbids(pair'.tip, pair.tip)  BY <1>4, <1>5, <1>6, OutbidsLower, Zenon
<1>8. signed > 0 => Outbids(pair'.cap, pair.cap)  BY <1>4, <1>5, <1>6, OutbidsLower, Zenon
<1>9. QED  BY <1>1, <1>2, <1>6, <1>7, <1>8, Zenon DEF TypeOK

LEMMA LadderInit == Init => TypeOK /\ CapCoversTip
  BY FeesAreNaturals DEF Init, TypeOK, CapCoversTip

LEMMA LadderStep == TypeOK /\ CapCoversTip /\ [Next]_vars => (TypeOK /\ CapCoversTip)'
<1> SUFFICES ASSUME TypeOK, CapCoversTip, [Next]_vars PROVE (TypeOK /\ CapCoversTip)'  BY Zenon
<1>1. CASE signAttempt  BY <1>1, AttemptOutbids, Zenon DEF CapCoversTip
<1>2. CASE UNCHANGED vars  BY <1>2, Zenon DEF TypeOK, CapCoversTip, vars
<1>3. QED  BY <1>1, <1>2, Zenon DEF Next

\* Fees are naturals and there are no more attempts than maxFeeReplacements
\* (signAttempt).
THEOREM LadderTypeCorrect == Spec => []TypeOK
  BY LadderInit, LadderStep, PTL DEF Spec

\* Every signed EIP-1559 pair has a cap that covers its tip, whatever fees the floor
\* mixes (suggestEIP1559GasFee, highestGasFee).
THEOREM CapAlwaysCoversTip == Spec => []CapCoversTip
  BY LadderInit, LadderStep, PTL DEF Spec

\* Every replacement is one that nodes accept, at any price and for any number of
\* replacements (suggestGasPrice, suggestEIP1559GasFee, bumpGasPrice).
THEOREM ReplacementsOutbid == Spec => ReplacementOutbids
<1> DEFINE Raises ==
      signed > 0 /\ signed' > signed =>
        /\ price' * 10 >= price * 11 /\ (price > 0 => price' > price)
        /\ pair'.tip * 10 >= pair.tip * 11 /\ (pair.tip > 0 => pair'.tip > pair.tip)
        /\ pair'.cap * 10 >= pair.cap * 11 /\ (pair.cap > 0 => pair'.cap > pair.cap)
<1>1. TypeOK /\ [Next]_vars => [Raises]_vars
  <2>1. ASSUME TypeOK, signAttempt PROVE Raises
    BY <2>1, AttemptOutbids, Zenon DEF Outbids
  <2>2. QED  BY <2>1, Zenon DEF Next
<1>2. QED  BY <1>1, LadderInit, LadderStep, PTL DEF Spec, ReplacementOutbids

-----------------------------------------------------------------------------
(* Orders *)


\* Rounding down and up differ from the exact quotient by less than one.
LEMMA DivBounds ==
  ASSUME NEW n \in Nat, NEW d \in Nat \ {0}
  PROVE  /\ n \div d \in Nat
         /\ n - d * (n \div d) \in 0..(d - 1)
         /\ (n + (d - 1)) \div d \in Nat
         /\ d * ((n + (d - 1)) \div d) - n \in 0..(d - 1)
<1>1. \A m \in Nat : m \div d \in Nat /\ m = d * (m \div d) + (m % d) /\ m % d \in 0..(d - 1)
  OBVIOUS
<1>2. n + (d - 1) \in Nat  OBVIOUS
<1> DEFINE q == n \div d
           u == (n + (d - 1)) \div d
<1>3. q \in Nat /\ d * q \in Int /\ n = d * q + (n % d) /\ n % d \in 0..(d - 1)  BY <1>1
<1>4. u \in Nat /\ d * u \in Int /\ n + (d - 1) = d * u + ((n + (d - 1)) % d) /\ (n + (d - 1)) % d \in 0..(d - 1)
  BY <1>1, <1>2
<1> HIDE DEF q, u
<1>5. QED  BY <1>3, <1>4 DEF q, u

\* What NormalizeOrderAmounts signs is never worse for the taker than the price and by
\* less than one unit, for every price and size ("BUY ceiling and SELL floor").
THEOREM RoundingIsAgainstMaker ==
  ASSUME NEW side \in {"buy", "sell"}, NEW p \in Nat, NEW size \in Nat
  PROVE  RoundedAgainstMaker(side, p, size)
<1> DEFINE built == NormalizeOrderAmounts(side, p, size)
           product == p * size
           up == (product + (Scale - 1)) \div Scale
           down == product \div Scale
<1> SUFFICES ASSUME built # Rejected
             PROVE  /\ built.maker \in 1..MaxUint256 /\ built.taker \in 1..MaxUint256
                    /\ side = "buy" => built.taker = size /\ Scale * built.maker - p * size \in 0..(Scale - 1)
                    /\ side = "sell" => built.maker = size /\ p * size - Scale * built.taker \in 0..(Scale - 1)
  BY Zenon DEF RoundedAgainstMaker
<1>1. p # 0 /\ p < Scale /\ size > 0 /\ size <= MaxUint256
  BY GridsMatch DEF NormalizeOrderAmounts
<1>2. product \in Nat /\ product > 0
  BY <1>1
<1>3. side = "buy" => up <= MaxUint256 /\ built = [maker |-> up, taker |-> size]
  BY <1>1, GridsMatch DEF NormalizeOrderAmounts
<1>4. side = "sell" => down > 0 /\ down <= MaxUint256 /\ built = [maker |-> size, taker |-> down]
  BY <1>1, GridsMatch DEF NormalizeOrderAmounts
<1> HIDE DEF built, product
<1>5. /\ down \in Nat /\ product - Scale * down \in 0..(Scale - 1)
      /\ up \in Nat /\ Scale * up - product \in 0..(Scale - 1)
  BY <1>2, DivBounds, GridsMatch, Zenon
<1>6. up > 0
  <2>1. up = 0 => Scale * up - product < 0  BY <1>2, GridsMatch
  <2>2. QED  BY <1>5, <2>1, GridsMatch
<1> HIDE DEF up, down
<1>7. CASE side = "buy"  BY <1>1, <1>3, <1>5, <1>6, <1>7, GridsMatch DEF product
<1>8. CASE side = "sell"  BY <1>1, <1>4, <1>5, <1>8, GridsMatch DEF product
<1>9. QED  BY <1>7, <1>8, Zenon

\* A multiple within less than one unit of another is that other.
LEMMA CloseMultiplesAgree ==
  ASSUME NEW d \in Nat \ {0}, NEW k \in Nat, NEW m \in Nat,
         d * k - d * m \in 0..(d - 1) \/ d * m - d * k \in 0..(d - 1)
  PROVE  k = m
<1>1. k > m => d * k - d * m >= d
  <2> SUFFICES ASSUME k > m PROVE d * k - d * m >= d  BY Zenon
  <2>1. k - m \in Nat /\ k - m >= 1  OBVIOUS
  <2>2. d * (k - m) >= d  BY <2>1
  <2>3. QED  BY <2>2
<1>2. m > k => d * m - d * k >= d
  <2> SUFFICES ASSUME m > k PROVE d * m - d * k >= d  BY Zenon
  <2>1. m - k \in Nat /\ m - k >= 1  OBVIOUS
  <2>2. d * (m - k) >= d  BY <2>1
  <2>3. QED  BY <2>2
<1>3. k > m => d * m - d * k < 0  BY <1>1
<1>4. m > k => d * k - d * m < 0  BY <1>2
<1>5. QED  BY <1>1, <1>2, <1>3, <1>4

\* A price and a size on their grids make a whole amount.
LEMMA GridProductIsWhole ==
  ASSUME NEW p \in Nat, NEW size \in Nat, NEW tick \in TickSizes, OnGrid(p, size, tick)
  PROVE  \E k \in Nat : p * size = Scale * k
<1>1. \A n \in Nat, d \in Nat \ {0} : n % d = 0 => \E q \in Nat : n = d * q
  <2> SUFFICES ASSUME NEW n \in Nat, NEW d \in Nat \ {0}, n % d = 0 PROVE \E q \in Nat : n = d * q  BY Zenon
  <2>1. n \div d \in Nat /\ n = d * (n \div d) + (n % d)  OBVIOUS
  <2>2. n = d * (n \div d)
    <3> DEFINE q == n \div d
    <3>1. q \in Nat /\ d * q \in Int /\ n = d * q + 0  BY <2>1
    <3> HIDE DEF q
    <3>2. n = d * q  BY <3>1
    <3>3. QED  BY <3>2, Zenon DEF q
  <2>3. WITNESS n \div d \in Nat
  <2>4. QED  BY <2>2, Zenon
<1>2. tick \in Nat \ {0}  BY GridsMatch, Zenon
<1>3. PICK a \in Nat : p = tick * a  BY <1>1, <1>2, Zenon DEF OnGrid
<1>4. PICK b \in Nat : size = SizeGrid * b  BY <1>1, GridsMatch, Zenon DEF OnGrid
<1>5. PICK c \in Nat : SizeGrid * tick = Scale * c
  <2>1. SizeGrid * tick \in Nat  BY <1>2, GridsMatch
  <2>2. QED  BY <1>1, <2>1, GridsMatch, Zenon
<1>6. p * size = Scale * (c * (a * b))
  <2>1. p * size = (tick * a) * (SizeGrid * b)  BY <1>3, <1>4, Zenon
  <2>2. (tick * a) * (SizeGrid * b) = (SizeGrid * tick) * (a * b)  BY <1>2, GridsMatch
  <2>3. (Scale * c) * (a * b) = Scale * (c * (a * b))  BY GridsMatch
  <2>4. QED  BY <1>5, <2>1, <2>2, <2>3, Zenon
<1>7. c * (a * b) \in Nat  OBVIOUS
<1>8. QED  BY <1>6, <1>7, Zenon

\* An order that BuildOrder accepts has exactly the price asked for, for every grid that
\* satisfies GridsMatch (BuildOrder checks the grids before it normalises).
THEOREM OrdersHaveExactPrice ==
  ASSUME NEW side \in {"buy", "sell"}, NEW p \in Nat, NEW size \in Nat, NEW tick \in Nat
  PROVE  AmountsAreExact(side, p, size, tick)
<1> DEFINE built == BuildOrder(side, p, size, tick)
<1> SUFFICES ASSUME built # Rejected
             PROVE  /\ side = "buy" => Scale * built.maker = p * built.taker
                    /\ side = "sell" => Scale * built.taker = p * built.maker
  BY Zenon DEF AmountsAreExact
<1>1. OnGrid(p, size, tick) /\ built = NormalizeOrderAmounts(side, p, size)
  BY Zenon DEF BuildOrder
<1> HIDE DEF built
<1>2. /\ built.maker \in Nat /\ built.taker \in Nat
      /\ side = "buy" => built.taker = size /\ Scale * built.maker - p * size \in 0..(Scale - 1)
      /\ side = "sell" => built.maker = size /\ p * size - Scale * built.taker \in 0..(Scale - 1)
  BY <1>1, RoundingIsAgainstMaker, GridsMatch DEF RoundedAgainstMaker
<1>3. PICK k \in Nat : p * size = Scale * k  BY <1>1, GridProductIsWhole, Zenon DEF OnGrid
<1>4. CASE side = "buy"
  <2>1. Scale * built.maker - Scale * k \in 0..(Scale - 1)  BY <1>2, <1>3, <1>4, Zenon
  <2>2. built.maker = k  BY <1>2, <2>1, CloseMultiplesAgree, GridsMatch, Zenon
  <2>3. QED  BY <1>2, <1>3, <1>4, <2>2, Zenon
<1>5. CASE side = "sell"
  <2>1. Scale * k - Scale * built.taker \in 0..(Scale - 1)  BY <1>2, <1>3, <1>5, Zenon
  <2>2. built.taker = k  BY <1>2, <2>1, CloseMultiplesAgree, GridsMatch, Zenon
  <2>3. QED  BY <1>2, <1>3, <1>5, <2>2, Zenon
<1>6. QED  BY <1>4, <1>5, Zenon

-----------------------------------------------------------------------------
(* The composition: what is tried is an order or a transfer of the inputs *)

\* What the pure functions are applied to
InputsInv ==
  /\ order = NoOrder \/ order \in Orders
  /\ transfer = NoTransfer \/ transfer \in Transfers

LEMMA InputsInvHolds == AlgorithmsSpec => []InputsInv
<1>1. AlgorithmsInit => InputsInv  BY Zenon DEF AlgorithmsInit, InputsInv
<1>2. ASSUME InputsInv, [AlgorithmsNext]_allVars PROVE InputsInv'
  BY <1>2, Zenon DEF InputsInv, AlgorithmsNext, RaiseFees, SelectEvidence, TryOrder, TryTransfer, AddToError,
              allVars, inputs, Orders, Transfers, NoOrder, NoTransfer
<1>3. QED  BY <1>1, <1>2, PTL DEF AlgorithmsSpec

\* An order that BuildOrder accepts for one of the inputs has exactly the price asked
\* for, and NormalizeOrderAmounts rounds against the maker by less than one unit, for any
\* prices, sizes, scale and grids.
THEOREM EveryOrderIsExact == AlgorithmsSpec => []OrdersAreExact
<1>1. InputsInv => OrdersAreExact
  <2> SUFFICES ASSUME order \in Orders
               PROVE  /\ AmountsAreExact(order.side, order.price, order.size, order.tick)
                      /\ RoundedAgainstMaker(order.side, order.price, order.size)
    BY Zenon DEF InputsInv, OrdersAreExact
  <2>1. /\ order.side \in {"buy", "sell"} /\ order.price \in Nat /\ order.size \in Nat
        /\ order.tick \in Nat
    BY AmountsAreNaturals, GridsMatch, Zenon DEF Orders
  <2>2. QED  BY <2>1, OrdersHaveExactPrice, RoundingIsAgainstMaker, Zenon
<1>2. QED  BY <1>1, InputsInvHolds, PTL

-----------------------------------------------------------------------------
(* Transfers *)

\* Dividing a multiple gives it back; quotient and remainder make up what is divided.
LEMMA QuotientAndRest ==
  ASSUME NEW n \in Nat, NEW d \in Nat \ {0}
  PROVE  /\ n \div d \in Nat /\ n % d \in 0..(d - 1) /\ (n \div d) * d = n - (n % d)
         /\ (n * d) \div d = n /\ (n * d) % d = 0
<1>1. \A m \in Nat : m \div d \in Nat /\ m % d \in 0..(d - 1) /\ m = d * (m \div d) + (m % d)  OBVIOUS
<1>2. (n \div d) * d = n - (n % d)
  <2> DEFINE q == n \div d
             r == n % d
  <2>1. q \in Nat /\ r \in Nat /\ n = d * q + r  BY <1>1
  <2> HIDE DEF q, r
  <2>2. q * d = n - r
    <3>1. q * d = d * q /\ d * q \in Int  BY <2>1
    <3>2. QED  BY <2>1, <3>1
  <2>3. QED  BY <2>2, Zenon DEF q, r
<1>3. (n * d) \div d = n /\ (n * d) % d = 0
  <2> DEFINE m == n * d
             q == m \div d
             r == m % d
  <2>1. m \in Nat  OBVIOUS
  <2>2. q \in Nat /\ r \in 0..(d - 1) /\ m = d * q + r  BY <1>1, <2>1, Zenon
  <2>3. d * n = d * q + r  BY <2>2
  <2> HIDE DEF m, q, r
  <2>4. d * n \in Int /\ d * q \in Int /\ d * n - d * q = r  BY <2>2, <2>3
  <2>5. q = n  BY <2>2, <2>4, CloseMultiplesAgree, Zenon
  <2>6. r = 0  BY <2>2, <2>4, <2>5
  <2>7. QED  BY <2>5, <2>6, Zenon DEF m, q, r
<1>4. QED  BY <1>1, <1>2, <1>3, Zenon

\* Induction over a set of numbers, by its least missing element.
LEMMA ClosedSetIsNat ==
  ASSUME NEW S, 0 \in S, \A n \in Nat : n \in S => n + 1 \in S
  PROVE  \A n \in Nat : n \in S
<1> DEFINE T == Nat \ S
<1>1. SUFFICES ASSUME T # {} PROVE FALSE
  BY Zenon
<1>2. \A i, j \in Nat : i < j => <<i, j>> \in OpToRel(<, Nat)
  BY Zenon DEF OpToRel
<1>3. PICK x \in T : \A y \in T : ~(<<y, x>> \in OpToRel(<, Nat))
  <2>1. T \subseteq Nat
    BY Zenon
  <2> QED BY <1>1, <2>1, NatLessThanWellFounded, WFMin, Zenon
<1>4. x \in Nat /\ x # 0 /\ x \notin S
  BY <1>3, Zenon
<1>5. x - 1 \in Nat /\ x - 1 < x /\ (x - 1) + 1 = x
  BY <1>4
<1>6. x - 1 \notin T
  BY <1>2, <1>3, <1>4, <1>5, Zenon
<1> QED BY <1>4, <1>5, <1>6, Zenon

\* The powers up to the n-th, as a table.
IsPowers(f, n) == f \in [0..n -> Nat \ {0}] /\ f[0] = 1 /\ \A i \in 1..n : f[i] = 10 * f[i - 1]

\* Every such table exists.
LEMMA PowersExist == \A n \in Nat : \E f \in [0..n -> Nat \ {0}] : IsPowers(f, n)
<1> DEFINE S == {n \in Nat : \E f \in [0..n -> Nat \ {0}] : IsPowers(f, n)}
<1>1. 0 \in S
  <2> DEFINE f == [i \in 0..0 |-> 1]
  <2>1. f \in [0..0 -> Nat \ {0}] /\ IsPowers(f, 0)
    BY DEF IsPowers
  <2> QED BY <2>1
<1>2. ASSUME NEW n \in Nat, n \in S PROVE n + 1 \in S
  <2>1. PICK f \in [0..n -> Nat \ {0}] : IsPowers(f, n)
    BY <1>2, Zenon
  <2> DEFINE g == [i \in 0..(n + 1) |-> IF i \in 0..n THEN f[i] ELSE 10 * f[n]]
  <2>2. 10 * f[n] \in Nat \ {0}
    BY <2>1
  <2>3. g \in [0..(n + 1) -> Nat \ {0}]
    BY <2>1, <2>2
  <2>4. g[0] = 1
    BY <2>1 DEF IsPowers
  <2>5. ASSUME NEW i \in 1..(n + 1) PROVE g[i] = 10 * g[i - 1]
    BY <2>1 DEF IsPowers
  <2> HIDE DEF g
  <2>6. IsPowers(g, n + 1) /\ n + 1 \in Nat
    BY <2>3, <2>4, <2>5 DEF IsPowers
  <2> QED BY <2>3, <2>6, Zenon
<1> HIDE DEF S
<1>3. \A n \in Nat : n \in S
  BY <1>1, <1>2, ClosedSetIsNat, Zenon
<1> QED BY <1>3, Zenon DEF S

\* Two of them agree on what both hold.
LEMMA TablesAgree ==
  ASSUME NEW n \in Nat, NEW k \in Nat, NEW f, IsPowers(f, n), NEW g, IsPowers(g, k)
  PROVE  \A i \in Nat : i <= n /\ i <= k => f[i] = g[i]
<1> DEFINE S == {i \in Nat : i <= n /\ i <= k => f[i] = g[i]}
<1>1. 0 \in S
  BY DEF IsPowers
<1>2. ASSUME NEW i \in Nat, i \in S PROVE i + 1 \in S
  <2> SUFFICES ASSUME i + 1 <= n, i + 1 <= k PROVE f[i + 1] = g[i + 1]
    OBVIOUS
  <2>1. i + 1 \in 1..n /\ i + 1 \in 1..k /\ (i + 1) - 1 = i
    OBVIOUS
  <2>2. f[i] = g[i]
    BY <1>2
  <2> QED BY <2>1, <2>2 DEF IsPowers
<1> HIDE DEF S
<1>3. \A i \in Nat : i \in S
  BY <1>1, <1>2, ClosedSetIsNat, Zenon
<1> QED BY <1>3, Zenon DEF S

\* units.Pow10 is what its recursion says, for every exponent, and so never zero.
LEMMA PowersArePositive == \A n \in Nat : Pow10[n] \in Nat \ {0}
<1> DEFINE table(n) == CHOOSE f \in [0..n -> Nat \ {0}] : IsPowers(f, n)
           h == [n \in Nat |-> table(n)[n]]
<1>1. \A n \in Nat : IsPowers(table(n), n)
  BY PowersExist, Zenon
<1> HIDE DEF table
<1>2. \A n \in Nat : h[n] \in Nat \ {0}
  BY <1>1 DEF IsPowers
<1>3. ASSUME NEW n \in Nat PROVE h[n] = IF n = 0 THEN 1 ELSE 10 * h[n - 1]
  <2>1. CASE n = 0
    BY <1>1, <2>1 DEF IsPowers
  <2>2. CASE n # 0
    <3>1. n - 1 \in Nat /\ n - 1 <= n /\ n - 1 <= n - 1 /\ n \in 1..n
      BY <2>2
    <3>2. table(n)[n] = 10 * table(n)[n - 1]
      BY <1>1, <3>1, Zenon DEF IsPowers
    <3>3. table(n)[n - 1] = table(n - 1)[n - 1]
      <4>1. IsPowers(table(n), n) /\ IsPowers(table(n - 1), n - 1)
        BY <1>1, <3>1, Zenon
      <4>2. \A i \in Nat : i <= n /\ i <= n - 1 => table(n)[i] = table(n - 1)[i]
        <5>1. \A f, g : IsPowers(f, n) /\ IsPowers(g, n - 1) => \A i \in Nat : i <= n /\ i <= n - 1 => f[i] = g[i]
          BY <3>1, TablesAgree
        <5> QED BY <4>1, <5>1
      <4> QED BY <3>1, <4>2, Zenon
    <3>4. h[n] = table(n)[n] /\ h[n - 1] = table(n - 1)[n - 1]
      BY <3>1, Zenon
    <3> QED BY <2>2, <3>2, <3>3, <3>4, Zenon
  <2> QED BY <2>1, <2>2, Zenon
<1>4. h = [n \in Nat |-> IF n = 0 THEN 1 ELSE 10 * h[n - 1]]
  <2>1. h = [n \in Nat |-> h[n]]
    BY Zenon
  <2> HIDE DEF h
  <2>2. [n \in Nat |-> h[n]] = [n \in Nat |-> IF n = 0 THEN 1 ELSE 10 * h[n - 1]]
    BY <1>3
  <2> QED BY <2>1, <2>2, Zenon
<1>5. Pow10 = [n \in Nat |-> IF n = 0 THEN 1 ELSE 10 * Pow10[n - 1]]
  <2> HIDE DEF h
  <2> QED BY <1>4, Zenon DEF Pow10
<1>6. \A n \in Nat : Pow10[n] = IF n = 0 THEN 1 ELSE 10 * Pow10[n - 1]
  BY <1>5, Zenon
<1> DEFINE S == {n \in Nat : Pow10[n] \in Nat \ {0}}
<1>7. 0 \in S
  BY <1>6
<1>8. ASSUME NEW n \in Nat, n \in S PROVE n + 1 \in S
  <2>1. n + 1 \in Nat /\ n + 1 # 0 /\ (n + 1) - 1 = n
    OBVIOUS
  <2>2. Pow10[n + 1] = 10 * Pow10[n]
    BY <1>6, <2>1
  <2>3. Pow10[n] \in Nat \ {0}
    BY <1>8
  <2> QED BY <2>1, <2>2, <2>3
<1> HIDE DEF S
<1>9. \A n \in Nat : n \in S
  BY <1>7, <1>8, ClosedSetIsNat, Zenon
<1> QED BY <1>9, Zenon DEF S

\* What is converted there and back, with the remainder, is what was converted, for any
\* amount, any bound and any number of decimals (EvmToCoreWei, CoreWeiToEvm and their
\* floors).
THEOREM ScalingIsExact ==
  ASSUME NEW amount \in Int, NEW extra \in Int
  PROVE  DustIsAccountedFor(amount, extra)
<1> DEFINE there == EvmToCoreWei(amount, extra)
           floor == EvmToCoreWeiFloor(amount, extra)
           out == CoreWeiToEvmFloor(amount, extra)
           back == EvmToCoreWeiFloor(out.amount, extra)
<1> SUFFICES /\ there.ok => CoreWeiToEvm(there.amount, extra) = Converted(amount, 0)
             /\ floor.ok => CoreWeiToEvm(floor.amount, extra) = Converted(amount - floor.rest, 0)
             /\ amount \in 0..MaxCoreWei => back = Converted(amount - out.rest, 0)
  BY Zenon DEF DustIsAccountedFor
<1>1. CASE extra >= 0
  <2> DEFINE d == Pow10[extra]
             q == amount \div d
             r == amount % d
  <2>1. d \in Nat \ {0}  BY <1>1, PowersArePositive
  <2>2. amount >= 0 => q \in Nat /\ r \in 0..(d - 1) /\ q * d = amount - r
                       /\ (amount * d) \div d = amount /\ (amount * d) % d = 0
    <3> HIDE DEF d
    <3>1. amount >= 0 => amount \in Nat  OBVIOUS
    <3>2. QED  BY <2>1, <3>1, QuotientAndRest, Zenon
  <2>3. floor = IF amount < 0 \/ q > MaxCoreWei THEN Refused ELSE Converted(q, r)
    BY <1>1, Zenon DEF EvmToCoreWeiFloor, evmToCoreWei
  <2>4. there = Exactly(floor)  BY Zenon DEF EvmToCoreWei, EvmToCoreWeiFloor
  <2>5. \A c : CoreWeiToEvm(c, extra) = Converted(c * d, 0)
    BY <1>1, Zenon DEF CoreWeiToEvm, coreWeiToEvm, Exactly, Converted
  <2>6. out = Converted(amount * d, 0)  BY <1>1, Zenon DEF CoreWeiToEvmFloor, coreWeiToEvm
  <2>7. back = IF amount * d < 0 \/ (amount * d) \div d > MaxCoreWei THEN Refused
               ELSE Converted((amount * d) \div d, (amount * d) % d)
    BY <1>1, <2>6 DEF EvmToCoreWeiFloor, evmToCoreWei, Converted
  <2>8. amount >= 0 => amount * d >= 0  BY <2>1
  <2> HIDE DEF there, floor, out, back, d
  <2>9. floor.ok => amount >= 0 /\ floor = Converted(q, r)  BY <2>3 DEF Refused, Converted
  <2>10. floor.ok => CoreWeiToEvm(floor.amount, extra) = Converted(amount - floor.rest, 0)
    BY <2>2, <2>5, <2>9 DEF Converted
  <2>11. there.ok => floor.ok /\ floor.rest = 0 /\ there = floor  BY <2>4, Zenon DEF Exactly, Refused
  <2>12. there.ok => CoreWeiToEvm(there.amount, extra) = Converted(amount, 0)
    BY <2>10, <2>11
  <2>13. amount \in 0..MaxCoreWei => back = Converted(amount - out.rest, 0)
    <3> SUFFICES ASSUME amount \in 0..MaxCoreWei PROVE back = Converted(amount - out.rest, 0)  BY Zenon
    <3>1. amount >= 0 /\ amount <= MaxCoreWei  BY CoreWeiIsBounded
    <3>2. ~(amount * d < 0) /\ ~((amount * d) \div d > MaxCoreWei)  BY <2>1, <2>2, <2>8, <3>1,
             CoreWeiIsBounded
    <3>3. back = Converted(amount, 0)  BY <2>2, <2>7, <3>1, <3>2, Zenon
    <3>4. out.rest = 0  BY <2>6, Zenon DEF Converted
    <3>5. QED  BY <3>3, <3>4
  <2>14. QED  BY <2>10, <2>12, <2>13, Zenon
<1>2. CASE ~(extra >= 0)
  <2> DEFINE d == Pow10[-extra]
             q == amount \div d
             r == amount % d
  <2>1. d \in Nat \ {0}  BY <1>2, PowersArePositive
  <2>2. amount >= 0 => q \in Nat /\ r \in 0..(d - 1) /\ q * d = amount - r
                       /\ (amount * d) \div d = amount /\ (amount * d) % d = 0
    <3> HIDE DEF d
    <3>1. amount >= 0 => amount \in Nat  OBVIOUS
    <3>2. QED  BY <2>1, <3>1, QuotientAndRest, Zenon
  <2>3. floor = IF amount < 0 \/ amount * d > MaxCoreWei THEN Refused ELSE Converted(amount * d, 0)
    BY <1>2, Zenon DEF EvmToCoreWeiFloor, evmToCoreWei
  <2>4. there = Exactly(floor)  BY Zenon DEF EvmToCoreWei, EvmToCoreWeiFloor
  <2>5. \A c : CoreWeiToEvm(c, extra) = Exactly(Converted(c \div d, c % d))
    BY <1>2, Zenon DEF CoreWeiToEvm, coreWeiToEvm
  <2>6. out = Converted(q, r)  BY <1>2, Zenon DEF CoreWeiToEvmFloor, coreWeiToEvm
  <2>7. back = IF q < 0 \/ q * d > MaxCoreWei THEN Refused ELSE Converted(q * d, 0)
    BY <1>2, <2>6 DEF EvmToCoreWeiFloor, evmToCoreWei, Converted
  <2> HIDE DEF there, floor, out, back, d
  <2>8. floor.ok => amount >= 0 /\ floor = Converted(amount * d, 0)  BY <2>3 DEF Refused, Converted
  <2>9. floor.ok => CoreWeiToEvm(floor.amount, extra) = Converted(amount - floor.rest, 0)
    BY <2>2, <2>5, <2>8 DEF Converted, Exactly
  <2>10. there.ok => floor.ok /\ floor.rest = 0 /\ there = floor  BY <2>4, Zenon DEF Exactly, Refused
  <2>11. there.ok => CoreWeiToEvm(there.amount, extra) = Converted(amount, 0)
    BY <2>9, <2>10
  <2>12. amount \in 0..MaxCoreWei => back = Converted(amount - out.rest, 0)
    <3> SUFFICES ASSUME amount \in 0..MaxCoreWei PROVE back = Converted(amount - out.rest, 0)  BY Zenon
    <3>1. amount >= 0 /\ amount <= MaxCoreWei  BY CoreWeiIsBounded
    <3>2. q \in Nat /\ r \in Nat /\ q * d = amount - r  BY <2>1, <2>2, <3>1
    <3> HIDE DEF q, r
    <3>3. ~(q < 0) /\ ~(q * d > MaxCoreWei)  BY <3>1, <3>2, CoreWeiIsBounded
    <3>4. back = Converted(amount - r, 0)  BY <2>7, <3>2, <3>3, Zenon
    <3>5. out.rest = r  BY <2>6, Zenon DEF Converted
    <3>6. QED  BY <3>4, <3>5, Zenon
  <2>13. QED  BY <2>9, <2>11, <2>12, Zenon
<1>3. QED  BY <1>1, <1>2, Zenon

\* Nothing is lost in the transfers that are tried: any amounts, two decimals more or fewer.
THEOREM EveryTransferIsWhole == AlgorithmsSpec => []TransfersAreWhole
<1>1. InputsInv => TransfersAreWhole
  <2> SUFFICES ASSUME transfer.amount \in Int, transfer.extra \in -2..2
               PROVE  DustIsAccountedFor(transfer.amount, transfer.extra)
    <3>1. transfer = NoTransfer => transfer.amount \in Int /\ transfer.extra \in -2..2
      BY DEF NoTransfer
    <3>2. transfer \in Transfers => transfer.amount \in Int /\ transfer.extra \in -2..2
      <4> SUFFICES ASSUME transfer \in Transfers PROVE transfer.amount \in Int /\ transfer.extra \in -2..2
        BY Zenon
      <4>1. transfer.amount \in Sizes \union {-1} /\ transfer.extra \in -2..2  BY Zenon DEF Transfers
      <4>2. \A n \in Sizes \union {-1} : n \in Int  BY AmountsAreNaturals
      <4>3. QED  BY <4>1, <4>2, Zenon
    <3>3. QED  BY <3>1, <3>2, Zenon DEF InputsInv, TransfersAreWhole
  <2>1. QED  BY ScalingIsExact
<1>2. QED  BY <1>1, InputsInvHolds, PTL

-----------------------------------------------------------------------------
(* Errors *)

\* A rejection for good is a node's answer that nothing in its text contradicts, whatever
\* the code and the text (classifyBroadcastError).
THEOREM RejectionStandsAlone ==
  ASSUME NEW c, NEW t
  PROVE  RejectionIsUncontradicted(c, t)
<1> SUFFICES ASSUME classifyBroadcastError(c, t) = "rejectedPermanent"
             PROVE  /\ c # NoResponse
                    /\ \A part \in SUBSET t :
                         classifyBroadcastError(c, part) \in {"ambiguous", "rejectedPermanent"}
                           \union (IF "unknown transaction" \in t \ part THEN {"alreadyKnown"} ELSE {})
  BY Zenon DEF RejectionIsUncontradicted
<1>1. isPermanentTransactionRejectionError(c, t)
  BY Zenon DEF classifyBroadcastError
<1>2. /\ ~isAlreadyKnownError(c, t) /\ ~isNonceTooLowError(c, t) /\ ~isFeePolicyRejectionError(c, t)
      /\ ~isRetryableTransactionRejectionError(c, t) /\ c # NoResponse
  BY <1>1, Zenon DEF isPermanentTransactionRejectionError
<1>3. ASSUME NEW part \in SUBSET t
      PROVE  classifyBroadcastError(c, part) \in {"ambiguous", "rejectedPermanent"}
               \union (IF "unknown transaction" \in t \ part THEN {"alreadyKnown"} ELSE {})
  <2>1. ~isNonceTooLowError(c, part)  BY <1>2, <1>3, Zenon DEF isNonceTooLowError
  <2>2. ~isFeePolicyRejectionError(c, part)  BY <1>2, <1>3, Zenon DEF isFeePolicyRejectionError
  <2>3. ~isRetryableTransactionRejectionError(c, part)
    BY <1>2, <1>3, Zenon DEF isRetryableTransactionRejectionError
  <2>4. isAlreadyKnownError(c, part) => "unknown transaction" \in t \ part
    BY <1>2, <1>3, Zenon DEF isAlreadyKnownError
  <2>5. QED  BY <2>1, <2>2, <2>3, <2>4, Zenon DEF classifyBroadcastError
<1>4. QED  BY <1>2, <1>3, Zenon

\* The same of every error that is tried.
THEOREM EveryRejectionStandsAlone == AlgorithmsSpec => []RejectionsAreUncontradicted
<1>1. RejectionsAreUncontradicted  BY RejectionStandsAlone, Zenon DEF RejectionsAreUncontradicted
<1>2. QED  BY <1>1, PTL

-----------------------------------------------------------------------------
(* Evidence: one element more *)

LEMMA Appended ==
  ASSUME NEW S, NEW s \in Seq(S), NEW x \in S
  PROVE  /\ Append(s, x) \in Seq(S) /\ Len(s) \in Nat
         /\ DOMAIN s = 1..Len(s) /\ Len(Append(s, x)) = Len(s) + 1
         /\ DOMAIN Append(s, x) = DOMAIN s \union {Len(s) + 1} /\ Len(s) + 1 \notin DOMAIN s
         /\ \A i \in DOMAIN s : Append(s, x)[i] = s[i]
         /\ Append(s, x)[Len(s) + 1] = x
         /\ Range(Append(s, x)) = Range(s) \union {x}
<1>1. /\ Append(s, x) \in Seq(S) /\ Len(s) \in Nat
      /\ DOMAIN s = 1..Len(s) /\ Len(Append(s, x)) = Len(s) + 1
      /\ DOMAIN Append(s, x) = 1..(Len(s) + 1)
      /\ \A i \in DOMAIN s : Append(s, x)[i] = s[i]
      /\ Append(s, x)[Len(s) + 1] = x
  OBVIOUS
<1>2. DOMAIN Append(s, x) = DOMAIN s \union {Len(s) + 1} /\ Len(s) + 1 \notin DOMAIN s
  BY <1>1
<1>3. Range(Append(s, x)) = Range(s) \union {x}
  BY <1>1, <1>2 DEF Range
<1>4. QED  BY <1>1, <1>2, <1>3, Zenon

-----------------------------------------------------------------------------
(* latestInstantFact, latestDurationFact *)

InstantsOf(F) == {f \in F : f.start = NoDay /\ f.valid}
DurationsOf(F) == {f \in F : f.start # NoDay /\ f.valid}
LastOf(F) == {f \in DurationsOf(F) : \A g \in DurationsOf(F) : g.end <= f.end}

InstantIsLatest(F, best) ==
  IF InstantsOf(F) = {} THEN best = NoFact
  ELSE best \in InstantsOf(F) /\ \A f \in InstantsOf(F) : ~After(f, best)

DurationIsLast(F, best) == IF DurationsOf(F) = {} THEN best = NoFact ELSE best \in LastOf(F)

DurationIsShortest(F, best) ==
  (\A f \in LastOf(F) : factDurationDays(f) > 0) =>
     \A f \in LastOf(F) :
        \/ factDurationDays(f) > factDurationDays(best)
        \/ factDurationDays(f) = factDurationDays(best) /\ f.filed <= best.filed

LEMMA FactShape ==
  ASSUME NEW f \in Facts
  PROVE  /\ f.start \in Int /\ f.end \in Nat \ {0} /\ f.filed \in Nat
         /\ f.start # NoDay => factDurationDays(f) \in Nat
<1>1. /\ f.start \in FactDays \union {NoDay, Unparsed}
      /\ f.end \in FactDays /\ f.filed \in Filings
  BY Zenon DEF Facts
<1>2. f.start \in Nat \union {NoDay} /\ f.end \in Nat \ {0} /\ f.filed \in Nat
  <2>1. FactDays \subseteq Nat \ {0} /\ Filings \subseteq Nat  BY EvidenceConstants, Zenon
  <2>2. f.end \in Nat \ {0} /\ f.filed \in Nat  BY <1>1, <2>1, Zenon
  <2>3. f.start \in FactDays => f.start \in Nat  BY <2>1, Zenon
  <2>4. QED  BY <1>1, <2>2, <2>3 DEF Unparsed
<1>3. f.start \in Int  BY <1>2 DEF NoDay
<1>4. f.start \in Nat => factDurationDays(f) \in Nat  BY <1>2 DEF factDurationDays
<1>5. QED  BY <1>2, <1>3, <1>4, Zenon

\* No fact that is valid is the absent one.
LEMMA ValidIsFact == ASSUME NEW f, f.valid PROVE f # NoFact
  BY DEF NoFact

\* A fact that does not come after the latest leaves it; one that does replaces it.
LEMMA InstantStep ==
  ASSUME NEW F \in SUBSET Facts, NEW best, InstantIsLatest(F, best), NEW f \in Facts
  PROVE  InstantIsLatest(F \union {f},
           IF f.start = NoDay /\ f.valid /\ (best = NoFact \/ After(f, best)) THEN f ELSE best)
<1>1. CASE ~(f.start = NoDay /\ f.valid)
  <2>1. InstantsOf(F \union {f}) = InstantsOf(F)  BY <1>1, Zenon DEF InstantsOf
  <2>2. QED  BY <1>1, <2>1, Zenon DEF InstantIsLatest
<1>2. CASE f.start = NoDay /\ f.valid
  <2>1. InstantsOf(F \union {f}) = InstantsOf(F) \union {f}  BY <1>2, Zenon DEF InstantsOf
  <2>2. f.end \in Nat /\ f.filed \in Nat  BY FactShape, Zenon
  <2>3. \A g \in InstantsOf(F) : g.end \in Nat /\ g.filed \in Nat /\ g.valid
    BY FactShape, Zenon DEF InstantsOf
  <2>4. CASE InstantsOf(F) = {}
    <3>1. best = NoFact  BY <2>4, Zenon DEF InstantIsLatest
    <3>2. ~After(f, f)  BY <2>2 DEF After
    <3>3. QED  BY <1>2, <2>1, <2>4, <3>1, <3>2, Zenon DEF InstantIsLatest
  <2>5. CASE InstantsOf(F) # {}
    <3>1. best \in InstantsOf(F) /\ \A g \in InstantsOf(F) : ~After(g, best)
      BY <2>5, Zenon DEF InstantIsLatest
    <3>2. best # NoFact  BY <2>3, <3>1, ValidIsFact, Zenon
    <3>3. CASE After(f, best)
      <4>1. \A g \in InstantsOf(F) \union {f} : ~After(g, f)
        BY <2>2, <2>3, <3>1, <3>3 DEF After
      <4>2. QED  BY <1>2, <2>1, <3>3, <4>1, Zenon DEF InstantIsLatest
    <3>4. CASE ~After(f, best)
      BY <2>1, <3>1, <3>2, <3>4, Zenon DEF InstantIsLatest
    <3>5. QED  BY <3>3, <3>4, Zenon
  <2>6. QED  BY <2>4, <2>5, Zenon
<1>3. QED  BY <1>1, <1>2, Zenon

\* The same of the duration that ends last. Its comparison is not transitive if a start
\* does not parse, so that it is shortest is kept only while all of them do.
LEMMA DurationStep ==
  ASSUME NEW F \in SUBSET Facts, NEW best, NEW f \in Facts,
         DurationIsLast(F, best), DurationIsShortest(F, best)
  PROVE  LET next == IF f.start # NoDay /\ f.valid /\ (best = NoFact \/ betterDurationFact(f, best))
                     THEN f ELSE best
         IN  DurationIsLast(F \union {f}, next) /\ DurationIsShortest(F \union {f}, next)
<1> DEFINE next == IF f.start # NoDay /\ f.valid /\ (best = NoFact \/ betterDurationFact(f, best))
                   THEN f ELSE best
           D == DurationsOf(F)
           G == F \union {f}
<1> SUFFICES DurationIsLast(G, next) /\ DurationIsShortest(G, next)  BY Zenon
<1>1. CASE ~(f.start # NoDay /\ f.valid)
  <2>1. DurationsOf(G) = D  BY <1>1, Zenon DEF DurationsOf
  <2>2. LastOf(G) = LastOf(F)  BY <2>1, Zenon DEF LastOf
  <2>3. next = best  BY <1>1, Zenon
  <2>4. QED  BY <2>1, <2>2, <2>3 DEF DurationIsLast, DurationIsShortest
<1>2. CASE f.start # NoDay /\ f.valid
  <2>1. DurationsOf(G) = D \union {f}  BY <1>2, Zenon DEF DurationsOf
  <2>2. \A g \in D \union {f} : /\ g.end \in Nat /\ g.filed \in Nat /\ g.valid
                               /\ factDurationDays(g) \in Nat
    BY <1>2, FactShape, Zenon DEF DurationsOf
  <2> HIDE DEF G
  <2>3. CASE D = {}
    <3>1. next = f  BY <1>2, <2>3, Zenon DEF DurationIsLast
    <3>2. LastOf(G) = {f}  BY <2>1, <2>2, <2>3 DEF LastOf
    <3>3. DurationsOf(G) # {}  BY <2>1, Zenon
    <3> HIDE DEF next
    <3>4. QED  BY <2>2, <3>1, <3>2, <3>3 DEF DurationIsLast, DurationIsShortest
  <2>4. CASE D # {}
    <3>1. best \in LastOf(F) /\ best \in D /\ \A g \in D : g.end <= best.end
      BY <2>4, Zenon DEF DurationIsLast, LastOf
    <3>2. best # NoFact  BY <2>2, <3>1, ValidIsFact, Zenon
    <3>3. next = IF betterDurationFact(f, best) THEN f ELSE best  BY <1>2, <3>2, Zenon
    <3>4. DurationsOf(G) # {}  BY <2>1, Zenon
    <3> HIDE DEF next, D
    <3>5. CASE f.end > best.end
      <4>1. next = f  BY <2>2, <3>1, <3>3, <3>5 DEF betterDurationFact
      <4>2. LastOf(G) = {f}  BY <2>1, <2>2, <3>1, <3>5 DEF LastOf
      <4>3. QED  BY <2>2, <3>4, <4>1, <4>2 DEF DurationIsLast, DurationIsShortest
    <3>6. CASE f.end < best.end
      <4>1. next = best  BY <2>2, <3>1, <3>3, <3>6 DEF betterDurationFact
      <4>2. LastOf(G) = LastOf(F)  BY <2>1, <2>2, <3>1, <3>6 DEF LastOf, D
      <4>3. QED  BY <3>1, <3>4, <4>1, <4>2, Zenon DEF DurationIsLast, DurationIsShortest
    <3>7. CASE f.end = best.end
      <4>1. LastOf(G) = LastOf(F) \union {f}  BY <2>1, <2>2, <3>1, <3>7, Zenon DEF LastOf, D
      <4>2. next \in LastOf(G)  BY <3>1, <3>3, <4>1, Zenon
      <4>3. ASSUME \A g \in LastOf(G) : factDurationDays(g) > 0, NEW g \in LastOf(G)
            PROVE  \/ factDurationDays(g) > factDurationDays(next)
                   \/ factDurationDays(g) = factDurationDays(next) /\ g.filed <= next.filed
        <5>1. \A h \in LastOf(F) : \/ factDurationDays(h) > factDurationDays(best)
                                   \/ factDurationDays(h) = factDurationDays(best) /\ h.filed <= best.filed
          BY <4>1, <4>3, Zenon DEF DurationIsShortest
        <5>2. LastOf(G) \subseteq D \union {f}  BY <2>1, Zenon DEF LastOf
        <5>3. factDurationDays(f) > 0 /\ factDurationDays(best) > 0  BY <3>1, <4>1, <4>3, Zenon
        <5>4. betterDurationFact(f, best) <=>
                \/ factDurationDays(f) < factDurationDays(best)
                \/ factDurationDays(f) = factDurationDays(best) /\ f.filed > best.filed
          <6> DEFINE m == factDurationDays(f)
                     n == factDurationDays(best)
          <6>1. m \in Nat /\ n \in Nat /\ m > 0 /\ n > 0  BY <2>2, <3>1, <5>3, Zenon
          <6>2. betterDurationFact(f, best) <=> IF m # n THEN m < n ELSE f.filed > best.filed
            BY <2>2, <3>1, <3>7, <5>3 DEF betterDurationFact, After
          <6> HIDE DEF m, n
          <6>3. betterDurationFact(f, best) <=> m < n \/ (m = n /\ f.filed > best.filed)  BY <6>1, <6>2
          <6>4. QED  BY <6>3, Zenon DEF m, n
        <5>5. /\ factDurationDays(f) \in Nat /\ factDurationDays(best) \in Nat /\ factDurationDays(g) \in Nat
              /\ f.filed \in Nat /\ best.filed \in Nat /\ g.filed \in Nat
          BY <2>2, <3>1, <5>2, Zenon
        <5>6. QED  BY <3>3, <4>1, <5>1, <5>4, <5>5
      <4>4. QED  BY <3>4, <4>2, <4>3, Zenon DEF DurationIsLast, DurationIsShortest
    <3>8. QED  BY <2>2, <3>1, <3>5, <3>6, <3>7
  <2>5. QED  BY <2>3, <2>4, Zenon
<1>3. QED  BY <1>1, <1>2, Zenon

\* What the loops hold, with the facts they have read
FactsInv ==
  task = "facts" =>
    /\ read \in Seq(Facts)
    /\ acc = [instant |-> acc.instant, duration |-> acc.duration]
    /\ InstantIsLatest(Range(read), acc.instant)
    /\ DurationIsLast(Range(read), acc.duration)
    /\ DurationIsShortest(Range(read), acc.duration)

LEMMA FactsInvInductive ==
  /\ EvidenceInit => FactsInv
  /\ FactsInv /\ [EvidenceNext]_evidenceVars => FactsInv'
<1>1. ASSUME EvidenceInit PROVE FactsInv
  <2> SUFFICES ASSUME task = "facts" PROVE FactsInv  BY Zenon DEF FactsInv
  <2>1. read = <<>> /\ acc = NoFacts  BY <1>1, Zenon DEF EvidenceInit
  <2>2. read \in Seq(Facts) /\ Range(read) = {}  BY <2>1 DEF Range
  <2>3. acc = [instant |-> acc.instant, duration |-> acc.duration] /\ acc.instant = NoFact /\ acc.duration = NoFact
    BY <2>1, Zenon DEF NoFacts
  <2>4. InstantsOf({}) = {} /\ DurationsOf({}) = {} /\ LastOf({}) = {}
    BY Zenon DEF InstantsOf, DurationsOf, LastOf
  <2>5. QED  BY <2>2, <2>3, <2>4, Zenon DEF FactsInv, InstantIsLatest, DurationIsLast, DurationIsShortest
<1>2. ASSUME FactsInv, [EvidenceNext]_evidenceVars PROVE FactsInv'
  <2>1. CASE decodeRates \/ DecodeCoreWriterRawActions
    BY <2>1, Zenon DEF decodeRates, DecodeCoreWriterRawActions, Read, FactsInv
  <2>2. CASE latestFacts
    <3>1. task = "facts" /\ task' = task  BY <2>2, Zenon DEF latestFacts, Read
    <3>2. PICK f \in Facts : read' = Append(read, f) /\ acc' = selectFact(acc, f)
      BY <2>2, Zenon DEF latestFacts, Read
    <3>3. read \in Seq(Facts) /\ Range(read) \in SUBSET Facts
      <4>1. read \in Seq(Facts)  BY <1>2, <3>1, Zenon DEF FactsInv
      <4>2. \A i \in DOMAIN read : read[i] \in Facts  BY <4>1
      <4>3. QED  BY <4>1, <4>2, Zenon DEF Range
    <3>4. read' \in Seq(Facts) /\ Range(read') = Range(read) \union {f}
      BY <3>2, <3>3, Appended
    <3>5. /\ acc' = [instant |-> acc'.instant, duration |-> acc'.duration]
          /\ acc'.instant = IF f.start = NoDay /\ f.valid /\ (acc.instant = NoFact \/ After(f, acc.instant))
                            THEN f ELSE acc.instant
          /\ acc'.duration = IF f.start # NoDay /\ f.valid
                                /\ (acc.duration = NoFact \/ betterDurationFact(f, acc.duration))
                             THEN f ELSE acc.duration
      BY <3>2, Zenon DEF selectFact
    <3>6. /\ InstantIsLatest(Range(read), acc.instant)
          /\ DurationIsLast(Range(read), acc.duration) /\ DurationIsShortest(Range(read), acc.duration)
      BY <1>2, <3>1, Zenon DEF FactsInv
    <3>7. InstantIsLatest(Range(read'), acc'.instant)  BY <3>3, <3>4, <3>5, <3>6, InstantStep, Zenon
    <3>8. DurationIsLast(Range(read'), acc'.duration) /\ DurationIsShortest(Range(read'), acc'.duration)
      BY <3>3, <3>4, <3>5, <3>6, DurationStep, Zenon
    <3>9. QED  BY <3>4, <3>5, <3>7, <3>8, Zenon DEF FactsInv
  <2>3. CASE UNCHANGED evidenceVars  BY <1>2, <2>3, Zenon DEF evidenceVars, FactsInv
  <2>4. QED  BY <1>2, <2>1, <2>2, <2>3, Zenon DEF EvidenceNext
<1>3. QED  BY <1>1, <1>2, Zenon

\* latestInstantFact and latestDurationFact select the latest of any number of facts, in
\* whatever order they are filed.
THEOREM LatestFactIsSelected == EvidenceSpec => []FactsAreLatest
<1>1. FactsInv => FactsAreLatest
  BY Zenon
       DEF FactsInv, FactsAreLatest, InstantIsLatest, DurationIsLast, DurationIsShortest, InstantsOf,
           DurationsOf, LastOf
<1>2. QED  BY <1>1, FactsInvInductive, PTL DEF EvidenceSpec

-----------------------------------------------------------------------------
(* decodeRates *)

\* The rows of a response that name a pair of a day and a currency
Naming(rows, p) == {i \in DOMAIN rows : Concerns(rows[i]) /\ Pair(rows[i]) = p}

\* One row names the pair, and its rate is positive
SoleRow(rows, p, i) == Naming(rows, p) = {i} /\ rows[i].rate > 0

\* "seen" holds the pairs that some row names, also after a conflict has removed the
\* rate: this is what keeps a third row from being taken again.
RatesHeld(rows, held) ==
  /\ \A p : p \in held.seen <=> Naming(rows, p) # {}
  /\ \A p : p \in DOMAIN held.rates <=> \E i : SoleRow(rows, p, i)
  /\ \A p, i : SoleRow(rows, p, i) => held.rates[p] = rows[i].rate

LEMMA DecodeRowStep ==
  ASSUME NEW rows \in Seq(Rows), NEW held, held = [rates |-> held.rates, seen |-> held.seen],
         RatesHeld(rows, held), NEW row \in Rows
  PROVE  LET next == decodeRow(held, row)
         IN  next = [rates |-> next.rates, seen |-> next.seen] /\ RatesHeld(Append(rows, row), next)
<1> DEFINE next == decodeRow(held, row)
           more == Append(rows, row)
           n == Len(rows) + 1
           q == Pair(row)
<1> SUFFICES next = [rates |-> next.rates, seen |-> next.seen] /\ RatesHeld(more, next)  BY Zenon
<1>1. /\ DOMAIN more = DOMAIN rows \union {n} /\ n \notin DOMAIN rows /\ more[n] = row
      /\ \A i \in DOMAIN rows : more[i] = rows[i]
  BY Appended
<1> HIDE DEF more, n
<1>2. \A p : Naming(more, p) = Naming(rows, p) \union (IF Concerns(row) /\ q = p THEN {n} ELSE {})
  BY <1>1, Zenon DEF Naming
<1>3. \A p : n \notin Naming(rows, p) /\ \A i \in Naming(rows, p) : more[i] = rows[i]
  BY <1>1, Zenon DEF Naming
\* The pairs that the row does not name are as before.
<1>4. \A p, i : Naming(more, p) = Naming(rows, p) => (SoleRow(more, p, i) <=> SoleRow(rows, p, i))
  BY <1>3, Zenon DEF SoleRow
<1>5. CASE ~Concerns(row)
  <2>1. next = held  BY <1>5, Zenon DEF decodeRow
  <2>2. \A p : Naming(more, p) = Naming(rows, p)  BY <1>2, <1>5, Zenon
  <2>3. \A p, i : SoleRow(rows, p, i) => more[i] = rows[i]  BY <1>3, Zenon DEF SoleRow
  <2> HIDE DEF next
  <2>4. QED  BY <1>4, <2>1, <2>2, <2>3, Zenon DEF RatesHeld
<1>6. CASE Concerns(row) /\ q \in held.seen
  <2>1. next = [rates |-> Without(held.rates, q), seen |-> held.seen]
    BY <1>6, Zenon DEF decodeRow
  <2> HIDE DEF next, q
  <2>2. /\ next = [rates |-> next.rates, seen |-> next.seen]
        /\ next.seen = held.seen
        /\ DOMAIN next.rates = DOMAIN held.rates \ {q}
        /\ \A p \in DOMAIN held.rates \ {q} : next.rates[p] = held.rates[p]
    BY <2>1, Zenon DEF Without
  <2>3. Naming(rows, q) # {} /\ Naming(more, q) = Naming(rows, q) \union {n}
    BY <1>2, <1>6, Zenon DEF RatesHeld
  <2>4. \A i : ~SoleRow(more, q, i)
    <3>1. PICK j : j \in Naming(rows, q)  BY <2>3, Zenon
    <3>2. j # n /\ j \in Naming(more, q) /\ n \in Naming(more, q)  BY <1>3, <2>3, <3>1, Zenon
    <3>3. QED  BY <3>2 DEF SoleRow
  <2>5. \A p : p # q => Naming(more, p) = Naming(rows, p)  BY <1>2, Zenon
  <2>6. \A p : p \in next.seen <=> Naming(more, p) # {}
    BY <2>2, <2>3, <2>5, Zenon DEF RatesHeld
  <2>7. \A p : p \in DOMAIN next.rates <=> \E i : SoleRow(more, p, i)
    BY <1>4, <2>2, <2>4, <2>5 DEF RatesHeld
  <2>8. ASSUME NEW p, NEW i, SoleRow(more, p, i) PROVE next.rates[p] = more[i].rate
    <3>1. p # q  BY <2>4, <2>8, Zenon
    <3>2. SoleRow(rows, p, i)  BY <1>4, <2>5, <2>8, <3>1, Zenon
    <3>3. held.rates[p] = rows[i].rate /\ p \in DOMAIN held.rates  BY <3>2, Zenon DEF RatesHeld
    <3>4. more[i] = rows[i]  BY <1>3, <3>2, Zenon DEF SoleRow
    <3>5. QED  BY <2>2, <3>1, <3>3, <3>4, Zenon
  <2>9. QED  BY <2>2, <2>6, <2>7, <2>8, Zenon DEF RatesHeld
<1>7. CASE Concerns(row) /\ q \notin held.seen
  <2>1. next = [rates |-> IF row.rate > 0 THEN With(held.rates, q, row.rate) ELSE held.rates,
                seen |-> held.seen \union {q}]
    BY <1>7, Zenon DEF decodeRow
  <2> HIDE DEF next, q
  <2>2. /\ next = [rates |-> next.rates, seen |-> next.seen]
        /\ next.seen = held.seen \union {q}
        /\ row.rate > 0 => /\ DOMAIN next.rates = DOMAIN held.rates \union {q}
                           /\ next.rates[q] = row.rate
                           /\ \A p \in DOMAIN held.rates \ {q} : next.rates[p] = held.rates[p]
        /\ ~(row.rate > 0) => next.rates = held.rates
    BY <2>1, Zenon DEF With
  <2>3. Naming(rows, q) = {} /\ Naming(more, q) = {n}
    BY <1>2, <1>7, Zenon DEF RatesHeld
  <2>4. \A i : SoleRow(more, q, i) <=> i = n /\ row.rate > 0
    BY <1>1, <2>3, Zenon DEF SoleRow
  <2>5. \A p : p # q => Naming(more, p) = Naming(rows, p)  BY <1>2, Zenon
  <2>6. q \notin DOMAIN held.rates
    BY <2>3, Zenon DEF RatesHeld, SoleRow
  <2>7. \A p : p \in next.seen <=> Naming(more, p) # {}
    BY <2>2, <2>3, <2>5, Zenon DEF RatesHeld
  <2>8. \A p : p \in DOMAIN next.rates <=> \E i : SoleRow(more, p, i)
    <3>1. q \in DOMAIN next.rates <=> row.rate > 0  BY <2>2, <2>6, Zenon
    <3>2. \A p : p # q => (p \in DOMAIN next.rates <=> p \in DOMAIN held.rates)  BY <2>2, Zenon
    <3>3. QED  BY <1>4, <2>4, <2>5, <3>1, <3>2 DEF RatesHeld
  <2>9. ASSUME NEW p, NEW i, SoleRow(more, p, i) PROVE next.rates[p] = more[i].rate
    <3>1. CASE p = q  BY <1>1, <2>2, <2>4, <2>9, <3>1, Zenon
    <3>2. CASE p # q
      <4>1. SoleRow(rows, p, i)  BY <1>4, <2>5, <2>9, <3>2, Zenon
      <4>2. held.rates[p] = rows[i].rate /\ p \in DOMAIN held.rates  BY <4>1, Zenon DEF RatesHeld
      <4>3. more[i] = rows[i]  BY <1>3, <4>1, Zenon DEF SoleRow
      <4>4. QED  BY <2>2, <3>2, <4>2, <4>3, Zenon
    <3>3. QED  BY <3>1, <3>2, Zenon
  <2>10. QED  BY <2>2, <2>7, <2>8, <2>9, Zenon DEF RatesHeld
<1>8. QED  BY <1>5, <1>6, <1>7, Zenon

RatesInv ==
  task = "rates" =>
    /\ read \in Seq(Rows)
    /\ acc = [rates |-> acc.rates, seen |-> acc.seen]
    /\ RatesHeld(read, acc)

LEMMA RatesInvInductive ==
  /\ EvidenceInit => RatesInv
  /\ RatesInv /\ [EvidenceNext]_evidenceVars => RatesInv'
<1>1. ASSUME EvidenceInit PROVE RatesInv
  <2> SUFFICES ASSUME task = "rates" PROVE RatesInv  BY Zenon DEF RatesInv
  <2>1. read = <<>> /\ acc = NoRates  BY <1>1, Zenon DEF EvidenceInit
  <2>2. read \in Seq(Rows) /\ DOMAIN read = {}  BY <2>1
  <2>3. acc = [rates |-> acc.rates, seen |-> acc.seen] /\ DOMAIN acc.rates = {} /\ acc.seen = {}
    BY <2>1 DEF NoRates
  <2>4. \A p : Naming(read, p) = {}  BY <2>2, Zenon DEF Naming
  <2>5. QED  BY <2>2, <2>3, <2>4, Zenon DEF RatesInv, RatesHeld, SoleRow
<1>2. ASSUME RatesInv, [EvidenceNext]_evidenceVars PROVE RatesInv'
  <2>1. CASE latestFacts \/ DecodeCoreWriterRawActions
    BY <2>1, Zenon DEF latestFacts, DecodeCoreWriterRawActions, Read, RatesInv
  <2>2. CASE decodeRates
    <3>1. task = "rates" /\ task' = task  BY <2>2, Zenon DEF decodeRates, Read
    <3>2. PICK row \in Rows : read' = Append(read, row) /\ acc' = decodeRow(acc, row)
      BY <2>2, Zenon DEF decodeRates, Read
    <3>3. read \in Seq(Rows) /\ acc = [rates |-> acc.rates, seen |-> acc.seen] /\ RatesHeld(read, acc)
      BY <1>2, <3>1, Zenon DEF RatesInv
    <3>4. acc' = [rates |-> acc'.rates, seen |-> acc'.seen] /\ RatesHeld(read', acc')
      BY <3>2, <3>3, DecodeRowStep, Zenon
    <3>5. read' \in Seq(Rows)  BY <3>2, <3>3, Appended, Zenon
    <3>6. QED  BY <3>4, <3>5, Zenon DEF RatesInv, RatesHeld, Naming, SoleRow
  <2>3. CASE UNCHANGED evidenceVars
    BY <1>2, <2>3 DEF evidenceVars, RatesInv, RatesHeld, Naming, SoleRow
  <2>4. QED  BY <1>2, <2>1, <2>2, <2>3, Zenon DEF EvidenceNext
<1>3. QED  BY <1>1, <1>2, Zenon

\* decodeRates keeps a rate exactly if one row of the response names its day and currency
\* and its rate is positive, however many rows conflict and in whatever order.
THEOREM RatesAreFromOneRow == EvidenceSpec => []RatesAreUnambiguous
<1>1. RatesInv => RatesAreUnambiguous
  <2> SUFFICES ASSUME task = "rates", read \in Seq(Rows), RatesHeld(read, acc)
               PROVE  RatesAreUnambiguous
    BY Zenon DEF RatesInv, RatesAreUnambiguous
  <2> DEFINE pairs == {Pair(row) : row \in {r \in Range(read) : Concerns(r)}}
             kept == {p \in pairs : /\ Cardinality(Naming(read, p)) = 1
                                    /\ \A i \in Naming(read, p) : read[i].rate > 0}
  <2>1. \A p : p \in pairs <=> Naming(read, p) # {}
    <3>1. ASSUME NEW p \in pairs PROVE Naming(read, p) # {}
      <4>1. PICK row \in Range(read) : Concerns(row) /\ Pair(row) = p  BY <3>1, Zenon
      <4>2. PICK i \in DOMAIN read : read[i] = row  BY <4>1, Zenon DEF Range
      <4>3. i \in Naming(read, p)  BY <4>1, <4>2, Zenon DEF Naming
      <4>4. QED  BY <4>3, Zenon
    <3>2. ASSUME NEW p, NEW i \in Naming(read, p) PROVE p \in pairs
      <4>1. i \in DOMAIN read /\ Concerns(read[i]) /\ Pair(read[i]) = p  BY <3>2, Zenon DEF Naming
      <4>2. read[i] \in {r \in Range(read) : Concerns(r)}  BY <4>1, Zenon DEF Range
      <4>3. QED  BY <4>1, <4>2, Zenon
    <3>3. QED  BY <3>1, <3>2, Zenon
  <2>2. \A p : IsFiniteSet(Naming(read, p))
    <3>1. Len(read) \in Nat /\ DOMAIN read = 1..Len(read)  OBVIOUS
    <3>2. IsFiniteSet(DOMAIN read)  BY <3>1, FS_Interval
    <3>3. \A p : Naming(read, p) \in SUBSET (DOMAIN read)  BY Zenon DEF Naming
    <3>4. QED  BY <3>2, <3>3, FS_Subset, Zenon
  <2>3. \A p : p \in kept <=> \E i : SoleRow(read, p, i)
    <3> HIDE DEF pairs
    <3>1. \A p : Cardinality(Naming(read, p)) = 1 <=> \E i : Naming(read, p) = {i}
      BY <2>2, FS_Singleton, Zenon
    <3>2. \A p : (\E i : SoleRow(read, p, i)) => Naming(read, p) # {}  BY Zenon DEF SoleRow
    <3>3. QED  BY <2>1, <3>1, <3>2, Zenon DEF SoleRow
  <2> HIDE DEF kept
  <2>4. DOMAIN acc.rates = kept  BY <2>3, Zenon DEF RatesHeld
  <2>5. \A p \in kept : \A i \in Naming(read, p) : acc.rates[p] = read[i].rate
    <3> SUFFICES ASSUME NEW p \in kept, NEW i \in Naming(read, p) PROVE acc.rates[p] = read[i].rate
      BY Zenon
    <3>1. PICK j : SoleRow(read, p, j)  BY <2>3, Zenon
    <3>2. i = j  BY <3>1, Zenon DEF SoleRow
    <3>3. QED  BY <3>1, <3>2, Zenon DEF RatesHeld
  <2>6. QED  BY <2>4, <2>5, Zenon DEF RatesAreUnambiguous, kept, Naming
<1>2. QED  BY <1>1, RatesInvInductive, PTL DEF EvidenceSpec

-----------------------------------------------------------------------------
(* DecodeCoreWriterRawActions *)

CompletedActions == [index : Nat, raw : Actions, tx : 0..2, block : 0..2, hash : 0..2]

\* The logs of the CoreWriter, the ones that are an action, and the ones an action is of
CoreOf(logs) == {i \in DOMAIN logs : logs[i].core}
WellFormed(log, receipt) == Agrees(log, receipt) /\ DecodeCoreWriterRawActionLog(log)
TakenOf(actions) == {actions[i].index : i \in DOMAIN actions}
Increasing(actions) == \A i, j \in DOMAIN actions : i < j => actions[i].index < actions[j].index

ActionsHeld(logs, held) ==
  /\ \A i : i \in TakenOf(held.actions) <=> i \in CoreOf(logs) /\ WellFormed(logs[i], held.receipt)
  /\ \A i : i \in Range(held.errs) <=> i \in CoreOf(logs) /\ ~WellFormed(logs[i], held.receipt)
  /\ Len(held.actions) + Len(held.errs) = Cardinality(CoreOf(logs))
  /\ Increasing(held.actions)

HeldShape(held) ==
  /\ held = [receipt |-> held.receipt, actions |-> held.actions, errs |-> held.errs]
  /\ held.receipt \in {ReceiptOf(0), ReceiptOf(1)}
  /\ held.actions \in Seq(CompletedActions) /\ held.errs \in Seq(Nat)

LEMMA LogShape ==
  ASSUME NEW log \in Logs
  PROVE  log.tx \in 0..2 /\ log.block \in 0..2 /\ log.hash \in 0..2 /\ log.raw \in Actions
<1>1. /\ log.tx \in 0..2 \union {0, 1} \union {1, 2}
      /\ log.block \in 0..2 \union {1} /\ log.hash \in 0..2 \union {1}
      /\ log.raw \in Actions \union {"known", "notCanonical"}
  BY Zenon DEF Logs
<1>2. QED  BY <1>1 DEF Actions

LEMMA CoreIsFinite ==
  ASSUME NEW logs \in Seq(Logs)
  PROVE  IsFiniteSet(CoreOf(logs)) /\ CoreOf(logs) \subseteq 1..Len(logs) /\ Len(logs) \in Nat
<1>1. Len(logs) \in Nat /\ DOMAIN logs = 1..Len(logs)  OBVIOUS
<1>2. IsFiniteSet(DOMAIN logs)  BY <1>1, FS_Interval
<1>3. CoreOf(logs) \in SUBSET (DOMAIN logs)  BY Zenon DEF CoreOf
<1>4. QED  BY <1>1, <1>2, <1>3, FS_Subset, Zenon

LEMMA OneMore ==
  ASSUME NEW a \in Nat, NEW b \in Nat, NEW c \in Nat, a + b = c
  PROVE  (a + 1) + b = c + 1 /\ a + (b + 1) = c + 1
  OBVIOUS

LEMMA DecodeLogStep ==
  ASSUME NEW logs \in Seq(Logs), NEW held, HeldShape(held), ActionsHeld(logs, held), NEW log \in Logs
  PROVE  LET next == decodeLog(held, log, Len(logs) + 1)
         IN  HeldShape(next) /\ ActionsHeld(Append(logs, log), next)
<1> DEFINE n == Len(logs) + 1
           next == decodeLog(held, log, n)
           more == Append(logs, log)
           action == Completed(log, held.receipt, n)
<1> SUFFICES HeldShape(next) /\ ActionsHeld(more, next)  BY Zenon
<1>1. /\ DOMAIN more = DOMAIN logs \union {n} /\ n \notin DOMAIN logs /\ more[n] = log
      /\ \A i \in DOMAIN logs : more[i] = logs[i]
  BY Appended
<1>2. n \in Nat  BY CoreIsFinite
<1> HIDE DEF more
<1>3. CoreOf(more) = CoreOf(logs) \union (IF log.core THEN {n} ELSE {}) /\ n \notin CoreOf(logs)
  BY <1>1, Zenon DEF CoreOf
<1>4. \A i \in CoreOf(logs) : more[i] = logs[i]  BY <1>1, Zenon DEF CoreOf
<1>5. Cardinality(CoreOf(logs)) \in Nat  BY CoreIsFinite, FS_CardinalityType, Zenon
<1>6. CASE ~log.core
  <2>1. next = held  BY <1>6, Zenon DEF decodeLog
  <2>2. CoreOf(more) = CoreOf(logs)  BY <1>3, <1>6, Zenon
  <2> HIDE DEF next
  <2>3. QED  BY <1>4, <2>1, <2>2, Zenon DEF ActionsHeld
<1>7. CASE log.core
  <2>1. CoreOf(more) = CoreOf(logs) \union {n}  BY <1>3, <1>7, Zenon
  <2>2. Cardinality(CoreOf(more)) = Cardinality(CoreOf(logs)) + 1
    BY <1>3, <2>1, CoreIsFinite, FS_AddElement, Zenon
  <2>3. Len(held.actions) \in Nat /\ Len(held.errs) \in Nat  BY DEF HeldShape
  <2>4. CASE WellFormed(log, held.receipt)
    <3>1. next = [held EXCEPT !.actions = Append(held.actions, action)]
      BY <1>7, <2>4, Zenon DEF decodeLog, WellFormed
    <3>2. action \in CompletedActions /\ action.index = n
      <4>1. held.receipt.tx = 1 /\ held.receipt.block = 1 /\ held.receipt.hash \in {0, 1}
        BY DEF HeldShape, ReceiptOf
      <4>2. \A x \in 0..2, y \in {0, 1} : Or(x, y) \in 0..2  BY DEF Or
      <4>3. QED  BY <1>2, <4>1, <4>2, LogShape, Zenon DEF Completed, CompletedActions
    <3> HIDE DEF next, action, n
    <3>3. /\ next = [receipt |-> next.receipt, actions |-> next.actions, errs |-> next.errs]
          /\ next.receipt = held.receipt /\ next.errs = held.errs
          /\ next.actions = Append(held.actions, action)
      BY <3>1, Zenon DEF HeldShape
    <3>4. /\ next.actions \in Seq(CompletedActions) /\ Len(next.actions) = Len(held.actions) + 1
          /\ DOMAIN next.actions = DOMAIN held.actions \union {Len(held.actions) + 1}
          /\ DOMAIN held.actions = 1..Len(held.actions)
          /\ \A i \in DOMAIN held.actions : next.actions[i] = held.actions[i]
          /\ next.actions[Len(held.actions) + 1] = action
      BY <3>2, <3>3, Appended DEF HeldShape
    <3>5. HeldShape(next)  BY <3>3, <3>4, Zenon DEF HeldShape
    <3>6. TakenOf(next.actions) = TakenOf(held.actions) \union {n}
      BY <3>2, <3>4, SMTT(20) DEF TakenOf
    <3>7. \A i : i \in TakenOf(next.actions) <=> i \in CoreOf(more) /\ WellFormed(more[i], next.receipt)
      BY <1>1, <1>3, <1>4, <2>1, <2>4, <3>3, <3>6, Zenon DEF ActionsHeld
    <3>8. \A i : i \in Range(next.errs) <=> i \in CoreOf(more) /\ ~WellFormed(more[i], next.receipt)
      BY <1>1, <1>3, <1>4, <2>1, <2>4, <3>3, Zenon DEF ActionsHeld
    <3>9. Len(next.actions) + Len(next.errs) = Cardinality(CoreOf(more))
      <4>1. Len(held.actions) + Len(held.errs) = Cardinality(CoreOf(logs))  BY Zenon DEF ActionsHeld
      <4>2. Len(next.actions) = Len(held.actions) + 1 /\ Len(next.errs) = Len(held.errs)
        BY <3>3, <3>4, Zenon
      <4>3. (Len(held.actions) + 1) + Len(held.errs) = Cardinality(CoreOf(logs)) + 1
        BY <1>5, <2>3, <4>1, OneMore, ZenonT(30)
      <4>4. QED  BY <2>2, <4>2, <4>3, Zenon
    <3>10. Increasing(next.actions)
      <4>1. \A i \in DOMAIN held.actions : held.actions[i].index \in CoreOf(logs)
        BY Zenon DEF ActionsHeld, TakenOf
      <4>2. \A i \in DOMAIN held.actions : held.actions[i].index < n
        BY <4>1, CoreIsFinite DEF n
      <4>3. QED  BY <2>3, <3>2, <3>4, <4>2, SMTT(20) DEF Increasing, ActionsHeld
    <3>11. QED  BY <3>5, <3>7, <3>8, <3>9, <3>10, Zenon DEF ActionsHeld
  <2>5. CASE ~WellFormed(log, held.receipt)
    <3>1. next = [held EXCEPT !.errs = Append(held.errs, n)]
      BY <1>7, <2>5, Zenon DEF decodeLog, WellFormed
    <3> HIDE DEF next, n
    <3>2. /\ next = [receipt |-> next.receipt, actions |-> next.actions, errs |-> next.errs]
          /\ next.receipt = held.receipt /\ next.actions = held.actions
          /\ next.errs = Append(held.errs, n)
      BY <3>1, Zenon DEF HeldShape
    <3>3. /\ next.errs \in Seq(Nat) /\ Len(next.errs) = Len(held.errs) + 1
          /\ Range(next.errs) = Range(held.errs) \union {n}
      BY <1>2, <3>2, Appended DEF HeldShape
    <3>4. HeldShape(next)  BY <3>2, <3>3, Zenon DEF HeldShape
    <3>5. \A i : i \in TakenOf(next.actions) <=> i \in CoreOf(more) /\ WellFormed(more[i], next.receipt)
      BY <1>1, <1>3, <1>4, <2>1, <2>5, <3>2, Zenon DEF ActionsHeld
    <3>6. \A i : i \in Range(next.errs) <=> i \in CoreOf(more) /\ ~WellFormed(more[i], next.receipt)
      BY <1>1, <1>3, <1>4, <2>1, <2>5, <3>2, <3>3, Zenon DEF ActionsHeld
    <3>7. Len(next.actions) + Len(next.errs) = Cardinality(CoreOf(more))
      <4>1. Len(held.actions) + Len(held.errs) = Cardinality(CoreOf(logs))  BY Zenon DEF ActionsHeld
      <4>2. Len(next.errs) = Len(held.errs) + 1 /\ Len(next.actions) = Len(held.actions)
        BY <3>2, <3>3, Zenon
      <4>3. Len(held.actions) + (Len(held.errs) + 1) = Cardinality(CoreOf(logs)) + 1
        BY <1>5, <2>3, <4>1, OneMore, ZenonT(30)
      <4>4. QED  BY <2>2, <4>2, <4>3, Zenon
    <3>8. Increasing(next.actions)  BY <3>2, Zenon DEF ActionsHeld
    <3>9. QED  BY <3>4, <3>5, <3>6, <3>7, <3>8, Zenon DEF ActionsHeld
  <2>6. QED  BY <2>4, <2>5, Zenon
<1>8. QED  BY <1>6, <1>7, Zenon

LogsInv == task = "logs" => read \in Seq(Logs) /\ HeldShape(acc) /\ ActionsHeld(read, acc)

LEMMA LogsInvInductive ==
  /\ EvidenceInit => LogsInv
  /\ LogsInv /\ [EvidenceNext]_evidenceVars => LogsInv'
<1>1. ASSUME EvidenceInit PROVE LogsInv
  <2> SUFFICES ASSUME task = "logs" PROVE LogsInv  BY Zenon DEF LogsInv
  <2>1. PICK hash \in {0, 1} : read = <<>> /\ acc = NoActions(hash)  BY <1>1, Zenon DEF EvidenceInit
  <2>2. read \in Seq(Logs) /\ DOMAIN read = {}  BY <2>1
  <2>3. /\ acc = [receipt |-> acc.receipt, actions |-> acc.actions, errs |-> acc.errs]
        /\ acc.receipt = ReceiptOf(hash) /\ acc.actions = <<>> /\ acc.errs = <<>>
    BY <2>1, Zenon DEF NoActions
  <2>4. HeldShape(acc)  BY <2>3 DEF HeldShape
  <2>5. CoreOf(read) = {} /\ TakenOf(acc.actions) = {} /\ Range(acc.errs) = {}
    BY <2>2, <2>3 DEF CoreOf, TakenOf, Range
  <2>6. Len(acc.actions) + Len(acc.errs) = Cardinality(CoreOf(read))
    BY <2>3, <2>5, FS_EmptySet
  <2>7. Increasing(acc.actions)  BY <2>3 DEF Increasing
  <2>8. QED  BY <2>2, <2>4, <2>5, <2>6, <2>7, Zenon DEF LogsInv, ActionsHeld
<1>2. ASSUME LogsInv, [EvidenceNext]_evidenceVars PROVE LogsInv'
  <2>1. CASE latestFacts \/ decodeRates
    BY <2>1, Zenon DEF latestFacts, decodeRates, Read, LogsInv
  <2>2. CASE DecodeCoreWriterRawActions
    <3>1. task = "logs" /\ task' = task  BY <2>2, Zenon DEF DecodeCoreWriterRawActions, Read
    <3>2. PICK log \in Logs : read' = Append(read, log) /\ acc' = decodeLog(acc, log, Len(read) + 1)
      BY <2>2, Zenon DEF DecodeCoreWriterRawActions, Read
    <3>3. read \in Seq(Logs) /\ HeldShape(acc) /\ ActionsHeld(read, acc)
      BY <1>2, <3>1, Zenon DEF LogsInv
    <3>4. HeldShape(acc') /\ ActionsHeld(read', acc')  BY <3>2, <3>3, DecodeLogStep, Zenon
    <3>5. read' \in Seq(Logs)  BY <3>2, <3>3, Appended, Zenon
    <3>6. QED
      BY <3>4, <3>5, Zenon
           DEF LogsInv, HeldShape, ActionsHeld, CoreOf, WellFormed, TakenOf, Increasing, Agrees,
                        DecodeCoreWriterRawActionLog, DecodeCoreWriterAction
  <2>3. CASE UNCHANGED evidenceVars
    <3>1. task' = task /\ read' = read /\ acc' = acc  BY <2>3, Zenon DEF evidenceVars
    <3>2. QED  BY <1>2, <3>1
         DEF LogsInv, HeldShape, ActionsHeld, CoreOf, WellFormed, TakenOf, Increasing, Agrees,
                                DecodeCoreWriterRawActionLog, DecodeCoreWriterAction
  <2>4. QED  BY <1>2, <2>1, <2>2, <2>3, Zenon DEF EvidenceNext
<1>3. QED  BY <1>1, <1>2, Zenon

\* DecodeCoreWriterRawActions turns every CoreWriter log of a receipt of any length into
\* an action or an error, once and in order, and only those that the receipt does not
\* contradict into actions.
THEOREM EveryLogIsEvidence == EvidenceSpec => []NoEvidenceIsLost
<1>1. LogsInv => NoEvidenceIsLost
  <2> SUFFICES ASSUME task = "logs", read \in Seq(Logs), HeldShape(acc), ActionsHeld(read, acc)
               PROVE  NoEvidenceIsLost
    BY Zenon DEF LogsInv, NoEvidenceIsLost
  <2>1. TakenOf(acc.actions) \union Range(acc.errs) = CoreOf(read)  BY Zenon DEF ActionsHeld
  <2>2. ASSUME NEW i \in CoreOf(read)
        PROVE  WellFormed(read[i], acc.receipt) <=>
                 /\ ~read[i].removed /\ read[i].topics = "rawAction" /\ read[i].raw \in {"known", "unknown"}
                 /\ read[i].tx # 2 /\ read[i].block # 2
                 /\ acc.receipt.hash = 0 \/ read[i].hash \in {0, acc.receipt.hash}
    <3>1. read[i] \in Logs /\ read[i].core  BY <2>2 DEF CoreOf
    <3>2. acc.receipt.tx = 1 /\ acc.receipt.block = 1  BY DEF HeldShape, ReceiptOf
    <3>3. read[i].tx \in 0..2 /\ read[i].block \in 0..2  BY <3>1, LogShape, Zenon
    <3>4. QED  BY <3>1, <3>2, <3>3
         DEF WellFormed, Agrees, DecodeCoreWriterRawActionLog, DecodeCoreWriterAction
  <2>3. QED
    BY <2>1, <2>2, Zenon DEF NoEvidenceIsLost, ActionsHeld, CoreOf, TakenOf, Increasing
<1>2. QED  BY <1>1, LogsInvInductive, PTL DEF EvidenceSpec

-----------------------------------------------------------------------------
\* The machines keep their own specifications in the composition: it runs one at a time
\* and leaves the others alone, so the theorems about each hold of the composition.
THEOREM AlgorithmsRunAlone == AlgorithmsSpec => Spec /\ EvidenceSpec
<1>1. AlgorithmsInit => Init /\ EvidenceInit  BY Zenon DEF AlgorithmsInit
<1>2. [AlgorithmsNext]_allVars => [Next]_vars /\ [EvidenceNext]_evidenceVars
  BY Zenon
       DEF AlgorithmsNext, RaiseFees, SelectEvidence, TryOrder, TryTransfer, AddToError, allVars, vars,
           evidenceVars
<1>3. QED  BY <1>1, <1>2, PTL DEF AlgorithmsSpec, Spec, EvidenceSpec
=============================================================================
