----------------------------- MODULE CoreScaling -----------------------------
(***************************************************************************)
(* hypercore's conversion of amounts between the units of a token's EVM    *)
(* contract and HyperCore wei, which has evmExtraWeiDecimals digits fewer  *)
(* and is bounded.                                                         *)
(***************************************************************************)
EXTENDS Integers

CONSTANT MaxCoreWei     \* maxCoreWei, the largest uint64

ASSUME CoreWeiIsBounded == MaxCoreWei \in Nat

\* units.Pow10
Pow10[n \in Nat] == IF n = 0 THEN 1 ELSE 10 * Pow10[n - 1]

Refused == [ok |-> FALSE, amount |-> 0, rest |-> 0]
Converted(amount, rest) == [ok |-> TRUE, amount |-> amount, rest |-> rest]
Exactly(conversion) == IF conversion.rest # 0 THEN Refused ELSE conversion

\* Fault: an amount that is too large is taken modulo the width of a uint64.
evmToCoreWeiWrapping(evm, extra) ==
    IF evm < 0 THEN Refused
    ELSE IF extra >= 0 THEN Converted((evm \div Pow10[extra]) % (MaxCoreWei + 1), evm % Pow10[extra])
    ELSE Converted((evm * Pow10[-extra]) % (MaxCoreWei + 1), 0)

evmToCoreWei(evm, extra) ==
    LET core == IF extra >= 0 THEN evm \div Pow10[extra] ELSE evm * Pow10[-extra]
        rest == IF extra >= 0 THEN evm % Pow10[extra] ELSE 0
    IN  IF evm < 0 \/ core > MaxCoreWei THEN Refused ELSE Converted(core, rest)

coreWeiToEvm(core, extra) ==
    IF extra >= 0 THEN Converted(core * Pow10[extra], 0)
    ELSE Converted(core \div Pow10[-extra], core % Pow10[-extra])

EvmToCoreWei(evm, extra) == Exactly(evmToCoreWei(evm, extra))
EvmToCoreWeiFloor(evm, extra) == evmToCoreWei(evm, extra)
CoreWeiToEvm(core, extra) == Exactly(coreWeiToEvm(core, extra))
CoreWeiToEvmFloor(core, extra) == coreWeiToEvm(core, extra)

\* Nothing is lost between the two units: an exact conversion is undone by the exact
\* one back, a flooring one by the one back and its remainder, and what HyperCore can
\* hold always returns to HyperCore (EvmToCoreWei, CoreWeiToEvm and their floors).
DustIsAccountedFor(amount, extra) ==
    LET there == EvmToCoreWei(amount, extra)
        floor == EvmToCoreWeiFloor(amount, extra)
        out == CoreWeiToEvmFloor(amount, extra)
        back == EvmToCoreWeiFloor(out.amount, extra)
    IN  /\ there.ok => CoreWeiToEvm(there.amount, extra) = Converted(amount, 0)
        /\ floor.ok => CoreWeiToEvm(floor.amount, extra) = Converted(amount - floor.rest, 0)
        /\ amount \in 0..MaxCoreWei => back = Converted(amount - out.rest, 0)
=============================================================================
