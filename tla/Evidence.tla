------------------------------ MODULE Evidence ------------------------------
(***************************************************************************)
(* The loops that select evidence from a response, one element per step:   *)
(* decodeRates (frankfurter), latestInstantFact and latestDurationFact     *)
(* (sec) and DecodeCoreWriterRawActions (hypercore). Each invariant        *)
(* compares what the loop holds with a definition over all it has read.    *)
(***************************************************************************)
EXTENDS Integers, Sequences, FiniteSets, Functions

CONSTANTS
    RateDays, Quotes, From, To,     \* days and currencies of rows; the range asked for
    FactDays, Filings,              \* days facts start and end on; ranks of their filing
    MaxRead                         \* task -> bound on the elements read

\* Days are numbers, and none is one of the two that stand for no day.
ASSUME EvidenceConstants ==
    /\ RateDays \subseteq Nat /\ From \in Nat /\ To \in Nat
    /\ FactDays \subseteq Nat \ {0} /\ Filings \subseteq Nat
    /\ MaxRead \in [{"rates", "facts", "logs"} -> Nat]

VARIABLES
    task,       \* the loop that runs
    read,       \* the elements read so far
    acc         \* its local variables

evidenceVars == <<task, read, acc>>

NoDay == -1     \* a date that is absent, or a day that does not parse

-----------------------------------------------------------------------------
(* decodeRates: rows of a month *)

Base == "USD"
Rows == [date : RateDays \union {NoDay}, base : {Base}, quote : Quotes, rate : {0, 1, 2}]
          \union [date : RateDays, base : {"EUR"}, quote : Quotes, rate : {1}]
          \union [date : RateDays, base : {Base}, quote : {""}, rate : {1}]

\* A row that cannot be parsed, or is of no day, base or quote asked for, is skipped.
Concerns(row) == row.date \in From..To /\ row.base = Base /\ row.quote # ""
Pair(row) == <<row.date, row.quote>>

NoRates == [rates |-> <<>>, seen |-> {}]
Without(f, x) == [y \in DOMAIN f \ {x} |-> f[y]]
With(f, x, v) == [y \in DOMAIN f \union {x} |-> IF y = x THEN v ELSE f[y]]

\* Fault: a third row for a pair is taken again.
decodeRowForgetful(a, row) ==
    IF ~Concerns(row) THEN a
    ELSE IF Pair(row) \in a.seen THEN [rates |-> Without(a.rates, Pair(row)), seen |-> a.seen \ {Pair(row)}]
    ELSE [rates |-> IF row.rate > 0 THEN With(a.rates, Pair(row), row.rate) ELSE a.rates,
          seen |-> a.seen \union {Pair(row)}]

decodeRow(a, row) ==
    IF ~Concerns(row) THEN a
    ELSE IF Pair(row) \in a.seen THEN [a EXCEPT !.rates = Without(@, Pair(row))]
    ELSE [rates |-> IF row.rate > 0 THEN With(a.rates, Pair(row), row.rate) ELSE a.rates,
          seen |-> a.seen \union {Pair(row)}]

-----------------------------------------------------------------------------
(* latestInstantFact, latestDurationFact: the facts of one company, tag and unit *)

\* A start may be absent, or not parse; form, value and end make a fact valid. The day
\* it was filed and its accession are compared in that order: one rank stands for both.
Unparsed == 0
Facts == [start : FactDays \union {NoDay, Unparsed}, end : FactDays, filed : Filings, valid : {TRUE}]
           \union [start : {NoDay, Unparsed}, end : FactDays, filed : Filings, valid : {FALSE}]
NoFact == [start |-> NoDay, end |-> NoDay, filed |-> 0, valid |-> FALSE]

\* compareFactDates
After(f, g) == f.end > g.end \/ (f.end = g.end /\ f.filed > g.filed)

factDurationDays(f) == IF f.start = Unparsed \/ f.end < f.start THEN 0 ELSE f.end - f.start + 1

\* Fault: the longer period wins.
betterDurationFactLonger(f, g) ==
    IF f.end # g.end THEN f.end > g.end ELSE factDurationDays(f) > factDurationDays(g)

betterDurationFact(f, g) ==
    IF f.end # g.end THEN f.end > g.end
    ELSE LET days == factDurationDays(f)
             other == factDurationDays(g)
         IN  IF days > 0 /\ other > 0 /\ days # other THEN days < other ELSE After(f, g)

NoFacts == [instant |-> NoFact, duration |-> NoFact]

selectFact(a, f) ==
    [instant |-> IF f.start = NoDay /\ f.valid /\ (a.instant = NoFact \/ After(f, a.instant))
                 THEN f ELSE a.instant,
     duration |-> IF f.start # NoDay /\ f.valid /\ (a.duration = NoFact \/ betterDurationFact(f, a.duration))
                  THEN f ELSE a.duration]

-----------------------------------------------------------------------------
(* DecodeCoreWriterRawActions: the logs of a receipt *)

\* A hash or a number is 0 where the node leaves it out. The receipt's are 1.
ReceiptOf(hash) == [tx |-> 1, block |-> 1, hash |-> hash]
Actions == {"known", "unknown", "notCanonical", "short", "version"}
Logs == [core : {TRUE}, removed : {FALSE}, topics : {"rawAction"}, tx : 0..2, block : 0..2, hash : 0..2, raw : {"known", "notCanonical"}]
          \union [core : {TRUE}, removed : BOOLEAN, topics : {"rawAction", "other", "dirtyUser"},
                  tx : {0, 1}, block : {1}, hash : {1}, raw : Actions]
          \union [core : {FALSE}, removed : {FALSE}, topics : {"rawAction"}, tx : {1, 2}, block : {1}, hash : {1}, raw : {"known"}]

\* An id that is not known keeps its payload; one that is known must be canonical.
DecodeCoreWriterAction(raw) == raw \in {"known", "unknown"}
DecodeCoreWriterRawActionLog(log) ==
    log.core /\ ~log.removed /\ log.topics = "rawAction" /\ DecodeCoreWriterAction(log.raw)

Agrees(log, receipt) ==
    /\ log.tx \in {0, receipt.tx}
    /\ log.block \in {0, receipt.block}
    /\ log.hash = 0 \/ receipt.hash = 0 \/ log.hash = receipt.hash

Or(x, y) == IF x = 0 THEN y ELSE x
Completed(log, receipt, index) ==
    [index |-> index, raw |-> log.raw, tx |-> Or(log.tx, receipt.tx),
     block |-> Or(log.block, receipt.block), hash |-> Or(log.hash, receipt.hash)]

NoActions(hash) == [receipt |-> ReceiptOf(hash), actions |-> <<>>, errs |-> <<>>]

\* Fault: the first malformed log ends the loop.
decodeLogUntilError(a, log, index) ==
    IF ~log.core THEN a
    ELSE IF Agrees(log, a.receipt) /\ DecodeCoreWriterRawActionLog(log) /\ a.errs = <<>>
    THEN [a EXCEPT !.actions = Append(@, Completed(log, a.receipt, index))]
    ELSE [a EXCEPT !.errs = Append(@, index)]

decodeLog(a, log, index) ==
    IF ~log.core THEN a
    ELSE IF Agrees(log, a.receipt) /\ DecodeCoreWriterRawActionLog(log)
    THEN [a EXCEPT !.actions = Append(@, Completed(log, a.receipt, index))]
    ELSE [a EXCEPT !.errs = Append(@, index)]

-----------------------------------------------------------------------------
EvidenceInit ==
    /\ read = <<>>
    /\ \/ task = "rates" /\ acc = NoRates
       \/ task = "facts" /\ acc = NoFacts
       \/ task = "logs" /\ acc \in {NoActions(0), NoActions(1)}

Read(x) == Len(read) < MaxRead[task] /\ read' = Append(read, x) /\ UNCHANGED task

decodeRates == task = "rates" /\ \E row \in Rows : Read(row) /\ acc' = decodeRow(acc, row)
latestFacts == task = "facts" /\ \E f \in Facts : Read(f) /\ acc' = selectFact(acc, f)
DecodeCoreWriterRawActions ==
    task = "logs" /\ \E log \in Logs : Read(log) /\ acc' = decodeLog(acc, log, Len(read) + 1)

EvidenceNext == decodeRates \/ latestFacts \/ DecodeCoreWriterRawActions

EvidenceSpec == EvidenceInit /\ [][EvidenceNext]_evidenceVars

-----------------------------------------------------------------------------
(* Properties *)

\* "A conflicting pair must not invalidate unrelated currencies", nor be believed again
\* by a third row: a rate is kept exactly if one row of the response names its day and
\* currency, and that row's rate is positive.
RatesAreUnambiguous ==
    task = "rates" =>
        LET naming(p) == {i \in DOMAIN read : Concerns(read[i]) /\ Pair(read[i]) = p}
            kept == {p \in {Pair(row) : row \in {r \in Range(read) : Concerns(r)}} :
                        /\ Cardinality(naming(p)) = 1
                        /\ \A i \in naming(p) : read[i].rate > 0}
        IN  /\ DOMAIN acc.rates = kept
            /\ \A p \in kept : \A i \in naming(p) : acc.rates[p] = read[i].rate

\* Whatever the order of the facts, the instant fact is one that no other instant comes
\* after, and the duration fact ends last. If the starts of those that end last can all
\* be counted from, it is a shortest of them, and of these one filed last
\* (latestInstantFact, latestDurationFact).
FactsAreLatest ==
    task = "facts" =>
        LET instants == {f \in Range(read) : f.start = NoDay /\ f.valid}
            durations == {f \in Range(read) : f.start # NoDay /\ f.valid}
            last == {f \in durations : \A g \in durations : g.end <= f.end}
            days == factDurationDays(acc.duration)
        IN  /\ IF instants = {} THEN acc.instant = NoFact
               ELSE acc.instant \in instants /\ \A f \in instants : ~After(f, acc.instant)
            /\ IF durations = {} THEN acc.duration = NoFact ELSE acc.duration \in last
            /\ (\A f \in last : factDurationDays(f) > 0) =>
                 \A f \in last :
                    \/ factDurationDays(f) > days
                    \/ factDurationDays(f) = days /\ f.filed <= acc.duration.filed

\* "one bad occurrence does not discard other evidence": every CoreWriter log of the
\* receipt is an action or an error, once and in order, and the actions are exactly the
\* well-formed logs that contradict nothing the receipt says.
NoEvidenceIsLost ==
    task = "logs" =>
        LET core == {i \in DOMAIN read : read[i].core}
            taken == {acc.actions[i].index : i \in DOMAIN acc.actions}
        IN  /\ taken \union Range(acc.errs) = core
            /\ Len(acc.actions) + Len(acc.errs) = Cardinality(core)
            /\ \A i, j \in DOMAIN acc.actions : i < j => acc.actions[i].index < acc.actions[j].index
            /\ \A i \in core :
                 i \in taken <=>
                    /\ ~read[i].removed /\ read[i].topics = "rawAction" /\ read[i].raw \in {"known", "unknown"}
                    /\ read[i].tx # 2 /\ read[i].block # 2
                    /\ acc.receipt.hash = 0 \/ read[i].hash \in {0, acc.receipt.hash}

=============================================================================
