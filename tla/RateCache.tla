------------------------------ MODULE RateCache ------------------------------
(***************************************************************************)
(* frankfurter's GetRate: callers that share a cache of daily rates, a     *)
(* cache of failed months and a gate that admits one request at a time.    *)
(* One base currency; a rate is known by its date, its value left out.     *)
(* Its field until is only for a property: when the failure that a         *)
(* fallback stands in for is over.                                         *)
(***************************************************************************)
EXTENDS Integers, Sequences, FiniteSets, Functions

CONSTANTS
    RateCallers, Quotes,
    Half,           \* ticks of the clock per day
    LastTick,       \* bound on the clock
    MonthDays,      \* days per month
    MaxStaleness,   \* maxStaleness, in days
    FailureTTL,     \* failureTTL, in ticks
    MaxCacheDays,   \* maxCacheDays
    MaxCalls        \* bound on the calls made

VARIABLES
    now,            \* the clock
    ratesByDate,    \* [day -> [quote -> rate]], both partial
    storedAt,       \* the days of ratesByDate, least recently stored first
    failures,       \* [month -> retryAfter], partial
    gate,           \* who holds fetchGate
    caller,         \* the progress of each caller
    calls           \* calls made

rateVars == <<now, ratesByDate, storedAt, failures, gate, caller, calls>>

Nobody == "nobody"

\* A day has at least one tick, and no caller is Nobody.
ASSUME RateConstants ==
    /\ Half \in Nat \ {0} /\ LastTick \in Nat /\ MonthDays \in Nat \ {0}
    /\ MaxStaleness \in Nat /\ FailureTTL \in Nat
    /\ Nobody \notin RateCallers

Forever == LastTick + 1
Rate(date, stale, until) == [date |-> date, stale |-> stale, until |-> until]
NoRate == Rate(-1, FALSE, 0)
Days == 0..(LastTick \div Half)
Today == now \div Half
Month(day) == day \div MonthDays
IdleCaller == [pc |-> "idle", day |-> 0, quote |-> "", cancelled |-> FALSE,
         until |-> Forever, rate |-> NoRate]

RatesInit ==
    /\ now = Half /\ calls = 0
    /\ ratesByDate = <<>> /\ storedAt = <<>> /\ failures = <<>>
    /\ gate = Nobody
    /\ caller = [c \in RateCallers |-> IdleCaller]

CallerGoto(c, pc) == caller' = [caller EXCEPT ![c].pc = pc]
ReturnRate(c, rate) == caller' = [caller EXCEPT ![c].pc = "returned", ![c].rate = rate]
Without(f, x) == [y \in DOMAIN f \ {x} |-> f[y]]
Updated(f, x, v) == [y \in DOMAIN f \union {x} |-> IF y = x THEN v ELSE f[y]]

-----------------------------------------------------------------------------
(* The caches *)

HasRate(day, quote) == day \in DOMAIN ratesByDate /\ quote \in DOMAIN ratesByDate[day]

\* cachedRate: whatever is stored under the day, a fallback included
cachedRate(day, quote) == IF HasRate(day, quote) THEN ratesByDate[day][quote] ELSE NoRate

\* Fault: the age of the day a rate is stored under, not of the rate, is looked at.
staleCandidatesByKey(day, quote) ==
    {ratesByDate[d][quote] : d \in {e \in DOMAIN ratesByDate :
        HasRate(e, quote) /\ e < day /\ day - e <= MaxStaleness}}

\* cachedStaleRate: of the rates of earlier days that are not too old, the latest
staleCandidates(day, quote) ==
    {ratesByDate[d][quote] : d \in {e \in DOMAIN ratesByDate :
        /\ HasRate(e, quote)
        /\ ratesByDate[e][quote].date < day
        /\ day - ratesByDate[e][quote].date <= MaxStaleness}}
Latest(dates) == CHOOSE d \in dates : \A e \in dates : e <= d
cachedStaleRate(day, quote, until) ==
    LET dates == {r.date : r \in staleCandidates(day, quote)}
    IN  IF MaxStaleness <= 0 \/ dates = {} THEN NoRate ELSE Rate(Latest(dates), TRUE, until)

Expired(month) == now >= failures[month]
Suppressed(day) == FailureTTL > 0 /\ Month(day) \in DOMAIN failures /\ ~Expired(Month(day))
\* cachedFailure deletes the failure it finds expired
DropExpired(day) ==
    failures' = IF FailureTTL > 0 /\ Month(day) \in DOMAIN failures /\ Expired(Month(day))
                THEN Without(failures, Month(day)) ELSE failures

\* storeFailure deletes every expired failure
storeFailure(day) ==
    failures' = IF FailureTTL <= 0 THEN failures
                ELSE Updated([m \in {k \in DOMAIN failures : ~Expired(k)} |-> failures[m]],
                             Month(day), now + FailureTTL)

\* storeRates: the days are stored in the order of a map iteration; then the least
\* recently stored days go until MaxCacheDays are left
storeRates(rates) ==
    \E days \in Bijection(1..Cardinality(DOMAIN rates), DOMAIN rates) :
        LET order == SelectSeq(storedAt, LAMBDA d : d \notin DOMAIN rates) \o days
            kept == IF Len(order) <= MaxCacheDays THEN order
                    ELSE SubSeq(order, Len(order) - MaxCacheDays + 1, Len(order))
            Cached(d) == IF d \in DOMAIN ratesByDate THEN ratesByDate[d] ELSE <<>>
            Fetched(d) == IF d \in DOMAIN rates THEN rates[d] ELSE <<>>
        IN  /\ storedAt' = kept
            /\ ratesByDate' = [d \in Range(kept) |->
                 [q \in DOMAIN Cached(d) \union DOMAIN Fetched(d) |->
                    IF q \in DOMAIN Fetched(d) THEN Fetched(d)[q] ELSE Cached(d)[q]]]

storeFallback(day, quote, rate) == storeRates([d \in {day} |-> [q \in {quote} |-> rate]])

-----------------------------------------------------------------------------
(* GetRate *)

\* A future date is today's.
effectiveDate(day) == IF day > Today THEN Today ELSE day

Call(c) ==
    /\ caller[c].pc = "idle" /\ calls < MaxCalls
    /\ calls' = calls + 1
    /\ \E day \in Days, quote \in Quotes :
          caller' = [caller EXCEPT ![c] = [IdleCaller EXCEPT !.pc = "lookup", !.day = effectiveDate(day), !.quote = quote]]
    /\ UNCHANGED <<now, ratesByDate, storedAt, failures, gate>>

\* The look into the rates before, and again behind, the gate
Lookup(c) ==
    /\ caller[c].pc \in {"lookup", "again"}
    /\ LET rate == cachedRate(caller[c].day, caller[c].quote)
       IN  IF rate # NoRate THEN ReturnRate(c, rate)
           ELSE CallerGoto(c, IF caller[c].pc = "lookup" THEN "failure" ELSE "failureAgain")
    /\ UNCHANGED <<now, ratesByDate, storedAt, failures, gate, calls>>

\* Fault: the failures are not looked at again behind the gate.
LookupFailureOnce(c) ==
    /\ caller[c].pc \in {"failure", "failureAgain"}
    /\ IF caller[c].pc = "failure" /\ Suppressed(caller[c].day) THEN CallerGoto(c, "stale")
       ELSE CallerGoto(c, IF caller[c].pc = "failure" THEN "gate" ELSE "fetch")
    /\ DropExpired(caller[c].day)
    /\ UNCHANGED <<now, ratesByDate, storedAt, gate, calls>>

\* The look into the failures before, and again behind, the gate
LookupFailure(c) ==
    /\ caller[c].pc \in {"failure", "failureAgain"}
    /\ IF Suppressed(caller[c].day)
       THEN caller' = [caller EXCEPT ![c].pc = "stale", ![c].until = failures[Month(caller[c].day)]]
       ELSE CallerGoto(c, IF caller[c].pc = "failure" THEN "gate" ELSE "fetch")
    /\ DropExpired(caller[c].day)
    /\ UNCHANGED <<now, ratesByDate, storedAt, gate, calls>>

EnterGate(c) ==
    /\ caller[c].pc = "gate" /\ gate = Nobody
    /\ gate' = c
    /\ CallerGoto(c, "again")
    /\ UNCHANGED <<now, ratesByDate, storedAt, failures, calls>>

GateCancelled(c) ==
    /\ caller[c].pc = "gate" /\ caller[c].cancelled
    /\ ReturnRate(c, NoRate)
    /\ UNCHANGED <<now, ratesByDate, storedAt, failures, gate, calls>>

\* What a response to fetchMonth decodes to: rates of the month up to today, and of
\* the days before that may still be used; a day whose rows contradict has none
MonthStart(day) == Month(day) * MonthDays
monthRange(day) ==
    {d \in Days : /\ MonthStart(day) - MaxStaleness <= d
                  /\ d <= MonthStart(day) + MonthDays - 1 /\ d <= Today}
decoded(days, quotes) == [d \in days |-> [q \in quotes |-> Rate(d, FALSE, Forever)]]
Responses(day) ==
    {decoded(days, quotes) : days \in SUBSET monthRange(day), quotes \in SUBSET Quotes}

Fetched(c) ==
    /\ caller[c].pc = "fetch" /\ ~caller[c].cancelled
    /\ \E rates \in Responses(caller[c].day) : storeRates(rates)
    /\ CallerGoto(c, "clear")
    /\ UNCHANGED <<now, failures, gate, calls>>

clearFailure(c) ==
    /\ caller[c].pc = "clear"
    /\ failures' = Without(failures, Month(caller[c].day))
    /\ CallerGoto(c, "fetched")
    /\ UNCHANGED <<now, ratesByDate, storedAt, gate, calls>>

\* A request that fails is remembered, unless it is the caller's context that ended.
FetchFailed(c) ==
    /\ caller[c].pc = "fetch"
    /\ IF caller[c].cancelled THEN failures' = failures ELSE storeFailure(caller[c].day)
    /\ caller' = [caller EXCEPT ![c].pc = "stale",
                               ![c].until = IF caller[c].cancelled THEN Forever ELSE now + FailureTTL]
    /\ UNCHANGED <<now, ratesByDate, storedAt, gate, calls>>

\* The look into the rates after a response
LookupFetched(c) ==
    /\ caller[c].pc = "fetched"
    /\ LET rate == cachedRate(caller[c].day, caller[c].quote)
       IN  IF rate # NoRate THEN ReturnRate(c, rate) ELSE CallerGoto(c, "stale")
    /\ UNCHANGED <<now, ratesByDate, storedAt, failures, gate, calls>>

\* cachedStaleRate, in staleRateOrError or after a response that lacks the day
LookupStale(c) ==
    /\ caller[c].pc = "stale"
    /\ LET rate == cachedStaleRate(caller[c].day, caller[c].quote, caller[c].until)
       IN  IF rate = NoRate THEN ReturnRate(c, NoRate)
           ELSE caller' = [caller EXCEPT ![c].pc = "fallback", ![c].rate = rate]
    /\ UNCHANGED <<now, ratesByDate, storedAt, failures, gate, calls>>

StoreFallback(c) ==
    /\ caller[c].pc = "fallback"
    /\ storeFallback(caller[c].day, caller[c].quote, caller[c].rate)
    /\ CallerGoto(c, "returned")
    /\ UNCHANGED <<now, failures, gate, calls>>

\* The deferred release, and the caller is done with the result.
Finish(c) ==
    /\ caller[c].pc = "returned"
    /\ gate' = IF gate = c THEN Nobody ELSE gate
    /\ caller' = [caller EXCEPT ![c] = IdleCaller]
    /\ UNCHANGED <<now, ratesByDate, storedAt, failures, calls>>

-----------------------------------------------------------------------------
(* The environment *)

Tick ==
    /\ now < LastTick
    /\ now' = now + 1
    /\ UNCHANGED <<ratesByDate, storedAt, failures, gate, caller, calls>>

CancelCaller(c) ==
    /\ caller[c].pc \in {"gate", "fetch"} /\ ~caller[c].cancelled
    /\ caller' = [caller EXCEPT ![c].cancelled = TRUE]
    /\ UNCHANGED <<now, ratesByDate, storedAt, failures, gate, calls>>

RateStep(c) ==
    \/ Lookup(c) \/ LookupFailure(c) \/ EnterGate(c) \/ GateCancelled(c)
    \/ Fetched(c) \/ clearFailure(c) \/ FetchFailed(c) \/ LookupFetched(c)
    \/ LookupStale(c) \/ StoreFallback(c) \/ Finish(c)

RatesNext == Tick \/ \E c \in RateCallers : Call(c) \/ RateStep(c) \/ CancelCaller(c)

RatesSpec == RatesInit /\ [][RatesNext]_rateVars

-----------------------------------------------------------------------------
(* Properties *)

\* A rate that is returned is not of a later day than the one asked for, nor older than
\* maxStaleness, and it says so if it is of an earlier day; a fallback that was stored
\* under a day and is found there, or found from a later day, included.
RateIsRecent ==
    \A c \in RateCallers :
        (caller[c].pc = "returned" /\ caller[c].rate # NoRate) =>
            /\ caller[c].rate.date <= caller[c].day
            /\ caller[c].day - caller[c].rate.date <= MaxStaleness
            /\ caller[c].rate.stale <=> caller[c].rate.date < caller[c].day

\* "WithFailureTTL sets how long a failed monthly request suppresses identical retries":
\* no request is made for a month while its failure is remembered, though callers that
\* looked before it failed wait at the gate.
FailureSuppressesRetries ==
    \A c \in RateCallers : caller[c].pc = "fetch" => ~Suppressed(caller[c].day)

\* "WithFailureTTL sets how long a failed monthly request suppresses identical
\* retries": once the failure that a fallback stood in for is over, a call does not
\* return that fallback without asking again. A fallback that stands in for a request
\* its caller cancelled, or for a day the response lacks, is not meant.
RetriedAfterFailureTTL ==
    [][\A c \in RateCallers :
        (Lookup(c) /\ caller'[c].pc = "returned" /\ caller'[c].rate.stale) => now < caller'[c].rate.until]_rateVars
=============================================================================
