----------------------------- MODULE TickerTable -----------------------------
(***************************************************************************)
(* sec's ResolveCIK: callers share a table of tickers that the first of    *)
(* them loads, holding the mutex while it does.                            *)
(***************************************************************************)
EXTENDS Integers, FiniteSets

CONSTANTS
    Resolvers,      \* concurrent callers
    Tickers,        \* tickers callers ask for
    MaxResolves     \* bound on the calls made

VARIABLES
    tickers,        \* the table, or Nil
    mutex,          \* who holds tickersMu
    resolver,       \* the progress of each caller: [pc, ticker]
    loads,          \* ghost: the tables that were loaded
    resolves        \* calls made

tableVars == <<tickers, mutex, resolver, loads, resolves>>

Nil == {"nil"}
Free == "free"

\* No table is Nil and no caller is Free.
ASSUME TableConstants == ~(Nil \subseteq Tickers) /\ Free \notin Resolvers

TableInit ==
    /\ tickers = Nil /\ mutex = Free /\ loads = {} /\ resolves = 0
    /\ resolver = [r \in Resolvers |-> [pc |-> "idle", ticker |-> ""]]

ResolverGoto(r, pc) == resolver' = [resolver EXCEPT ![r].pc = pc]

ResolveCIK(r) ==
    /\ resolver[r].pc = "idle" /\ resolves < MaxResolves
    /\ \E t \in Tickers : resolver' = [resolver EXCEPT ![r] = [pc |-> "lock", ticker |-> t]]
    /\ resolves' = resolves + 1
    /\ UNCHANGED <<tickers, mutex, loads>>

Lock(r) ==
    /\ resolver[r].pc = "lock" /\ mutex = Free
    /\ mutex' = r
    /\ ResolverGoto(r, IF tickers = Nil THEN "load" ELSE IF resolver[r].ticker \in tickers THEN "found" ELSE "unknown")
    /\ UNCHANGED <<tickers, loads, resolves>>

\* GetCompanyTickers succeeds: the table is kept for the lifetime of the client.
Loaded(r) ==
    /\ resolver[r].pc = "load"
    /\ \E loaded \in SUBSET Tickers :
          /\ tickers' = loaded
          /\ loads' = loads \union {<<r, resolves, loaded>>}
          /\ ResolverGoto(r, IF resolver[r].ticker \in loaded THEN "found" ELSE "unknown")
    /\ UNCHANGED <<mutex, resolves>>

\* Fault: a failed load is an empty table for this call.
LoadFailedUnknown(r) ==
    /\ resolver[r].pc = "load"
    /\ ResolverGoto(r, "unknown")
    /\ UNCHANGED <<tickers, mutex, loads, resolves>>

\* It fails, or the caller's context ends: there is still no table.
LoadFailed(r) ==
    /\ resolver[r].pc = "load"
    /\ ResolverGoto(r, "error")
    /\ UNCHANGED <<tickers, mutex, loads, resolves>>

\* The deferred Unlock
Returns(r) ==
    /\ resolver[r].pc \in {"found", "unknown", "error"}
    /\ mutex' = Free
    /\ ResolverGoto(r, "idle")
    /\ UNCHANGED <<tickers, loads, resolves>>

TableStep(r) == Lock(r) \/ Loaded(r) \/ LoadFailed(r) \/ Returns(r)
TableNext == \E r \in Resolvers : ResolveCIK(r) \/ TableStep(r)

TableSpec == TableInit /\ [][TableNext]_tableVars

-----------------------------------------------------------------------------
(* Properties *)

\* "Mappings are cached for the lifetime of the client": the table is loaded at most
\* once, however many callers find it missing and however often loading failed before.
LoadedAtMostOnce == Cardinality(loads) <= 1

\* ErrTickerNotFound is the table's answer, never a failed load's, which is an error of
\* its own that the next caller does not inherit.
UnknownIsTheTablesAnswer ==
    \A r \in Resolvers : resolver[r].pc = "unknown" => tickers # Nil /\ resolver[r].ticker \notin tickers
=============================================================================
