------------------------------- MODULE Clients -------------------------------
(***************************************************************************)
(* The clients of the library, one part at a time: the calls of provider   *)
(* operations, the caches and the session that concurrent callers share,   *)
(* and the submission of transactions.                                     *)
(***************************************************************************)
EXTENDS ProviderCall, RateCache, ShareSession, TickerTable, Submission

VARIABLE focus      \* the part that runs

allVars == <<focus, vars, rateVars, shareVars, tableVars, submitVars>>

AnyOperation == CHOOSE o \in Operations : TRUE

ClientsInit ==
    /\ focus \in {"calls", "rates", "share", "table", "submit"}
    /\ Init /\ (focus # "calls" => op = AnyOperation)
    /\ RatesInit /\ ShareInit /\ TableInit /\ SubmitInit

\* A step of one part leaves the others alone.
Within(part) ==
    /\ focus = part /\ UNCHANGED focus
    /\ part # "calls" => UNCHANGED vars
    /\ part # "rates" => UNCHANGED rateVars
    /\ part # "share" => UNCHANGED shareVars
    /\ part # "table" => UNCHANGED tableVars
    /\ part # "submit" => UNCHANGED submitVars

ClientsNext ==
    \/ Within("calls") /\ Next
    \/ Within("rates") /\ RatesNext
    \/ Within("share") /\ ShareNext
    \/ Within("table") /\ TableNext
    \/ Within("submit") /\ SubmitNext

ClientsSpec == ClientsInit /\ [][ClientsNext]_allVars
=============================================================================
