---------------------------- MODULE ShareSession ----------------------------
(***************************************************************************)
(* yahoo's GetShareStatistics: concurrent callers share one session, a     *)
(* crumb with a generation. A caller whose crumb is refused asks once for  *)
(* a newer session; one caller at a time fetches it and the others wait.   *)
(***************************************************************************)
EXTENDS Integers, Sequences, FiniteSets

CONSTANTS
    Users,          \* concurrent callers
    MaxRevoked,     \* bound on the crumbs the provider revokes
    MaxFailures     \* bound on the session fetches that fail

VARIABLES
    session,        \* [crumb, generation]; crumb: whether there is one
    pending,        \* the fetch that callers may wait for, or NoFetch
    fetches,        \* the outcomes of the fetches made: [done, session, ok]
    user,           \* the progress of each caller
    revoked         \* the generations whose crumb the provider refuses

shareVars == <<session, pending, fetches, user, revoked>>

NoFetch == 0
NoSession == [crumb |-> FALSE, generation |-> 0]

NewCall == [pc |-> "session", attempt |-> 1, rejected |-> 0, session |-> NoSession,
            fetch |-> NoFetch, cancelled |-> FALSE]

ShareInit ==
    /\ session = NoSession
    /\ pending = NoFetch
    /\ fetches = <<>>
    /\ user = [u \in Users |-> NewCall]
    /\ revoked = {}

EndCall(u, end) == user' = [user EXCEPT ![u] = [NewCall EXCEPT !.pc = end]]
Failed == {f \in DOMAIN fetches : fetches[f].done /\ ~fetches[f].ok}

HaveSession(u, ok, s) ==
    IF ok THEN user' = [user EXCEPT ![u].pc = "request", ![u].session = s] ELSE EndCall(u, "failed")

\* A context that is done ends the call before the session is looked at.
CancelledAtOnce(u) ==
    /\ user[u].pc = "session" /\ user[u].cancelled
    /\ EndCall(u, "failed")
    /\ UNCHANGED <<session, pending, fetches, revoked>>

\* Fault: the session is used whoever rejected it.
UsableAnyway(u) == session.crumb

\* The session there is, unless it is the one that was rejected
Usable(u) == session.crumb /\ session.generation # user[u].rejected
TakeSession(u) ==
    /\ user[u].pc = "session" /\ Usable(u)
    /\ user' = [user EXCEPT ![u].pc = "request", ![u].session = session]
    /\ UNCHANGED <<session, pending, fetches, revoked>>

JoinPending(u) ==
    /\ user[u].pc = "session" /\ ~Usable(u) /\ pending # NoFetch
    /\ user' = [user EXCEPT ![u].pc = "wait", ![u].fetch = pending]
    /\ UNCHANGED <<session, pending, fetches, revoked>>

\* No session and nobody fetches one: this caller does, and the crumb is forgotten.
LeadFetch(u) ==
    /\ user[u].pc = "session" /\ ~Usable(u) /\ pending = NoFetch
    /\ pending' = Len(fetches) + 1
    /\ fetches' = Append(fetches, [done |-> FALSE, session |-> NoSession, ok |-> FALSE])
    /\ session' = [session EXCEPT !.crumb = FALSE]
    /\ user' = [user EXCEPT ![u].pc = "fetch", ![u].fetch = Len(fetches) + 1]
    /\ UNCHANGED revoked

\* fetchShareSession: the cookie, then the crumb, each of which may fail; the second
\* critical section publishes the outcome and wakes the waiters. fetchShareSession
\* succeeds only when both requests do.
fetchShareSession(u) ==
    {ok \in BOOLEAN : (ok /\ ~user[u].cancelled) \/ (~ok /\ (user[u].cancelled \/ Cardinality(Failed) < MaxFailures))}
Publish(u) ==
    /\ user[u].pc = "fetch"
    /\ \E ok \in fetchShareSession(u) :
         LET after == IF ok THEN [crumb |-> TRUE, generation |-> session.generation + 1] ELSE session
         IN  /\ session' = after
             /\ fetches' = [fetches EXCEPT ![user[u].fetch] = [done |-> TRUE, session |-> after, ok |-> ok]]
             /\ pending' = NoFetch
             /\ HaveSession(u, ok, after)
    /\ UNCHANGED revoked

\* A waiter takes the outcome of the fetch it waited for, its error included.
WaitOver(u) ==
    /\ user[u].pc = "wait" /\ fetches[user[u].fetch].done
    /\ HaveSession(u, fetches[user[u].fetch].ok, fetches[user[u].fetch].session)
    /\ UNCHANGED <<session, pending, fetches, revoked>>

WaitCancelled(u) ==
    /\ user[u].pc = "wait" /\ user[u].cancelled
    /\ EndCall(u, "failed")
    /\ UNCHANGED <<session, pending, fetches, revoked>>

\* The request with the crumb is answered and decoded.
Served(u) ==
    /\ user[u].pc = "request" /\ user[u].session.generation \notin revoked
    /\ EndCall(u, "ok")
    /\ UNCHANGED <<session, pending, fetches, revoked>>

\* It fails for another reason than its crumb.
RequestFailed(u) ==
    /\ user[u].pc = "request"
    /\ EndCall(u, "failed")
    /\ UNCHANGED <<session, pending, fetches, revoked>>

\* 401: a newer session on the first attempt, an error on the second
Unauthorized(u) ==
    /\ user[u].pc = "request" /\ user[u].session.generation \in revoked
    /\ IF user[u].attempt = 1
       THEN user' = [user EXCEPT ![u] = [NewCall EXCEPT !.attempt = 2, !.rejected = user[u].session.generation,
                                                        !.cancelled = user[u].cancelled]]
       ELSE EndCall(u, "failed")
    /\ UNCHANGED <<session, pending, fetches, revoked>>

\* The caller returns and calls again, with a context of its own.
CallAgain(u) ==
    /\ user[u].pc \in {"ok", "failed"}
    /\ user' = [user EXCEPT ![u] = NewCall]
    /\ UNCHANGED <<session, pending, fetches, revoked>>

\* The environment
Revoke ==
    /\ Cardinality(revoked) < MaxRevoked
    /\ session.generation > 0 /\ session.generation \notin revoked
    /\ revoked' = revoked \union {session.generation}
    /\ UNCHANGED <<session, pending, fetches, user>>

\* A cancelled leader makes the fetch fail, so the bound on failures counts it.
CancelUser(u) ==
    /\ user[u].pc \in {"session", "wait", "fetch"} /\ ~user[u].cancelled
    /\ Cardinality(Failed) + Cardinality({v \in Users : user[v].cancelled}) < MaxFailures
    /\ user' = [user EXCEPT ![u].cancelled = TRUE]
    /\ UNCHANGED <<session, pending, fetches, revoked>>

UserStep(u) ==
    \/ CancelledAtOnce(u) \/ TakeSession(u) \/ JoinPending(u) \/ LeadFetch(u) \/ Publish(u)
    \/ WaitOver(u) \/ WaitCancelled(u) \/ Served(u) \/ RequestFailed(u) \/ Unauthorized(u)

ShareNext == Revoke \/ \E u \in Users : UserStep(u) \/ CallAgain(u) \/ CancelUser(u)

ShareSpec == ShareInit /\ [][ShareNext]_shareVars

-----------------------------------------------------------------------------
(* Properties *)

\* A caller whose crumb was refused is not handed that crumb again, whether it takes
\* the session there is, waits for another caller's fetch or fetches one itself.
RefusedCrumbIsNotReused ==
    \A u \in Users : user[u].pc = "request" => user[u].session.crumb /\ user[u].session.generation # user[u].rejected

\* One fetch at a time, and the fetch that callers wait for is the one under way.
OneFetchUnderWay ==
    /\ \A u, v \in Users : user[u].pc = "fetch" /\ user[v].pc = "fetch" => u = v
    /\ \A u \in Users : user[u].pc = "fetch" => pending = user[u].fetch /\ ~fetches[pending].done
    /\ pending # NoFetch => \E u \in Users : user[u].pc = "fetch" /\ user[u].fetch = pending

=============================================================================
