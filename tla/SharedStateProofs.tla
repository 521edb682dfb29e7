-------------------------- MODULE SharedStateProofs --------------------------
(***************************************************************************)
(* What concurrent callers or replicas share, for any number of them: the  *)
(* session, the table of tickers, the table of submitted transactions and  *)
(* the outbox of notifications.                                            *)
(***************************************************************************)
EXTENDS ShareSession, TickerTable, Submission, Outbox, FiniteSetTheorems, TLAPS

-----------------------------------------------------------------------------
(* The shared session *)

UserStages == {"session", "wait", "fetch", "request", "ok", "failed"}
Sessions == [crumb : BOOLEAN, generation : Nat]
Fetches == [done : BOOLEAN, session : Sessions, ok : BOOLEAN]
UserStates == [pc : UserStages, attempt : 1..2, rejected : Nat, session : Sessions, fetch : Nat, cancelled : BOOLEAN]

ShareType ==
  /\ session \in Sessions /\ pending \in Nat
  /\ fetches \in Seq(Fetches)
  /\ user \in [Users -> UserStates]

\* Only the fetch that callers may join is under way, and its leader is one of them.
FetchInv ==
  /\ \A f \in DOMAIN fetches : ~fetches[f].done => f = pending
  /\ \A u \in Users : user[u].pc \in {"wait", "fetch"} => user[u].fetch \in DOMAIN fetches
  /\ OneFetchUnderWay

\* Generations only grow, so what a caller was refused is not newer than the session
\* there is, and what a fetch brings is newer than what those who wait for it were
\* refused. RefusedCrumbIsNotReused is the last line.
GenerationInv ==
  \A u \in Users :
    /\ user[u].rejected <= session.generation
    /\ user[u].pc = "wait" /\ fetches[user[u].fetch].done /\ fetches[user[u].fetch].ok =>
         /\ fetches[user[u].fetch].session.crumb
         /\ fetches[user[u].fetch].session.generation > user[u].rejected
         /\ fetches[user[u].fetch].session.generation <= session.generation
    /\ user[u].pc = "request" =>
         /\ user[u].session.generation <= session.generation
         /\ user[u].session.crumb /\ user[u].session.generation # user[u].rejected

ShareInv == ShareType /\ FetchInv /\ GenerationInv

LEMMA ShareStarts == ShareInit => ShareInv
<1> SUFFICES ASSUME ShareInit PROVE ShareInv  BY Zenon
<1>1. NewCall \in UserStates /\ NewCall.pc = "session" /\ NewCall.rejected = 0
  BY DEF NewCall, UserStates, UserStages, NoSession, Sessions, NoFetch
<1>2. ShareType  BY <1>1 DEF ShareInit, ShareType, NoSession, Sessions, NoFetch
<1>3. FetchInv  BY <1>1 DEF ShareInit, FetchInv, OneFetchUnderWay
<1>4. GenerationInv  BY <1>1 DEF ShareInit, GenerationInv, NoSession
<1>5. QED  BY <1>2, <1>3, <1>4, Zenon DEF ShareInv

\* A caller that moves without touching what is shared, and neither starts nor stops
\* waiting or fetching, needs to be right by itself only.
Alone(u, next) ==
  /\ user' = [user EXCEPT ![u] = next]
  /\ UNCHANGED <<session, pending, fetches>>

LEMMA AlonePreserves ==
  ASSUME ShareInv, NEW u \in Users, NEW next \in UserStates, Alone(u, next),
         user[u].pc # "fetch", next.pc # "fetch",
         next.pc = "wait" => next.fetch \in DOMAIN fetches,
         next.rejected <= session.generation,
         next.pc = "wait" /\ fetches[next.fetch].done /\ fetches[next.fetch].ok =>
           /\ fetches[next.fetch].session.crumb
           /\ fetches[next.fetch].session.generation > next.rejected
           /\ fetches[next.fetch].session.generation <= session.generation,
         next.pc = "request" =>
           /\ next.session.generation <= session.generation
           /\ next.session.crumb /\ next.session.generation # next.rejected
  PROVE  ShareInv'
<1>1. /\ user'[u] = next /\ \A v \in Users : v # u => user'[v] = user[v]
      /\ user' \in [Users -> UserStates]
      /\ session' = session /\ pending' = pending /\ fetches' = fetches
  BY Zenon DEF ShareInv, ShareType, Alone
<1>2. ShareType'  BY <1>1, Zenon DEF ShareInv, ShareType
<1>3. OneFetchUnderWay'  BY <1>1 DEF ShareInv, FetchInv, OneFetchUnderWay
<1>4. FetchInv'  BY <1>1, <1>3, Zenon DEF ShareInv, FetchInv
<1>5. GenerationInv'
  <2> SUFFICES ASSUME NEW v \in Users PROVE GenerationInv!(v)'  BY Zenon DEF GenerationInv
  <2>1. CASE v = u  BY <1>1, <2>1, Zenon
  <2>2. CASE v # u  BY <1>1, <2>2, Zenon DEF ShareInv, GenerationInv
  <2>3. QED  BY <2>1, <2>2, Zenon
<1>6. QED  BY <1>2, <1>4, <1>5, Zenon DEF ShareInv

\* A call that returns, or starts again
LEMMA UserReturns ==
  ASSUME ShareInv, NEW u \in Users, user[u].pc # "fetch", NEW end \in {"session", "ok", "failed"},
         user' = [user EXCEPT ![u] = [NewCall EXCEPT !.pc = end]],
         UNCHANGED <<session, pending, fetches>>
  PROVE  ShareInv'
<1> DEFINE next == [NewCall EXCEPT !.pc = end]
<1>1. next \in UserStates /\ next.pc = end /\ next.rejected = 0
  <2>1. NewCall \in UserStates /\ NewCall.rejected = 0
    BY DEF NewCall, UserStates, UserStages, NoSession, Sessions, NoFetch
  <2>2. end \in UserStages  BY Zenon DEF UserStages
  <2>3. QED  BY <2>1, <2>2, Zenon DEF UserStates
<1>2. Alone(u, next)  BY Zenon DEF Alone
<1>3. 0 <= session.generation  BY DEF ShareInv, ShareType, Sessions
<1> HIDE DEF next
<1>4. QED  BY <1>1, <1>2, <1>3, AlonePreserves, Zenon

LEMMA TakePreserves ==
  ASSUME ShareInv, NEW u \in Users, TakeSession(u)
  PROVE  ShareInv'
<1> DEFINE next == [user[u] EXCEPT !.pc = "request", !.session = session]
<1>1. user[u] \in UserStates /\ session \in Sessions  BY Zenon DEF ShareInv, ShareType
<1>2. next \in UserStates /\ next.pc = "request" /\ next.session = session /\ next.rejected = user[u].rejected
  BY <1>1, Zenon DEF UserStates, UserStages
<1>3. Alone(u, next)  BY Zenon DEF TakeSession, Alone
<1>4. session.crumb /\ session.generation # user[u].rejected /\ user[u].pc = "session"
  BY Zenon DEF TakeSession, Usable
<1>5. session.generation <= session.generation  BY <1>1 DEF Sessions
<1>6. user[u].rejected <= session.generation  BY Zenon DEF ShareInv, GenerationInv
<1> HIDE DEF next
<1>7. QED  BY <1>2, <1>3, <1>4, <1>5, <1>6, AlonePreserves, Zenon

\* Who joins waits for a fetch that is not done.
LEMMA JoinPreserves ==
  ASSUME ShareInv, NEW u \in Users, JoinPending(u)
  PROVE  ShareInv'
<1> DEFINE next == [user[u] EXCEPT !.pc = "wait", !.fetch = pending]
<1>1. user[u] \in UserStates /\ pending \in Nat  BY Zenon DEF ShareInv, ShareType
<1>2. next \in UserStates /\ next.pc = "wait" /\ next.fetch = pending /\ next.rejected = user[u].rejected
  BY <1>1, Zenon DEF UserStates, UserStages
<1>3. Alone(u, next) /\ pending # NoFetch /\ user[u].pc = "session"  BY Zenon DEF JoinPending, Alone
<1>4. pending \in DOMAIN fetches /\ ~fetches[pending].done
  BY <1>3, Zenon DEF ShareInv, FetchInv, OneFetchUnderWay
<1>5. user[u].rejected <= session.generation  BY Zenon DEF ShareInv, GenerationInv
<1> HIDE DEF next
<1>6. QED  BY <1>2, <1>3, <1>4, <1>5, AlonePreserves, Zenon

LEMMA WaitOverPreserves ==
  ASSUME ShareInv, NEW u \in Users, WaitOver(u)
  PROVE  ShareInv'
<1> DEFINE f == user[u].fetch
<1>1. user[u].pc = "wait" /\ fetches[f].done /\ UNCHANGED <<session, pending, fetches>>  BY Zenon DEF WaitOver
<1>2. CASE fetches[f].ok
  <2> DEFINE next == [user[u] EXCEPT !.pc = "request", !.session = fetches[f].session]
  <2>1. user[u] \in UserStates /\ f \in DOMAIN fetches /\ fetches[f] \in Fetches
    BY <1>1 DEF ShareInv, ShareType, FetchInv
  <2>2. /\ next \in UserStates /\ next.pc = "request" /\ next.session = fetches[f].session
        /\ next.rejected = user[u].rejected
    BY <2>1, Zenon DEF UserStates, UserStages, Fetches
  <2>3. Alone(u, next)  BY <1>1, <1>2, Zenon DEF WaitOver, HaveSession, Alone
  <2>4. /\ fetches[f].session.crumb /\ fetches[f].session.generation > user[u].rejected
        /\ fetches[f].session.generation <= session.generation
        /\ user[u].rejected <= session.generation
    BY <1>1, <1>2, Zenon DEF ShareInv, GenerationInv
  <2>5. fetches[f].session.generation # user[u].rejected
    BY <2>1, <2>4 DEF Fetches, Sessions, UserStates
  <2> HIDE DEF next
  <2>6. QED  BY <1>1, <2>2, <2>3, <2>4, <2>5, AlonePreserves, Zenon
<1>3. CASE ~fetches[f].ok
  BY <1>1, <1>3, UserReturns, Zenon DEF WaitOver, HaveSession, EndCall
<1>4. QED  BY <1>2, <1>3, Zenon

\* Nobody fetches while pending is NoFetch, so the new leader is the only one.
LEMMA LeadPreserves ==
  ASSUME ShareInv, NEW u \in Users, LeadFetch(u)
  PROVE  ShareInv'
<1> DEFINE f == Len(fetches) + 1
           started == [done |-> FALSE, session |-> NoSession, ok |-> FALSE]
<1>1. /\ pending = NoFetch /\ pending' = f /\ fetches' = Append(fetches, started)
      /\ session' = [session EXCEPT !.crumb = FALSE]
      /\ user' = [user EXCEPT ![u].pc = "fetch", ![u].fetch = f] /\ user[u].pc = "session"
  BY Zenon DEF LeadFetch
<1>2. started \in Fetches /\ started.done = FALSE  BY Zenon DEF Fetches, NoSession, Sessions
<1> HIDE DEF started
<1>3. /\ f \in Nat /\ f # NoFetch /\ fetches' \in Seq(Fetches) /\ DOMAIN fetches' = DOMAIN fetches \cup {f}
      /\ fetches'[f] = started /\ \A g \in DOMAIN fetches : fetches'[g] = fetches[g] /\ g # f
  BY <1>1, <1>2 DEF ShareInv, ShareType, NoFetch
<1>4. session \in Sessions /\ session' \in Sessions /\ session'.generation = session.generation
  BY <1>1, Zenon DEF ShareInv, ShareType, Sessions
<1> HIDE DEF f
<1>5. /\ user'[u].pc = "fetch" /\ user'[u].fetch = f /\ user'[u].rejected = user[u].rejected
      /\ user' \in [Users -> UserStates] /\ \A v \in Users : v # u => user'[v] = user[v]
  BY <1>1, <1>3, ZenonT(40) DEF ShareInv, ShareType, UserStates, UserStages
<1>6. \A v \in Users : user[v].pc # "fetch"
  BY <1>1 DEF ShareInv, ShareType, FetchInv, OneFetchUnderWay, NoFetch
<1>7. ShareType'  BY <1>1, <1>3, <1>4, <1>5, Zenon DEF ShareType
<1>8. OneFetchUnderWay'
  BY <1>1, <1>2, <1>3, <1>5, <1>6, Zenon DEF OneFetchUnderWay
<1>9. FetchInv'
  <2>1. \A g \in DOMAIN fetches : fetches[g].done
    BY <1>1 DEF ShareInv, ShareType, FetchInv, NoFetch
  <2>2. QED  BY <1>1, <1>3, <1>5, <1>8, <2>1, Zenon DEF ShareInv, FetchInv
<1>10. GenerationInv'
  <2> SUFFICES ASSUME NEW v \in Users PROVE GenerationInv!(v)'  BY Zenon DEF GenerationInv
  <2>1. CASE v = u  BY <1>4, <1>5, <2>1, Zenon DEF ShareInv, GenerationInv
  <2>2. CASE v # u
    <3>1. user'[v] = user[v] /\ GenerationInv!(v)  BY <1>5, <2>2, Zenon DEF ShareInv, GenerationInv
    <3>2. user[v].pc = "wait" => fetches'[user[v].fetch] = fetches[user[v].fetch]
      BY <1>3, Zenon DEF ShareInv, FetchInv
    <3>3. QED  BY <1>4, <3>1, <3>2, Zenon
  <2>3. QED  BY <2>1, <2>2, Zenon
<1>11. QED  BY <1>7, <1>9, <1>10, Zenon DEF ShareInv

\* The generation that is published is newer than what any waiter was refused.
LEMMA PublishPreserves ==
  ASSUME ShareInv, NEW u \in Users, Publish(u)
  PROVE  ShareInv'
<1> DEFINE f == user[u].fetch
<1>1. PICK ok \in BOOLEAN :
        LET after == IF ok THEN [crumb |-> TRUE, generation |-> session.generation + 1] ELSE session
        IN  /\ session' = after
            /\ fetches' = [fetches EXCEPT ![f] = [done |-> TRUE, session |-> after, ok |-> ok]]
            /\ pending' = NoFetch
            /\ HaveSession(u, ok, after)
  BY Zenon DEF Publish, fetchShareSession
<1>2. session \in Sessions /\ session' \in Sessions /\ session'.generation >= session.generation
  BY <1>1 DEF ShareInv, ShareType, Sessions
<1>3. ok => session'.crumb /\ session'.generation > session.generation
  BY <1>1 DEF ShareInv, ShareType, Sessions
<1>4. user[u].pc = "fetch" /\ f \in DOMAIN fetches /\ f = pending
  BY Zenon DEF Publish, ShareInv, FetchInv, OneFetchUnderWay
<1>5. /\ fetches' \in Seq(Fetches) /\ DOMAIN fetches' = DOMAIN fetches
      /\ fetches'[f] = [done |-> TRUE, session |-> session', ok |-> ok]
      /\ \A g \in DOMAIN fetches : g # f => fetches'[g] = fetches[g]
  <2>1. fetches' = [fetches EXCEPT ![f] = [done |-> TRUE, session |-> session', ok |-> ok]]  BY <1>1, Zenon
  <2>2. [done |-> TRUE, session |-> session', ok |-> ok] \in Fetches  BY <1>2, Zenon DEF Fetches
  <2>3. fetches \in Seq(Fetches)  BY Zenon DEF ShareInv, ShareType
  <2>4. QED  BY <1>4, <2>1, <2>2, <2>3
<1>6. \A v \in Users : v # u => user'[v] = user[v]
  BY <1>1, Zenon DEF ShareInv, ShareType, HaveSession, EndCall
<1>7. /\ user'[u] \in UserStates /\ user'[u].pc \in {"request", "failed"}
      /\ user'[u].rejected \in {0, user[u].rejected}
      /\ user'[u].pc = "request" => user'[u].session = session' /\ ok /\ user'[u].rejected = user[u].rejected
  <2>1. CASE ok
    <3>1. user'[u] = [user[u] EXCEPT !.pc = "request", !.session = session']
      BY <1>1, <2>1, Zenon DEF HaveSession, ShareInv, ShareType
    <3>2. user[u] \in UserStates  BY Zenon DEF ShareInv, ShareType
    <3>3. QED  BY <1>2, <2>1, <3>1, <3>2, Zenon DEF UserStates, UserStages
  <2>2. CASE ~ok
    <3>1. user'[u] = [NewCall EXCEPT !.pc = "failed"]
      BY <1>1, <2>2, Zenon DEF HaveSession, EndCall, ShareInv, ShareType
    <3>2. NewCall \in UserStates /\ NewCall.rejected = 0
      BY DEF NewCall, UserStates, UserStages, NoSession, Sessions, NoFetch
    <3>3. QED  BY <3>1, <3>2, Zenon DEF UserStates, UserStages
  <2>3. QED  BY <2>1, <2>2, Zenon
<1>8. user' \in [Users -> UserStates]
  <2>1. DOMAIN user' = Users  BY <1>1, Zenon DEF ShareInv, ShareType, HaveSession, EndCall
  <2>2. user' = [v \in Users |-> user'[v]]
    BY <1>1, <2>1, Zenon DEF ShareInv, ShareType, HaveSession, EndCall
  <2>3. QED  BY <1>6, <1>7, <2>2, Zenon DEF ShareInv, ShareType
<1>9. ShareType'  BY <1>1, <1>2, <1>5, <1>8, Zenon DEF ShareType, NoFetch
<1>10. \A v \in Users : user'[v].pc # "fetch"
  BY <1>4, <1>6, <1>7, Zenon DEF ShareInv, FetchInv, OneFetchUnderWay
<1>11. OneFetchUnderWay'  BY <1>1, <1>10, Zenon DEF OneFetchUnderWay
<1>12. FetchInv'
  BY <1>4, <1>5, <1>6, <1>7, <1>11 DEF ShareInv, FetchInv
<1>13. GenerationInv'
  <2> SUFFICES ASSUME NEW v \in Users PROVE GenerationInv!(v)'  BY Zenon DEF GenerationInv
  <2>1. user[v].rejected \in Nat /\ user[v].rejected <= session.generation
    BY Zenon DEF ShareInv, ShareType, UserStates, GenerationInv
  <2>2. session.generation \in Nat /\ session'.generation \in Nat  BY <1>2, Zenon DEF Sessions
  <2>3. CASE v = u
    BY <1>2, <1>3, <1>7, <2>1, <2>2, <2>3
  <2>4. CASE v # u
    <3>1. user'[v] = user[v] /\ user[v] \in UserStates  BY <1>6, <2>4, Zenon DEF ShareInv, ShareType
    <3>2. user'[v].rejected <= session'.generation  BY <1>2, <2>1, <2>2, <3>1
    <3>3. user[v].pc = "request" => user[v].session.generation <= session'.generation
      BY <1>2, <2>2, <3>1 DEF ShareInv, GenerationInv, UserStates, Sessions
    <3>4. CASE user[v].pc = "wait" /\ user[v].fetch = f
      <4>1. fetches'[f].ok = ok /\ fetches'[f].session = session'  BY <1>5
      <4>2. ok => /\ session'.crumb /\ session'.generation > user[v].rejected
        BY <1>3, <2>1, <2>2
      <4>3. user'[v].fetch = f /\ user'[v].pc = "wait" /\ user'[v].rejected = user[v].rejected
        BY <3>1, <3>4, Zenon
      <4> HIDE DEF f
      <4>4. QED  BY <2>2, <3>2, <4>1, <4>2, <4>3
    <3>5. CASE user[v].pc = "wait" /\ user[v].fetch # f
      <4> DEFINE g == user[v].fetch
      <4>1. g \in DOMAIN fetches  BY <3>5, Zenon DEF ShareInv, FetchInv
      <4>2. fetches'[g] = fetches[g]  BY <1>5, <3>5, <4>1, Zenon
      <4>3. fetches[g] \in Fetches  BY <4>1 DEF ShareInv, ShareType
      <4>4. GenerationInv!(v)  BY Zenon DEF ShareInv, GenerationInv
      <4>5. fetches[g].done /\ fetches[g].ok => fetches[g].session.generation <= session'.generation
        BY <1>2, <2>2, <3>5, <4>3, <4>4 DEF Fetches, Sessions
      <4>6. QED  BY <3>1, <3>2, <3>5, <4>2, <4>4, <4>5, Zenon
    <3>6. CASE user[v].pc # "wait"
      BY <3>1, <3>2, <3>3, <3>6, Zenon DEF ShareInv, GenerationInv
    <3>7. QED  BY <3>4, <3>5, <3>6, Zenon
  <2>5. QED  BY <2>3, <2>4, Zenon
<1>14. QED  BY <1>9, <1>12, <1>13, Zenon DEF ShareInv

LEMMA UnauthorizedPreserves ==
  ASSUME ShareInv, NEW u \in Users, Unauthorized(u)
  PROVE  ShareInv'
<1>1. user[u].pc = "request" /\ UNCHANGED <<session, pending, fetches>>  BY Zenon DEF Unauthorized
<1>2. CASE user[u].attempt = 1
  <2> DEFINE next == [NewCall EXCEPT !.attempt = 2, !.rejected = user[u].session.generation,
                                     !.cancelled = user[u].cancelled]
  <2>1. NewCall \in UserStates /\ NewCall.pc = "session"
    BY DEF NewCall, UserStates, UserStages, NoSession, Sessions, NoFetch
  <2>2. user[u].session.generation \in Nat /\ user[u].cancelled \in BOOLEAN
    BY Zenon DEF ShareInv, ShareType, UserStates, Sessions
  <2>3. next \in UserStates /\ next.pc = "session" /\ next.rejected = user[u].session.generation
    <3> DEFINE second == [NewCall EXCEPT !.attempt = 2]
               refused == [second EXCEPT !.rejected = user[u].session.generation]
    <3>1. second \in UserStates /\ second.pc = "session"  BY <2>1 DEF UserStates
    <3>2. next = [refused EXCEPT !.cancelled = user[u].cancelled]  BY Zenon
    <3> HIDE DEF second
    <3>3. refused \in UserStates /\ refused.pc = "session" /\ refused.rejected = user[u].session.generation
      BY <2>2, <3>1, Zenon DEF UserStates
    <3> HIDE DEF refused, next
    <3>4. QED  BY <2>2, <3>2, <3>3, Zenon DEF UserStates
  <2>4. Alone(u, next)  BY <1>1, <1>2, Zenon DEF Unauthorized, Alone
  <2>5. user[u].session.generation <= session.generation  BY <1>1, Zenon DEF ShareInv, GenerationInv
  <2> HIDE DEF next
  <2>6. QED  BY <1>1, <2>3, <2>4, <2>5, AlonePreserves, Zenon
<1>3. CASE user[u].attempt # 1
  BY <1>1, <1>3, UserReturns, Zenon DEF Unauthorized, EndCall
<1>4. QED  BY <1>2, <1>3, Zenon

\* Cancelling a context changes nothing that the invariant is about.
LEMMA UserCancels ==
  ASSUME ShareInv, NEW u \in Users, CancelUser(u)
  PROVE  ShareInv'
<1>1. user' = [user EXCEPT ![u].cancelled = TRUE] /\ UNCHANGED <<session, pending, fetches>>
  BY Zenon DEF CancelUser
<1>2. /\ user' \in [Users -> UserStates]
      /\ \A v \in Users : /\ user'[v].pc = user[v].pc /\ user'[v].fetch = user[v].fetch
                          /\ user'[v].rejected = user[v].rejected /\ user'[v].session = user[v].session
  BY <1>1, Zenon DEF ShareInv, ShareType, UserStates
<1>3. ShareType'  BY <1>1, <1>2, Zenon DEF ShareInv, ShareType
<1>4. FetchInv'  BY <1>1, <1>2 DEF ShareInv, FetchInv, OneFetchUnderWay
<1>5. GenerationInv'  BY <1>1, <1>2 DEF ShareInv, GenerationInv
<1>6. QED  BY <1>3, <1>4, <1>5, Zenon DEF ShareInv

\* Every step, one action at a time
LEMMA ShareStep == ShareInv /\ [ShareNext]_shareVars => ShareInv'
<1> SUFFICES ASSUME ShareInv, [ShareNext]_shareVars PROVE ShareInv'  BY Zenon
<1>1. ASSUME NEW u \in Users, CancelledAtOnce(u) \/ WaitCancelled(u) \/ Served(u) \/ RequestFailed(u)
      PROVE  ShareInv'
  BY <1>1, UserReturns, Zenon DEF CancelledAtOnce, WaitCancelled, Served, RequestFailed, EndCall
<1>2. ASSUME NEW u \in Users, CallAgain(u) PROVE ShareInv'
  <2>1. NewCall \in UserStates /\ NewCall.pc = "session" /\ NewCall.rejected = 0
    BY DEF NewCall, UserStates, UserStages, NoSession, Sessions, NoFetch
  <2>2. Alone(u, NewCall) /\ user[u].pc # "fetch"  BY <1>2, Zenon DEF CallAgain, Alone
  <2>3. 0 <= session.generation  BY DEF ShareInv, ShareType, Sessions
  <2>4. QED  BY <2>1, <2>2, <2>3, AlonePreserves, Zenon
<1>3. ASSUME NEW u \in Users, UserStep(u) PROVE ShareInv'
  BY <1>1, <1>3, TakePreserves, JoinPreserves, LeadPreserves, PublishPreserves, WaitOverPreserves,
     UnauthorizedPreserves, Zenon DEF UserStep
<1>4. CASE Revoke \/ UNCHANGED shareVars
  BY <1>4, Zenon DEF Revoke, shareVars, ShareInv, ShareType, FetchInv, OneFetchUnderWay, GenerationInv
<1>5. QED  BY <1>2, <1>3, <1>4, UserCancels, Zenon DEF ShareNext

\* For any number of callers, failures and cancellations at most one fetches a session,
\* and it is the one the others wait for (getShareSession).
THEOREM FetchesAreExclusive == ShareSpec => []OneFetchUnderWay
<1>1. ShareInv => OneFetchUnderWay  BY Zenon DEF ShareInv, FetchInv
<1>2. QED  BY <1>1, ShareStarts, ShareStep, PTL DEF ShareSpec

\* No caller is handed the crumb it was refused, by whichever way it gets a session
\* (GetShareStatistics, getShareSession).
THEOREM RefusedIsReplaced == ShareSpec => []RefusedCrumbIsNotReused
<1>1. ShareInv => RefusedCrumbIsNotReused  BY Zenon DEF ShareInv, GenerationInv, RefusedCrumbIsNotReused
<1>2. QED  BY <1>1, ShareStarts, ShareStep, PTL DEF ShareSpec

-----------------------------------------------------------------------------
(* The table of tickers *)

HoldingMutex == {"load", "found", "unknown", "error"}
ResolverStates == [pc : HoldingMutex \cup {"idle", "lock"}, ticker : Tickers \cup {""}]

TableType ==
  /\ tickers \in (SUBSET Tickers) \cup {Nil}
  /\ resolver \in [Resolvers -> ResolverStates]

\* Who is inside holds the mutex.
MutexInv == \A r \in Resolvers : resolver[r].pc \in HoldingMutex => mutex = r

\* The table is loaded only when there is none, and no load was kept before.
LoadInv ==
  /\ \A r \in Resolvers : resolver[r].pc = "load" => tickers = Nil
  /\ tickers = Nil => loads = {}
  /\ \A x, y \in loads : x = y

TableInv == TableType /\ MutexInv /\ LoadInv /\ UnknownIsTheTablesAnswer

LEMMA TableStarts == TableInit => TableInv
<1> SUFFICES ASSUME TableInit PROVE TableInv  BY Zenon
<1>1. \A r \in Resolvers : resolver[r].pc = "idle"  BY Zenon DEF TableInit
<1>2. TableType  BY Zenon DEF TableInit, TableType, ResolverStates
<1>3. MutexInv /\ UnknownIsTheTablesAnswer  BY <1>1, Zenon
     DEF MutexInv, UnknownIsTheTablesAnswer, HoldingMutex
<1>4. LoadInv  BY <1>1, Zenon DEF TableInit, LoadInv
<1>5. QED  BY <1>2, <1>3, <1>4, Zenon DEF TableInv

\* One caller moves and keeps its ticker.
Moves(r, pc) ==
  /\ resolver' \in [Resolvers -> ResolverStates]
  /\ resolver'[r].pc = pc /\ resolver'[r].ticker = resolver[r].ticker
  /\ \A q \in Resolvers \ {r} : resolver'[q] = resolver[q]

LEMMA GotoMoves ==
  ASSUME TableType, NEW r \in Resolvers, NEW pc \in HoldingMutex \cup {"idle", "lock"}, ResolverGoto(r, pc)
  PROVE  Moves(r, pc)
  BY Zenon DEF TableType, ResolverGoto, Moves, ResolverStates

LEMMA ResolvePreserves ==
  ASSUME TableInv, NEW r \in Resolvers, ResolveCIK(r)
  PROVE  TableInv'
<1>1. PICK t \in Tickers : resolver' = [resolver EXCEPT ![r] = [pc |-> "lock", ticker |-> t]]
  BY Zenon DEF ResolveCIK
<1>2. resolver' \in [Resolvers -> ResolverStates] /\ resolver'[r].pc = "lock"
  BY <1>1, Zenon DEF TableInv, TableType, ResolverStates
<1>3. \A q \in Resolvers \ {r} : resolver'[q] = resolver[q]
  BY <1>1, Zenon DEF TableInv, TableType
<1>4. QED
  BY <1>2, <1>3, Zenon
       DEF ResolveCIK, TableInv, TableType, MutexInv, LoadInv, UnknownIsTheTablesAnswer, HoldingMutex

LEMMA LockPreserves ==
  ASSUME TableInv, NEW r \in Resolvers, Lock(r)
  PROVE  TableInv'
<1> DEFINE pc == IF tickers = Nil THEN "load" ELSE IF resolver[r].ticker \in tickers THEN "found" ELSE "unknown"
<1>1. mutex = Free /\ mutex' = r /\ ResolverGoto(r, pc) /\ UNCHANGED <<tickers, loads>>  BY Zenon DEF Lock
<1>2. pc \in HoldingMutex  BY Zenon DEF HoldingMutex
<1>3. pc = "load" => tickers = Nil  BY Zenon
<1>4. pc = "unknown" => tickers # Nil /\ resolver[r].ticker \notin tickers  BY Zenon
<1> HIDE DEF pc
<1>5. Moves(r, pc)  BY <1>1, <1>2, GotoMoves, Zenon DEF TableInv
<1>6. \A q \in Resolvers : resolver[q].pc \notin HoldingMutex
  BY <1>1, TableConstants, Zenon DEF TableInv, MutexInv
<1>7. QED
  BY <1>1, <1>3, <1>4, <1>5, <1>6, Zenon
  DEF Moves, TableInv, TableType, MutexInv, LoadInv, UnknownIsTheTablesAnswer, HoldingMutex

\* Nobody else is inside, so the table that is stored contradicts no answer.
LEMMA LoadedPreserves ==
  ASSUME TableInv, NEW r \in Resolvers, Loaded(r)
  PROVE  TableInv'
<1>1. PICK loaded \in SUBSET Tickers :
        /\ tickers' = loaded /\ loads' = loads \cup {<<r, resolves, loaded>>}
        /\ ResolverGoto(r, IF resolver[r].ticker \in loaded THEN "found" ELSE "unknown")
  BY Zenon DEF Loaded
<1> DEFINE pc == IF resolver[r].ticker \in loaded THEN "found" ELSE "unknown"
<1>2. pc \in {"found", "unknown"} /\ (pc = "unknown" => resolver[r].ticker \notin loaded)  BY Zenon
<1>3. ResolverGoto(r, pc)  BY <1>1, Zenon
<1> HIDE DEF pc
<1>4. Moves(r, pc)  BY <1>2, <1>3, GotoMoves, Zenon DEF TableInv, HoldingMutex
<1>5. loaded # Nil  BY TableConstants, Zenon
<1>6. resolver[r].pc = "load" /\ mutex = r /\ mutex' = mutex /\ loads = {}
  BY Zenon DEF Loaded, TableInv, MutexInv, LoadInv, HoldingMutex
<1>7. \A q \in Resolvers \ {r} : resolver[q].pc \notin HoldingMutex  BY <1>6, Zenon DEF TableInv, MutexInv
<1>8. QED
  BY <1>1, <1>2, <1>4, <1>5, <1>6, <1>7, Zenon
  DEF Moves, TableInv, TableType, MutexInv, LoadInv, UnknownIsTheTablesAnswer, HoldingMutex

LEMMA LoadFailedPreserves ==
  ASSUME TableInv, NEW r \in Resolvers, LoadFailed(r)
  PROVE  TableInv'
<1>1. Moves(r, "error")  BY GotoMoves, Zenon DEF LoadFailed, TableInv, HoldingMutex
<1>2. QED
  BY <1>1, Zenon
       DEF LoadFailed, Moves, TableInv, TableType, MutexInv, LoadInv, UnknownIsTheTablesAnswer, HoldingMutex

LEMMA ResolverReturns ==
  ASSUME TableInv, NEW r \in Resolvers, Returns(r)
  PROVE  TableInv'
<1>1. Moves(r, "idle")  BY GotoMoves, Zenon DEF Returns, TableInv
<1>2. \A q \in Resolvers \ {r} : resolver[q].pc \notin HoldingMutex
  BY Zenon DEF Returns, TableInv, MutexInv, HoldingMutex
<1>3. QED
  BY <1>1, <1>2, Zenon
       DEF Returns, Moves, TableInv, TableType, MutexInv, LoadInv, UnknownIsTheTablesAnswer, HoldingMutex

LEMMA TableKeeps == TableInv /\ [TableNext]_tableVars => TableInv'
<1> SUFFICES ASSUME TableInv, [TableNext]_tableVars PROVE TableInv'  BY Zenon
<1>1. ASSUME NEW r \in Resolvers, ResolveCIK(r) \/ TableStep(r) PROVE TableInv'
  BY <1>1, ResolvePreserves, LockPreserves, LoadedPreserves, LoadFailedPreserves, ResolverReturns, Zenon
       DEF TableStep
<1>2. CASE UNCHANGED tableVars
  BY <1>2, Zenon DEF tableVars, TableInv, TableType, MutexInv, LoadInv, UnknownIsTheTablesAnswer
<1>3. QED  BY <1>1, <1>2, Zenon DEF TableNext

\* However many callers find no table and however often loading fails, one load is kept
\* (ResolveCIK holds tickersMu while GetCompanyTickers runs).
THEOREM TableIsLoadedOnce == TableSpec => []LoadedAtMostOnce
<1>1. TableInv => LoadedAtMostOnce
  <2> SUFFICES ASSUME TableInv PROVE Cardinality(loads) <= 1  BY Zenon DEF LoadedAtMostOnce
  <2>1. CASE loads = {}  BY <2>1, FS_EmptySet
  <2>2. ASSUME NEW x \in loads PROVE Cardinality(loads) <= 1
    <3>1. loads = {x}  BY Zenon DEF TableInv, LoadInv
    <3>2. QED  BY <3>1, FS_Singleton
  <2>3. QED  BY <2>1, <2>2, Zenon
<1>2. QED  BY <1>1, TableStarts, TableKeeps, PTL DEF TableSpec

\* A ticker is reported as unknown only by a table that lacks it (ResolveCIK).
THEOREM UnknownIsTrue == TableSpec => []UnknownIsTheTablesAnswer
<1>1. TableInv => UnknownIsTheTablesAnswer  BY Zenon DEF TableInv
<1>2. QED  BY <1>1, TableStarts, TableKeeps, PTL DEF TableSpec

-----------------------------------------------------------------------------
(* The table of submitted transactions *)

SubmitStages == {"idle", "insert", "commit", "compare", "sent", "completed", "conflict", "error", "refused"}
AllKeys == Keys \cup {NoKey}
Hashes == Payloads \cup {NoHash}
Senders == {Manager[c].sender : c \in Submitters} \cup {"a"}
Rows == [key : AllKeys, payload : Hashes, sender : Senders, committed : BOOLEAN, completed : BOOLEAN]
SubmitCalls == [pc : SubmitStages, key : AllKeys, payload : Hashes, id : Nat]

SubmitType ==
  /\ ids \in Nat /\ DOMAIN table \subseteq 1..ids
  /\ table \in [DOMAIN table -> Rows]
  /\ submission \in [Submitters -> SubmitCalls]
  /\ \A c \in Submitters : submission[c].pc \in {"insert", "error"} => submission[c].payload \in Payloads

\* The unique index on operation_key, uncommitted rows included
KeyIsUnique ==
  \A i, j \in DOMAIN table : table[i].key = table[j].key /\ table[i].key # NoKey => i = j

\* What a call that has met its row knows of it
HasRow(c) == submission[c].id \in DOMAIN table /\ table[submission[c].id].key = submission[c].key
RowIsKnown ==
  \A c \in Submitters :
    /\ submission[c].pc = "commit" => HasRow(c) /\ ~table[submission[c].id].committed
    /\ submission[c].pc \in {"compare", "sent", "completed", "conflict"} => HasRow(c) /\ table[submission[c].id].committed
    /\ submission[c].pc \in {"compare", "conflict"} => submission[c].payload \in Payloads
    /\ submission[c].pc \in {"commit", "sent", "completed"} => table[submission[c].id].payload = submission[c].payload
    /\ submission[c].pc = "commit" => submission[c].payload \in Payloads
    /\ submission[c].pc = "compare" /\ submission[c].key = NoKey => table[submission[c].id].payload = submission[c].payload
    /\ submission[c].pc = "conflict" => submission[c].key # NoKey /\ table[submission[c].id].payload # submission[c].payload

\* Two calls that have met one row came by its key, and one of them at most inserts it.
Owning == {"commit", "compare", "sent", "completed"}
RowIsShared ==
  \A c, d \in Submitters :
    c # d /\ submission[c].pc \in Owning /\ submission[d].pc \in Owning /\ submission[c].id = submission[d].id =>
      submission[c].key # NoKey /\ submission[c].pc # "commit" /\ submission[d].pc # "commit"

SubmissionInv == SubmitType /\ KeyIsUnique /\ RowIsKnown /\ RowIsShared

LEMMA SubmissionStarts == SubmitInit => SubmissionInv
<1> SUFFICES ASSUME SubmitInit PROVE SubmissionInv  BY Zenon
<1>1. ids \in Nat  BY FS_CardinalityType, SubmitConstants, Zenon DEF SubmitInit
<1>2. PICK key \in [1..ids -> LegacyKeys] :
        /\ \A i, j \in 1..ids : key[i] = key[j] => i = j
        /\ table = [i \in 1..ids |-> Row(key[i], NoHash, "a", TRUE)]
  BY Zenon DEF SubmitInit
<1>3. DOMAIN table = 1..ids /\ \A i \in 1..ids : table[i] \in Rows /\ table[i].key = key[i]
  BY <1>2, SubmitConstants, Zenon DEF Row, Rows, AllKeys, Hashes, Senders
<1>4. SubmitType
  BY <1>1, <1>2, <1>3, Zenon
       DEF SubmitInit, SubmitType, SubmitCalls, NotSubmitted, AllKeys, Hashes, SubmitStages, NoId
<1>5. KeyIsUnique
  <2> SUFFICES ASSUME NEW i \in DOMAIN table, NEW j \in DOMAIN table, table[i].key = table[j].key
               PROVE  i = j
    BY Zenon DEF KeyIsUnique
  <2>1. i \in 1..ids /\ j \in 1..ids /\ key[i] = key[j]  BY <1>3, Zenon
  <2>2. QED  BY <1>2, <2>1, Zenon
<1>6. RowIsKnown /\ RowIsShared  BY Zenon DEF SubmitInit, NotSubmitted, RowIsKnown, RowIsShared, Owning
<1>7. QED  BY <1>4, <1>5, <1>6, Zenon DEF SubmissionInv

LEMMA SendPreserves ==
  ASSUME SubmissionInv, NEW c \in Submitters, SendTxAsync(c)
  PROVE  SubmissionInv'
<1>1. PICK key \in AllKeys, payload \in Payloads :
        submission' = [submission EXCEPT ![c] = [pc |-> "insert", key |-> key, payload |-> payload, id |-> NoId]]
  BY Zenon DEF SendTxAsync, AllKeys
<1>2. UNCHANGED <<table, ids>>  BY Zenon DEF SendTxAsync
<1>3. SubmitType'  BY <1>1, <1>2, Zenon DEF SubmissionInv, SubmitType, SubmitCalls, SubmitStages, Hashes, NoId
<1>4. KeyIsUnique'  BY <1>2, Zenon DEF SubmissionInv, KeyIsUnique
<1>5. RowIsKnown' /\ RowIsShared'
  BY <1>1, <1>2 DEF SubmissionInv, SubmitType, RowIsKnown, RowIsShared, HasRow, Owning
<1>6. QED  BY <1>3, <1>4, <1>5, Zenon DEF SubmissionInv

LEMMA RefusedPreserves ==
  ASSUME SubmissionInv, NEW c \in Submitters, SendRefused(c)
  PROVE  SubmissionInv'
<1>1. submission' = [submission EXCEPT ![c].pc = "refused"] /\ UNCHANGED <<table, ids>>  BY Zenon
     DEF SendRefused, SubmitGoto
<1>2. SubmitType'  BY <1>1, Zenon DEF SubmissionInv, SubmitType, SubmitCalls, SubmitStages
<1>3. KeyIsUnique'  BY <1>1, Zenon DEF SubmissionInv, KeyIsUnique
<1>4. RowIsKnown' /\ RowIsShared'
  BY <1>1 DEF SubmissionInv, SubmitType, RowIsKnown, RowIsShared, HasRow, Owning, SubmitCalls
<1>5. QED  BY <1>2, <1>3, <1>4, Zenon DEF SubmissionInv

\* The new row has a fresh id, and its key is nobody's.
LEMMA InsertPreserves ==
  ASSUME SubmissionInv, NEW c \in Submitters, Insert(c)
  PROVE  SubmissionInv'
<1> DEFINE new == ids + 1
           row == Row(submission[c].key, submission[c].payload, Manager[c].sender, FALSE)
<1>1. /\ ids' = new /\ submission' = [submission EXCEPT ![c].pc = "commit", ![c].id = new]
      /\ table' = [j \in DOMAIN table \cup {new} |-> IF j = new THEN row ELSE table[j]]
      /\ submission[c].pc = "insert"
  BY Zenon DEF Insert, With
<1>2. new \notin DOMAIN table /\ ids \in Nat /\ new \in Nat  BY DEF SubmissionInv, SubmitType
<1>3. row \in Rows /\ row.key = submission[c].key /\ row.payload = submission[c].payload /\ row.committed = FALSE
  BY Zenon DEF SubmissionInv, SubmitType, Rows, Row, Senders, SubmitCalls
<1>4. DOMAIN table' = DOMAIN table \cup {new} /\ table'[new] = row /\ \A i \in DOMAIN table : table'[i] = table[i]
  BY <1>1, <1>2, Zenon
<1>5. submission[c].payload \in Payloads  BY <1>1, Zenon DEF SubmissionInv, SubmitType
<1> HIDE DEF row
<1>6. SubmitType'
  <2>1. table' \in [DOMAIN table' -> Rows]  BY <1>1, <1>3, <1>4, Zenon DEF SubmissionInv, SubmitType
  <2>2. DOMAIN table' \subseteq 1..ids'  BY <1>1, <1>2, <1>4 DEF SubmissionInv, SubmitType
  <2>3. submission' \in [Submitters -> SubmitCalls]  BY <1>1, <1>2, ZenonT(30)
       DEF SubmissionInv, SubmitType, SubmitCalls, SubmitStages
  <2>4. QED  BY <1>1, <1>2, <2>1, <2>2, <2>3 DEF SubmissionInv, SubmitType
<1>7. KeyIsUnique'
  <2>1. \A i \in DOMAIN table : submission[c].key # NoKey => table[i].key # submission[c].key
    BY Zenon DEF Insert, Holders
  <2>2. QED  BY <1>3, <1>4, <2>1, Zenon DEF SubmissionInv, KeyIsUnique
<1>8. RowIsKnown'
  BY <1>1, <1>2, <1>3, <1>4, <1>5 DEF SubmissionInv, SubmitType, RowIsKnown, HasRow, SubmitCalls
<1>9. RowIsShared'
  BY <1>1, <1>2 DEF SubmissionInv, SubmitType, RowIsKnown, RowIsShared, HasRow, Owning, SubmitCalls
<1>10. QED  BY <1>6, <1>7, <1>8, <1>9, Zenon DEF SubmissionInv

LEMMA ConflictPreserves ==
  ASSUME SubmissionInv, NEW c \in Submitters, Conflict(c)
  PROVE  SubmissionInv'
<1>1. PICK i \in Holders(submission[c].key) :
        table[i].committed /\ submission' = [submission EXCEPT ![c].pc = "compare", ![c].id = i]
  BY Zenon DEF Conflict
<1>2. UNCHANGED <<table, ids>> /\ submission[c].pc = "insert"  BY Zenon DEF Conflict
<1>3. i \in DOMAIN table /\ i \in Nat /\ table[i].key = submission[c].key /\ submission[c].key # NoKey
  BY DEF Holders, SubmissionInv, SubmitType
<1>4. SubmitType'  BY <1>1, <1>2, <1>3, ZenonT(30) DEF SubmissionInv, SubmitType, SubmitCalls, SubmitStages
<1>5. KeyIsUnique'  BY <1>2, Zenon DEF SubmissionInv, KeyIsUnique
<1>6. RowIsKnown'  BY <1>1, <1>2, <1>3 DEF SubmissionInv, SubmitType, RowIsKnown, HasRow, SubmitCalls
<1>7. RowIsShared'
  BY <1>1, <1>2, <1>3 DEF SubmissionInv, SubmitType, RowIsKnown, RowIsShared, HasRow, Owning, SubmitCalls
<1>8. QED  BY <1>4, <1>5, <1>6, <1>7, Zenon DEF SubmissionInv

\* The keys and payloads of the rows stay, and nothing that was committed is undone.
LEMMA CommitPreserves ==
  ASSUME SubmissionInv, NEW c \in Submitters, Commit(c)
  PROVE  SubmissionInv'
<1>1. /\ submission[c].pc = "commit" /\ ids' = ids /\ submission' = [submission EXCEPT ![c].pc = "compare"]
      /\ table' = [table EXCEPT ![submission[c].id].committed = TRUE]
  BY Zenon DEF Commit, SubmitGoto
<1>2. submission[c].id \in DOMAIN table  BY <1>1, Zenon DEF SubmissionInv, RowIsKnown, HasRow
<1>3. /\ DOMAIN table' = DOMAIN table /\ table' \in [DOMAIN table -> Rows]
      /\ \A i \in DOMAIN table : /\ table'[i].key = table[i].key /\ table'[i].payload = table[i].payload
                                 /\ i # submission[c].id => table'[i] = table[i]
      /\ table'[submission[c].id].committed
  BY <1>1, <1>2, Zenon DEF SubmissionInv, SubmitType, Rows
<1>4. SubmitType'  BY <1>1, <1>3 DEF SubmissionInv, SubmitType, SubmitCalls, SubmitStages
<1>5. KeyIsUnique'  BY <1>3, Zenon DEF SubmissionInv, KeyIsUnique
<1>6. RowIsKnown'
  <2> SUFFICES ASSUME NEW d \in Submitters PROVE RowIsKnown!(d)'  BY Zenon DEF RowIsKnown
  <2>1. CASE d = c
    <3>1. submission'[c] = [submission[c] EXCEPT !.pc = "compare"] /\ submission[c] \in SubmitCalls  BY <1>1, Zenon DEF SubmissionInv, SubmitType
    <3>2. /\ submission'[c].pc = "compare" /\ submission'[c].id = submission[c].id
          /\ submission'[c].key = submission[c].key /\ submission'[c].payload = submission[c].payload
      BY <3>1, Zenon DEF SubmitCalls
    <3>3. /\ HasRow(c) /\ submission[c].payload \in Payloads
          /\ table[submission[c].id].payload = submission[c].payload
      BY <1>1, Zenon DEF SubmissionInv, RowIsKnown
    <3>4. QED  BY <1>2, <1>3, <2>1, <3>2, <3>3, Zenon DEF HasRow
  <2>2. CASE d # c
    <3>1. submission'[d] = submission[d]  BY <1>1, <2>2, Zenon DEF SubmissionInv, SubmitType
    <3>2. submission[d].pc = "commit" => submission[d].id # submission[c].id
      BY <1>1, <2>2, Zenon DEF SubmissionInv, RowIsShared, Owning
    <3>3. RowIsKnown!(d)  BY Zenon DEF SubmissionInv, RowIsKnown
    <3>4. QED  BY <1>3, <3>1, <3>2, <3>3 DEF HasRow
  <2>3. QED  BY <2>1, <2>2, Zenon
<1>7. RowIsShared'
  BY <1>1 DEF SubmissionInv, SubmitType, RowIsShared, Owning, SubmitCalls
<1>8. QED  BY <1>4, <1>5, <1>6, <1>7, Zenon DEF SubmissionInv

\* The row that goes was known to its inserter alone.
LEMMA RollbackPreserves ==
  ASSUME SubmissionInv, NEW c \in Submitters, Rollback(c)
  PROVE  SubmissionInv'
<1>1. /\ submission[c].pc = "commit" /\ ids' = ids /\ submission' = [submission EXCEPT ![c].pc = "error", ![c].id = NoId]
      /\ table' = [i \in DOMAIN table \ {submission[c].id} |-> table[i]]
  BY Zenon DEF Rollback
<1>2. DOMAIN table' = DOMAIN table \ {submission[c].id} /\ \A i \in DOMAIN table' : table'[i] = table[i]
  BY <1>1, Zenon
<1>3. SubmitType'
  <2>1. submission[c].payload \in Payloads  BY <1>1, Zenon DEF SubmissionInv, RowIsKnown
  <2>2. submission' \in [Submitters -> SubmitCalls]  BY <1>1, Zenon
       DEF SubmissionInv, SubmitType, SubmitCalls, SubmitStages, NoId
  <2>3. table' \in [DOMAIN table' -> Rows]  BY <1>1, <1>2, Zenon DEF SubmissionInv, SubmitType
  <2>4. QED  BY <1>1, <1>2, <2>1, <2>2, <2>3, Zenon DEF SubmissionInv, SubmitType, SubmitCalls
<1>4. KeyIsUnique'  BY <1>2, Zenon DEF SubmissionInv, KeyIsUnique
<1>5. RowIsKnown'
  <2> SUFFICES ASSUME NEW d \in Submitters PROVE RowIsKnown!(d)'  BY Zenon DEF RowIsKnown
  <2>1. CASE d = c  BY <1>1, <2>1, Zenon DEF SubmissionInv, SubmitType, SubmitCalls
  <2>2. CASE d # c
    <3>1. submission'[d] = submission[d]  BY <1>1, <2>2, Zenon DEF SubmissionInv, SubmitType
    <3>2. submission[d].pc \in Owning => submission[d].id # submission[c].id
      BY <1>1, <2>2, Zenon DEF SubmissionInv, RowIsShared, Owning
    <3>3. submission[d].pc = "conflict" => submission[d].id # submission[c].id
      BY <1>1, Zenon DEF SubmissionInv, RowIsKnown
    <3>4. RowIsKnown!(d)  BY Zenon DEF SubmissionInv, RowIsKnown
    <3>5. QED  BY <1>2, <3>1, <3>2, <3>3, <3>4, Zenon DEF HasRow, Owning
  <2>3. QED  BY <2>1, <2>2, Zenon
<1>6. RowIsShared'
  BY <1>1 DEF SubmissionInv, SubmitType, RowIsShared, Owning, SubmitCalls
<1>7. QED  BY <1>3, <1>4, <1>5, <1>6, Zenon DEF SubmissionInv

LEMMA LostPreserves ==
  ASSUME SubmissionInv, NEW c \in Submitters, ReplyLost(c)
  PROVE  SubmissionInv'
<1>1. /\ submission' = [submission EXCEPT ![c].pc = "error", ![c].id = NoId]
      /\ UNCHANGED <<table, ids>> /\ submission[c].pc = "compare"
  BY Zenon DEF ReplyLost
<1>2. SubmitType'
  <2>1. submission[c].payload \in Payloads  BY <1>1, Zenon DEF SubmissionInv, RowIsKnown
  <2>2. QED  BY <1>1, <2>1, ZenonT(30) DEF SubmissionInv, SubmitType, SubmitCalls, SubmitStages, NoId
<1>3. KeyIsUnique'  BY <1>1, Zenon DEF SubmissionInv, KeyIsUnique
<1>4. RowIsKnown' /\ RowIsShared'
  BY <1>1 DEF SubmissionInv, SubmitType, RowIsKnown, RowIsShared, HasRow, Owning, SubmitCalls
<1>5. QED  BY <1>2, <1>3, <1>4, Zenon DEF SubmissionInv

LEMMA ComparePreserves ==
  ASSUME SubmissionInv, NEW c \in Submitters, Compare(c)
  PROVE  SubmissionInv'
<1>1. /\ submission' = [submission EXCEPT ![c].pc = IF SamePayload(c) THEN "sent" ELSE "conflict"]
      /\ UNCHANGED <<table, ids>> /\ submission[c].pc = "compare"
  BY Zenon DEF Compare, SubmitGoto
<1>2. SubmitType'  BY <1>1 DEF SubmissionInv, SubmitType, SubmitCalls, SubmitStages
<1>3. KeyIsUnique'  BY <1>1, Zenon DEF SubmissionInv, KeyIsUnique
<1>4. SamePayload(c) => table[submission[c].id].payload = submission[c].payload
  BY <1>1, Zenon DEF SamePayload, SubmissionInv, RowIsKnown
<1>5. ~SamePayload(c) => submission[c].key # NoKey /\ table[submission[c].id].payload # submission[c].payload
  BY <1>1, SubmitConstants, Zenon DEF SamePayload, SubmissionInv, RowIsKnown
<1>6. RowIsKnown'
  BY <1>1, <1>4, <1>5 DEF SubmissionInv, SubmitType, RowIsKnown, HasRow, SubmitCalls
<1>7. RowIsShared'
  BY <1>1 DEF SubmissionInv, SubmitType, RowIsShared, Owning, SubmitCalls
<1>8. QED  BY <1>2, <1>3, <1>6, <1>7, Zenon DEF SubmissionInv

LEMMA RepeatPreserves ==
  ASSUME SubmissionInv, NEW c \in Submitters, Repeat(c)
  PROVE  SubmissionInv'
<1>1. submission' = [submission EXCEPT ![c].pc = "insert"] /\ UNCHANGED <<table, ids>> /\ submission[c].pc = "error"
  BY Zenon DEF Repeat, SubmitGoto
<1>2. SubmitType'  BY <1>1, Zenon DEF SubmissionInv, SubmitType, SubmitCalls, SubmitStages
<1>3. KeyIsUnique'  BY <1>1, Zenon DEF SubmissionInv, KeyIsUnique
<1>4. RowIsKnown' /\ RowIsShared'
  BY <1>1 DEF SubmissionInv, SubmitType, RowIsKnown, RowIsShared, HasRow, Owning, SubmitCalls
<1>5. QED  BY <1>2, <1>3, <1>4, Zenon DEF SubmissionInv

LEMMA WaitPreserves ==
  ASSUME SubmissionInv, NEW c \in Submitters, WaitReturns(c)
  PROVE  SubmissionInv'
<1>1. submission' = [submission EXCEPT ![c].pc = "completed"] /\ UNCHANGED <<table, ids>> /\ submission[c].pc = "sent"
  BY Zenon DEF WaitReturns, Told, SubmitGoto
<1>2. SubmitType'  BY <1>1, Zenon DEF SubmissionInv, SubmitType, SubmitCalls, SubmitStages
<1>3. KeyIsUnique'  BY <1>1, Zenon DEF SubmissionInv, KeyIsUnique
<1>4. RowIsKnown' /\ RowIsShared'
  BY <1>1 DEF SubmissionInv, SubmitType, RowIsKnown, RowIsShared, HasRow, Owning, SubmitCalls
<1>5. QED  BY <1>2, <1>3, <1>4, Zenon DEF SubmissionInv

LEMMA CompletePreserves ==
  ASSUME SubmissionInv, NEW i \in DOMAIN table, Complete(i)
  PROVE  SubmissionInv'
<1>1. table' = [table EXCEPT ![i].completed = TRUE] /\ UNCHANGED <<ids, submission>>  BY Zenon DEF Complete
<1>2. /\ DOMAIN table' = DOMAIN table /\ table' \in [DOMAIN table -> Rows]
      /\ \A j \in DOMAIN table : /\ table'[j].key = table[j].key /\ table'[j].payload = table[j].payload
                                 /\ table'[j].committed = table[j].committed
  BY <1>1, Zenon DEF SubmissionInv, SubmitType, Rows
<1>3. SubmitType'  BY <1>1, <1>2, Zenon DEF SubmissionInv, SubmitType
<1>4. KeyIsUnique'  BY <1>2, Zenon DEF SubmissionInv, KeyIsUnique
<1>5. RowIsKnown'  BY <1>1, <1>2 DEF SubmissionInv, RowIsKnown, HasRow
<1>6. RowIsShared'  BY <1>1, Zenon DEF SubmissionInv, RowIsShared
<1>7. QED  BY <1>3, <1>4, <1>5, <1>6, Zenon DEF SubmissionInv

LEMMA SubmissionStep == SubmissionInv /\ [SubmitNext]_submitVars => SubmissionInv'
<1> SUFFICES ASSUME SubmissionInv, [SubmitNext]_submitVars PROVE SubmissionInv'  BY Zenon
<1>1. ASSUME NEW c \in Submitters,
             SendTxAsync(c) \/ SendRefused(c) \/ SendStep(c) \/ Repeat(c) \/ WaitReturns(c)
      PROVE  SubmissionInv'
  BY <1>1, SendPreserves, RefusedPreserves, InsertPreserves, ConflictPreserves, CommitPreserves,
     RollbackPreserves, LostPreserves, ComparePreserves, RepeatPreserves, WaitPreserves, Zenon DEF SendStep
<1>2. CASE \E i \in DOMAIN table : Complete(i)  BY <1>2, CompletePreserves, Zenon
<1>3. CASE UNCHANGED submitVars
  BY <1>3, Zenon DEF submitVars, SubmissionInv, SubmitType, KeyIsUnique, RowIsKnown, RowIsShared, HasRow
<1>4. QED  BY <1>1, <1>2, <1>3, Zenon DEF SubmitNext

\* A key has one row for any number of callers and whatever fails (InsertOrGet, on the
\* unique index of operation_key).
THEOREM KeyNamesOneRow == SubmitSpec => []OneRowPerKey
<1>1. SubmissionInv => OneRowPerKey
  <2> SUFFICES ASSUME SubmissionInv, NEW k \in Keys PROVE Cardinality(Holders(k)) <= 1
    BY Zenon DEF OneRowPerKey
  <2>1. \A i, j \in Holders(k) : i = j  BY Zenon DEF SubmissionInv, KeyIsUnique, Holders
  <2>2. CASE Holders(k) = {}  BY <2>2, FS_EmptySet
  <2>3. ASSUME NEW i \in Holders(k) PROVE Cardinality(Holders(k)) <= 1
    <3>1. Holders(k) = {i}  BY <2>1, Zenon
    <3>2. QED  BY <3>1, FS_Singleton
  <2>4. QED  BY <2>2, <2>3, Zenon
<1>2. QED  BY <1>1, SubmissionStarts, SubmissionStep, PTL DEF SubmitSpec

\* Calls with one key that succeed agree on one committed row with their payload, and a
\* call without a key shares its row with nobody (SendTxAsync, InsertOrGet).
THEOREM SubmissionIsIdempotent == SubmitSpec => []SentAgree
<1>1. ASSUME SubmissionInv PROVE SentAgree
  <2> DEFINE Sent(c) == submission[c].pc \in {"sent", "completed"}
  <2>1. ASSUME NEW c \in Submitters, Sent(c)
        PROVE  /\ submission[c].id \in DOMAIN table /\ table[submission[c].id].committed
               /\ table[submission[c].id].payload = submission[c].payload
               /\ table[submission[c].id].key = submission[c].key
    BY <1>1, <2>1, Zenon DEF SubmissionInv, RowIsKnown, HasRow
  <2>2. ASSUME NEW c \in Submitters, NEW d \in Submitters \ {c}, Sent(c), Sent(d)
        PROVE  submission[c].id = submission[d].id <=>
                 submission[c].key = submission[d].key /\ submission[c].key # NoKey
    <3>1. submission[c].id = submission[d].id => submission[c].key # NoKey
      BY <1>1, <2>2, Zenon DEF SubmissionInv, RowIsShared, Owning
    <3>2. submission[c].key = submission[d].key /\ submission[c].key # NoKey
            => submission[c].id = submission[d].id
      BY <1>1, <2>1, <2>2 DEF SubmissionInv, KeyIsUnique
    <3>3. QED  BY <2>1, <2>2, <3>1, <3>2, Zenon
  <2>3. QED  BY <2>1, <2>2, Zenon DEF SentAgree
<1>2. QED  BY <1>1, SubmissionStarts, SubmissionStep, PTL DEF SubmitSpec

\* ErrIdempotencyConflict is returned only to a caller whose payload is not that of the
\* key's committed row, also after lost replies and rollbacks (InsertOrGet).
THEOREM ConflictsAreReal == SubmitSpec => []ConflictIsReal
<1>1. SubmissionInv => ConflictIsReal
  BY Zenon DEF SubmissionInv, RowIsKnown, HasRow, Holders, ConflictIsReal
<1>2. QED  BY <1>1, SubmissionStarts, SubmissionStep, PTL DEF SubmitSpec

-----------------------------------------------------------------------------
(* The outbox of status notifications: several publishers, one row's state *)

\* A publisher that has seen its callback succeed knows the consumer was told; this
\* is what recordSuccess rests on.
OkWasDelivered == \A p \in Publishers, t \in Txs : work[p][t] = "ok" => t \in delivered

OutboxInv == TypeOK /\ AcknowledgedWasDelivered /\ OkWasDelivered

LEMMA OutboxInitHolds == Init => OutboxInv
  BY OutboxAssumption DEF Init, OutboxInv, TypeOK, AcknowledgedWasDelivered, OkWasDelivered, WorkStages

\* Only a row's own delivery changes, and only that row can become "ok".
WorkMoves(t, stage) ==
  /\ work' \in [Publishers -> [Txs -> WorkStages]]
  /\ \A q \in Publishers, u \in Txs : work'[q][u] # work[q][u] => u = t /\ work'[q][u] = stage

LEMMA StepWork ==
  ASSUME TypeOK, NEW p \in Publishers, NEW t \in Txs, NEW stage \in WorkStages, Step(p, t, stage)
  PROVE  WorkMoves(t, stage)
  BY Zenon DEF TypeOK, Step, WorkMoves

LEMMA PersistPreserves ==
  ASSUME OutboxInv, NEW t \in Txs, persistTerminal(t)
  PROVE  OutboxInv'
  BY Zenon DEF OutboxInv, TypeOK, AcknowledgedWasDelivered, OkWasDelivered, persistTerminal

LEMMA BackoffPreserves ==
  ASSUME OutboxInv, NEW t \in Txs, BackoffEnds(t)
  PROVE  OutboxInv'
  BY Zenon DEF OutboxInv, TypeOK, AcknowledgedWasDelivered, OkWasDelivered, BackoffEnds

LEMMA LoadPreserves ==
  ASSUME OutboxInv, NEW p \in Publishers, deliverStatusNotifications(p)
  PROVE  OutboxInv'
<1> PICK batch \in SUBSET Ready :
      /\ work' = [work EXCEPT ![p] = [t \in Txs |-> IF t \in batch THEN "loaded" ELSE "none"]]
      /\ copy' = [copy EXCEPT ![p] = [t \in Txs |-> IF t \in batch THEN attempted[t] ELSE 0]]
  BY Zenon DEF deliverStatusNotifications
<1> UNCHANGED <<terminal, notified, attempted, due, delivered>>  BY Zenon DEF deliverStatusNotifications
<1>1. TypeOK'
  BY OutboxAssumption DEF OutboxInv, TypeOK, WorkStages
<1>2. OkWasDelivered'
  BY Zenon DEF OutboxInv, TypeOK, OkWasDelivered
<1>3. QED  BY <1>1, <1>2, Zenon DEF OutboxInv, AcknowledgedWasDelivered

LEMMA StartPreserves ==
  ASSUME OutboxInv, NEW p \in Publishers, NEW t \in Txs, StartWorker(p, t)
  PROVE  OutboxInv'
<1>1. Step(p, t, "calling") /\ "calling" \in WorkStages  BY Zenon DEF StartWorker, WorkStages
<1>2. WorkMoves(t, "calling")  BY <1>1, StepWork, Zenon DEF OutboxInv
<1>3. QED
  BY <1>2, Zenon DEF WorkMoves, OutboxInv, TypeOK, AcknowledgedWasDelivered, OkWasDelivered, StartWorker

\* The step that makes a delivery "ok" adds the row to what was delivered.
LEMMA CallPreserves ==
  ASSUME OutboxInv, NEW p \in Publishers, NEW t \in Txs, callStatusCallback(p, t)
  PROVE  OutboxInv'
<1>1. CASE Step(p, t, "ok") /\ delivered' = delivered \cup {t}
  <2>1. "ok" \in WorkStages  BY Zenon DEF WorkStages
  <2>2. WorkMoves(t, "ok")  BY <1>1, <2>1, StepWork, Zenon DEF OutboxInv
  <2>3. QED
    BY <1>1, <2>2, Zenon
    DEF WorkMoves, OutboxInv, TypeOK, AcknowledgedWasDelivered, OkWasDelivered, callStatusCallback
<1>2. CASE Step(p, t, "error") /\ delivered' \in {delivered, delivered \cup {t}}
  <2>1. "error" \in WorkStages  BY Zenon DEF WorkStages
  <2>2. WorkMoves(t, "error")  BY <1>2, <2>1, StepWork, Zenon DEF OutboxInv
  <2>3. QED
    BY <1>2, <2>2, Zenon
    DEF WorkMoves, OutboxInv, TypeOK, AcknowledgedWasDelivered, OkWasDelivered, callStatusCallback
<1>3. QED  BY <1>1, <1>2, Zenon DEF callStatusCallback

LEMMA SuccessPreserves ==
  ASSUME OutboxInv, NEW p \in Publishers, NEW t \in Txs, recordSuccess(p, t)
  PROVE  OutboxInv'
<1>1. Step(p, t, "none") /\ "none" \in WorkStages  BY Zenon DEF recordSuccess, WorkStages
<1>2. t \in delivered  BY Zenon DEF recordSuccess, OutboxInv, OkWasDelivered
<1>moves. WorkMoves(t, "none")  BY <1>1, StepWork, Zenon DEF OutboxInv
<1>3. TypeOK'
  BY <1>moves DEF WorkMoves, OutboxInv, TypeOK, recordSuccess
<1>4. AcknowledgedWasDelivered'
  BY <1>2, Zenon DEF OutboxInv, AcknowledgedWasDelivered, recordSuccess
<1>5. OkWasDelivered'
  BY <1>moves, Zenon DEF WorkMoves, OutboxInv, OkWasDelivered, recordSuccess
<1>6. QED  BY <1>3, <1>4, <1>5, Zenon DEF OutboxInv

LEMMA FailurePreserves ==
  ASSUME OutboxInv, NEW p \in Publishers, NEW t \in Txs, recordFailure(p, t)
  PROVE  OutboxInv'
<1>1. Step(p, t, "none") /\ "none" \in WorkStages  BY Zenon DEF recordFailure, WorkStages
<1>moves. WorkMoves(t, "none")  BY <1>1, StepWork, Zenon DEF OutboxInv
<1>2. TypeOK'
  BY <1>moves, OutboxAssumption DEF WorkMoves, OutboxInv, TypeOK, recordFailure
<1>3. AcknowledgedWasDelivered' /\ OkWasDelivered'
  BY <1>moves, Zenon DEF WorkMoves, OutboxInv, AcknowledgedWasDelivered, OkWasDelivered, recordFailure
<1>4. QED  BY <1>2, <1>3, Zenon DEF OutboxInv

LEMMA StopPreserves ==
  ASSUME OutboxInv, NEW p \in Publishers, Stop(p)
  PROVE  OutboxInv'
  BY Zenon DEF OutboxInv, TypeOK, AcknowledgedWasDelivered, OkWasDelivered, Stop, WorkStages

\* Every step, one action at a time
LEMMA OutboxNextPreserves == OutboxInv /\ [Next]_vars => OutboxInv'
<1> SUFFICES ASSUME OutboxInv, [Next]_vars PROVE OutboxInv'  BY Zenon
<1>1. CASE \E t \in Txs : persistTerminal(t) \/ BackoffEnds(t)
  BY <1>1, PersistPreserves, BackoffPreserves, Zenon
<1>2. CASE \E p \in Publishers : Deliver(p) \/ Stop(p)
  BY <1>2, LoadPreserves, StartPreserves, CallPreserves, SuccessPreserves, FailurePreserves, StopPreserves,
           Zenon
  DEF Deliver
<1>3. CASE UNCHANGED vars
  BY <1>3, Zenon DEF OutboxInv, TypeOK, AcknowledgedWasDelivered, OkWasDelivered, vars
<1>4. QED  BY <1>1, <1>2, <1>3, Zenon DEF Next, Acknowledged

\* The outbox keeps its types (all of Outbox, with any number of publishers).
THEOREM OutboxTypeCorrect == Spec => []TypeOK
<1>1. OutboxInv => TypeOK  BY Zenon DEF OutboxInv
<1>2. QED  BY OutboxInitHolds, OutboxNextPreserves, <1>1, PTL DEF Spec

\* Whatever publishers race, fail or crash, a row is acknowledged only after its
\* consumer was told (deliverStatusNotification records success after the callback).
THEOREM DeliveredBeforeAcknowledged == Spec => []AcknowledgedWasDelivered
<1>1. OutboxInv => AcknowledgedWasDelivered  BY Zenon DEF OutboxInv
<1>2. QED  BY OutboxInitHolds, OutboxNextPreserves, <1>1, PTL DEF Spec

\* No step of any publisher withdraws an acknowledgement or touches the counter of an
\* acknowledged row (UpdateNotification writes only rows whose notified_at is null).
THEOREM AcknowledgedForGood == Spec => AcknowledgementIsFinal
<1>1. OutboxInv /\ [Next]_vars => [\A t \in notified : t \in notified' /\ attempted'[t] = attempted[t]]_vars
  <2> SUFFICES ASSUME OutboxInv, Next, NEW t \in notified
               PROVE  t \in notified' /\ attempted'[t] = attempted[t]
    BY Zenon
  <2>1. CASE \E u \in Txs : persistTerminal(u) \/ BackoffEnds(u)
    BY <2>1, Zenon DEF persistTerminal, BackoffEnds
  <2>2. ASSUME NEW p \in Publishers, Deliver(p) \/ Stop(p)
        PROVE  t \in notified' /\ attempted'[t] = attempted[t]
    BY <2>2, Zenon
         DEF Deliver, Stop, deliverStatusNotifications, StartWorker, callStatusCallback, recordSuccess,
               recordFailure, OutboxInv, TypeOK
  <2>3. CASE UNCHANGED vars  BY <2>3, Zenon DEF vars
  <2>4. QED  BY <2>1, <2>2, <2>3, Zenon DEF Next, Acknowledged
<1>2. QED  BY OutboxInitHolds, OutboxNextPreserves, <1>1, PTL DEF Spec, AcknowledgementIsFinal
=============================================================================
