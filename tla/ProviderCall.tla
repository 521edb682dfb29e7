---------------------------- MODULE ProviderCall ----------------------------
(***************************************************************************)
(* One call of an operation of a provider client, from the checks of its   *)
(* input to its return, and the server that executes the requests. A       *)
(* request may be lost, may be executed while its reply is lost, or may be *)
(* executed after the client has given up on it.                           *)
(***************************************************************************)
EXTENDS ProviderClients, Naturals, Sequences

CONSTANTS
    Operations,     \* the operations called
    Statuses,       \* status codes the server answers with
    Afters          \* values of Retry-After, in seconds

\* What changes something at the provider is one request, and none that its client
\* would send again.
SentOnce(o) ==
    /\ o.parts = {1} /\ ~o.pages
    /\ o.client.kind = "transport" => o.client.attempts = 1
    /\ o.client.kind = "polymarket" => o.method # "GET"

ASSUME OperationsAreProper ==
    \A o \in Operations : o.parts \subseteq Nat \ {0} /\ (o.write => SentOnce(o))

VARIABLES
    op,             \* the operation
    call,           \* the progress of the call
    wire,           \* the request under way: "none", "sent", "executed", "moved", "drained"
    server          \* [executed, orphans]: executions; requests given up but not lost

vars == <<op, call, wire, server>>

NoResult == [kind |-> "none", status |-> 0, typed |-> FALSE]
Result(kind) == [kind |-> kind, status |-> 0, typed |-> FALSE]

\* whole: how many answers make up what is asked for, which the caller's input or its
\* cache decides or, of pages, the provider; kept: the answers the operation keeps.
Init ==
    /\ op \in Operations
    /\ \E whole \in op.parts :
          call = [pc |-> "begin", part |-> 1, attempt |-> 1, wait |-> 0, delay |-> 0,
                  whole |-> whole, kept |-> <<>>, cancelled |-> FALSE, recorded |-> FALSE,
                  dispatched |-> FALSE, result |-> NoResult]
    /\ wire = "none"
    /\ server = [executed |-> 0, orphans |-> 0]

Return(result) == call' = [call EXCEPT !.pc = "returned", !.result = result]

-----------------------------------------------------------------------------
(* Before the request *)

\* The input has one of the defects the operation looks for.
Refuse ==
    /\ call.pc = "begin" /\ op.checks # {}
    /\ Return(Result("invalid"))
    /\ UNCHANGED <<op, wire, server>>

\* Nothing is asked for: an empty answer, without a request.
Shortcut ==
    /\ call.pc = "begin" /\ op.shortcut
    /\ Return(Result("ok"))
    /\ UNCHANGED <<op, wire, server>>

Begin ==
    /\ call.pc = "begin"
    /\ call' = [call EXCEPT !.pc = IF op.record THEN "record" ELSE "send", !.wait = op.client.delay]
    /\ UNCHANGED <<op, wire, server>>

\* Fault: the request is sent although the hook failed.
DispatchAnyway ==
    /\ call.pc = "record"
    /\ \E ok \in BOOLEAN : call' = [call EXCEPT !.pc = "send", !.recorded = ok]
    /\ UNCHANGED <<op, wire, server>>

\* beforeDispatch, after a look at the context; it may refuse.
BeforeDispatch ==
    /\ call.pc = "record"
    /\ \/ ~call.cancelled /\ call' = [call EXCEPT !.pc = "send", !.recorded = TRUE]
       \/ Return(Result(IF call.cancelled THEN "cancelled" ELSE "refused"))
    /\ UNCHANGED <<op, wire, server>>

\* A context that is already done: the limiter does not wait, Do does not send.
NotSent ==
    /\ call.pc = "send" /\ call.cancelled
    /\ call' = [call EXCEPT !.pc = "returned", !.result = Result("cancelled"),
                            !.dispatched = @ \/ ~op.paced]
    /\ UNCHANGED <<op, wire, server>>

\* The transport's clone of a request shares its body, and nothing rewinds it: unless an
\* attempt failed before it read the body, the next one sends a request without it.
Send ==
    /\ call.pc = "send" /\ ~call.cancelled
    /\ call' = [call EXCEPT !.pc = "await", !.dispatched = TRUE]
    /\ \/ wire' = "sent"
       \/ wire' = "drained" /\ op.client.kind = "transport" /\ op.method = "POST" /\ call.attempt > 1
    /\ UNCHANGED <<op, server>>

-----------------------------------------------------------------------------
(* After a reply, or a failure of the base transport *)

\* Fault: writes are sent again too.
PolymarketTriesWritesAgain(reply) ==
    /\ call.attempt < op.client.attempts
    /\ reply.status # 0 /\ isTransientStatus(reply.status)

\* Polymarket's do: only reads are sent again, after a transient status whose body
\* could be read, and after at most a second if the server asked for a delay.
PolymarketTriesAgain(reply) ==
    /\ op.method = "GET" /\ call.attempt < op.client.attempts
    /\ reply.status # 0 /\ ~IsSuccess(reply.status) /\ isTransientStatus(reply.status)
    /\ reply.body \notin {"cut", "oversize"}

Retries(reply) ==
    CASE op.client.kind = "transport"  -> TriesAgain(op.client, reply, call.attempt, call.cancelled)
      [] op.client.kind = "polymarket" -> PolymarketTriesAgain(reply)
      [] OTHER                         -> FALSE

DelayAfter(reply) ==
    IF op.client.kind = "transport" THEN RetryDelay(op.client, reply, call.wait)
    ELSE IF reply.after * Second > Second THEN Second ELSE reply.after * Second

\* An error's body that cannot be read takes the place of its status.
Unreadable(reply) ==
    CASE op.client.kind = "transport"  -> reply.body = "cut"
      [] op.client.kind = "polymarket" -> reply.body \in {"cut", "oversize"}
      [] OTHER                         -> FALSE

\* The package's own error type is made from a reply, which the transport never hands
\* out for such a status, or from the transport's error.
Typed == IF op.client.kind = "transport" THEN op.typed = "transport" ELSE op.typed = "reply"

Failure(reply) ==
    IF reply.status = 0 \/ Unreadable(reply)
    THEN Result(IF reply.status = 0 /\ call.cancelled THEN "cancelled" ELSE "failed")
    ELSE [kind |-> "status", status |-> reply.status, typed |-> Typed]

\* Another request follows: there are more parts, and a page was full.
More(body) == call.part < call.whole /\ ~(op.pages /\ body = "other")

Accept(body) ==
    LET kept == Append(call.kept, [part |-> call.part, body |-> body])
    IN  IF ~More(body)
        THEN call' = [call EXCEPT !.pc = "returned", !.result = Result("ok"), !.kept = kept]
        ELSE IF op.pages /\ call.part = MaxPages
        THEN call' = [call EXCEPT !.pc = "returned", !.result = Result("partial"), !.kept = kept]
        ELSE call' = [call EXCEPT !.pc = "send", !.part = @ + 1, !.attempt = 1, !.kept = kept,
                                  !.wait = op.client.delay]

\* Fault: what was read before a failure is returned.
AnsweredInPart(reply) ==
    IF reply.status \in op.accepts /\ Decodes(op, reply.body)
    THEN Accept(reply.body)
    ELSE Return(Result(IF call.part > 1 THEN "ok" ELSE "failed"))

Answered(reply) ==
    IF reply.status \in op.accepts
    THEN \/ Decodes(op, reply.body) /\ Accept(reply.body)
         \/ MayRefuse(op, reply.body) /\ Return(Result("undecodable"))
    ELSE IF Retries(reply)
    THEN call' = [call EXCEPT !.pc = "backoff", !.delay = DelayAfter(reply)]
    ELSE Return(Failure(reply))

\* Fault: the attempts are not counted.
RetryUncounted ==
    /\ call.pc = "backoff"
    /\ call' = [call EXCEPT !.pc = "send", !.delay = 0]
    /\ UNCHANGED <<op, wire, server>>

\* The timer fires; RoundTrip's wait doubles.
Retry ==
    /\ call.pc = "backoff"
    /\ call' = [call EXCEPT !.pc = "send", !.attempt = @ + 1, !.wait = 2 * @, !.delay = 0]
    /\ UNCHANGED <<op, wire, server>>

RetryCancelled ==
    /\ call.pc = "backoff" /\ call.cancelled
    /\ Return(Result("cancelled"))
    /\ UNCHANGED <<op, wire, server>>

-----------------------------------------------------------------------------
(* The server and the network (external) *)

Execute ==
    /\ wire = "sent" /\ op.write
    /\ wire' = "executed"
    /\ server' = [server EXCEPT !.executed = @ + 1]
    /\ UNCHANGED <<op, call>>

\* A client that follows redirects repeats a GET elsewhere. A POST turns into a GET, which
\* executes nothing, after a 302, and is sent again with its body after a 307 or 308.
Redirect ==
    /\ call.pc = "await" /\ wire = "sent" /\ op.client.follows
    /\ \/ wire' = "sent"
       \/ wire' = "moved" /\ op.method # "GET"
    /\ UNCHANGED <<op, call, server>>

\* What the server may say: success only of what it has done, a definitive refusal,
\* a redirect or a rate limit only of what it has not; anything else says nothing.
Ambiguous(status) == status = 408 \/ status >= 500
Truthful(status, body) ==
    CASE wire = "executed" -> IsSuccess(status) \/ Ambiguous(status)
      [] wire = "moved"    -> /\ status \notin 300..399
                              /\ IsSuccess(status) => body \in {"other", "malformed", "cut"}
      [] wire = "drained"  -> ~IsSuccess(status)
      [] OTHER             -> /\ op.write => ~IsSuccess(status)
                              /\ op.client.follows => status \notin 300..399

\* A request that is given up may be executed all the same.
GiveUp(request) ==
    IF op.write /\ request = "sent"
    THEN \E lost \in BOOLEAN : server' = [server EXCEPT !.orphans = @ + IF lost THEN 0 ELSE 1]
    ELSE server' = server

Reply ==
    /\ call.pc = "await"
    /\ \E status \in Statuses, body \in Bodies, after \in Afters :
          /\ IsSuccess(status) => after = 0
          /\ Truthful(status, body)
          /\ Answered([status |-> status, body |-> body, after |-> after])
          /\ IF Ambiguous(status) THEN GiveUp(wire) ELSE server' = server
    /\ wire' = "none"
    /\ UNCHANGED op

\* The connection breaks, an attempt times out, or the context is done.
Break ==
    /\ call.pc = "await"
    /\ Answered(Broken)
    /\ GiveUp(wire)
    /\ wire' = "none"
    /\ UNCHANGED op

OrphanExecutes ==
    /\ server.orphans > 0
    /\ server' = [executed |-> server.executed + 1, orphans |-> server.orphans - 1]
    /\ UNCHANGED <<op, call, wire>>

\* The caller cancels, or the client's timeout over all attempts expires.
Cancel ==
    /\ call.pc \notin {"returned", "crashed"} /\ ~call.cancelled
    /\ call' = [call EXCEPT !.cancelled = TRUE]
    /\ UNCHANGED <<op, wire, server>>

\* The calling process dies; what its hook recorded survives.
Crash ==
    /\ op.record /\ call.pc \notin {"returned", "crashed"}
    /\ call' = [call EXCEPT !.pc = "crashed"]
    /\ GiveUp(wire)
    /\ wire' = "none"
    /\ UNCHANGED op

ClientStep ==
    \/ Refuse \/ Shortcut \/ Begin \/ BeforeDispatch \/ NotSent \/ Send
    \/ Retry \/ RetryCancelled

Next ==
    \/ ClientStep
    \/ Execute \/ Redirect \/ Reply \/ Break \/ OrphanExecutes \/ Cancel \/ Crash

Spec == Init /\ [][Next]_vars

-----------------------------------------------------------------------------
(* Properties *)

\* No call writes twice: an order, a cancellation, a signed exchange action, an on-ramp
\* session or a message is executed at most once, whatever is lost, late or refused.
WriteExecutesAtMostOnce == server.executed <= 1

\* IsDefinitiveSubmissionRejection "reports whether a provider response proves the
\* write was rejected": what it reports for an order or a cancellation is neither
\* executed nor can it still be.
RejectionIsDefinitive ==
    (/\ op \in {PolymarketPostOrder, PolymarketCancelOrder}
     /\ call.result.typed /\ IsDefinitiveSubmissionRejection(call.result.status))
        => server = [executed |-> 0, orphans |-> 0]

\* A signed action that is, or may still be, executed was recorded by the hook before,
\* even if the process has died; and Response.Dispatched is set for it.
ExecutedWasRecorded ==
    op.record /\ (server.executed > 0 \/ server.orphans > 0) => call.recorded /\ call.dispatched

\* A successful result is whole: nothing was asked for, or all the answers that make it
\* up were kept, once each and in order, however often a request was repeated, and each
\* was read to its end as JSON if the operation decodes it. A failing request fails the
\* operation; only a page that says nothing ends a list before its last page. And the
\* error that comes with the pages read so far (ListAllOpportunities) is returned only
\* if there are more.
SuccessIsWhole ==
    /\ call.result.kind = "ok" =>
         \/ op.shortcut /\ ~call.dispatched
         \/ /\ \A i \in DOMAIN call.kept :
                  /\ call.kept[i].part = i
                  /\ op.decode \in {"all", "first"} => call.kept[i].body \notin {"cut", "malformed"}
            /\ \/ Len(call.kept) = call.whole
               \/ op.pages /\ Len(call.kept) # 0 /\ call.kept[Len(call.kept)].body = "other"
    /\ call.result.kind = "partial" =>
         op.pages /\ Len(call.kept) = MaxPages /\ call.whole > MaxPages

=============================================================================
