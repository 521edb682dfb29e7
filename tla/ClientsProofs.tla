---------------------------- MODULE ClientsProofs ----------------------------
(***************************************************************************)
(* A provider call, for any operations whose writes are single requests:   *)
(* what it may do to the provider and what it may report. The cache of     *)
(* rates, for any number of callers, days and currencies. And what the     *)
(* composition of the clients has to do with its parts.                    *)
(***************************************************************************)
EXTENDS Clients, WellFoundedInduction, TLAPS

-----------------------------------------------------------------------------
(* A provider call *)

Stages == {"begin", "record", "send", "await", "backoff", "returned", "crashed"}

\* The fields the arguments below depend on; the others are of whatever values W.
CallShape(W) ==
  [pc : Stages, part : Nat, attempt : Nat, wait : W, delay : W, whole : W, kept : W,
   cancelled : BOOLEAN, recorded : BOOLEAN, dispatched : BOOLEAN, result : W]

CallType ==
  /\ op \in Operations
  /\ \E W : call \in CallShape(W)
  /\ wire \in {"none", "sent", "executed", "moved", "drained"}
  /\ server \in [executed : Nat, orphans : Nat]

\* While the call awaits an answer, and only then, a request is under way.
WireInv == wire # "none" <=> call.pc = "await"

\* A write is sent once: nothing is executed before the request, and after it, if not
\* by the request under way, at most once; what was definitively rejected never is.
WriteInv ==
  op.write =>
    /\ call.attempt = 1 /\ call.pc # "backoff" /\ wire # "drained"
    /\ call.pc \in {"begin", "record", "send"} => server.executed = 0 /\ server.orphans = 0
    /\ wire \in {"sent", "moved"} => server.executed = 0 /\ server.orphans = 0
    /\ server.executed + server.orphans <= 1
    /\ wire = "executed" => server.orphans = 0
    /\ call.result.typed /\ IsDefinitiveSubmissionRejection(call.result.status)
         => server.executed = 0 /\ server.orphans = 0 /\ call.pc \in {"returned", "crashed"}

\* The hook has run before a request is sent.
RecordInv ==
  op.record =>
    /\ call.pc \in {"send", "await", "backoff"} => call.recorded
    /\ call.pc = "await" => call.dispatched
    /\ server.executed # 0 \/ server.orphans # 0 => call.recorded /\ call.dispatched

\* Requests that were not made executed nothing.
ReadInv == ~op.write => server.executed = 0 /\ server.orphans = 0 /\ wire # "executed"

\* The answers that are kept are those of the parts before the one that is asked for now,
\* in order and decoded, and no more parts are asked for than there are.
KeptAnswers == [part : Nat, body : Bodies \cup {"none"}]

AnswerInv ==
  /\ call.kept \in Seq(KeptAnswers) /\ call.whole \in Nat \ {0} /\ call.whole \in op.parts
  /\ call.pc = "begin" => ~call.dispatched
  /\ call.pc \notin {"returned", "crashed"} => Len(call.kept) + 1 = call.part /\ call.part <= call.whole
  /\ \A i \in DOMAIN call.kept : call.kept[i].part = i /\ Decodes(op, call.kept[i].body)
  /\ SuccessIsWhole
  /\ call.pc # "returned" => call.result.kind \notin {"ok", "partial"} /\ call.result.typed = FALSE

CallInv == CallType /\ WireInv /\ WriteInv /\ RecordInv /\ ReadInv /\ AnswerInv

\* What a step leaves of the record of the call besides its stage, result and answers.
SameBooks ==
  /\ call'.cancelled = call.cancelled /\ call'.recorded = call.recorded
  /\ call'.dispatched = call.dispatched /\ call'.whole = call.whole

\* A step that keeps no answer and ends no call as a success.
LEMMA QuietStep ==
  ASSUME AnswerInv, op' = op, call'.kept = call.kept, call'.whole = call.whole, call'.part = call.part,
         call.pc \notin {"returned", "crashed"},
         call'.pc = "begin" => call.pc = "begin" /\ call'.dispatched = call.dispatched,
         \/ call'.result = call.result
         \/ call'.result.kind \notin {"ok", "partial"} /\ call'.result.typed = FALSE
  PROVE  AnswerInv'
<1>0. call'.result.kind \notin {"ok", "partial"} /\ call'.result.typed = FALSE
  BY Zenon DEF AnswerInv
<1>1. SuccessIsWhole'
  BY <1>0, Zenon DEF SuccessIsWhole
<1>2. \A i \in DOMAIN call'.kept : call'.kept[i].part = i /\ Decodes(op', call'.kept[i].body)
  BY Zenon DEF AnswerInv
<1>3. QED BY <1>0, <1>1, <1>2, Zenon DEF AnswerInv

LEMMA AnswersStay ==
  ASSUME AnswerInv, UNCHANGED <<op, call>>
  PROVE  AnswerInv'
<1>1. SuccessIsWhole'
  BY Zenon DEF AnswerInv, SuccessIsWhole
<1>2. QED BY <1>1, Zenon DEF AnswerInv

\* The end of a call changes its stage and its result only.
LEMMA ReturnFacts ==
  ASSUME CallType, NEW result, Return(result)
  PROVE  /\ \E W : call' \in CallShape(W)
         /\ call'.pc = "returned" /\ call'.result = result /\ call'.kept = call.kept
         /\ call'.part = call.part /\ call'.attempt = call.attempt /\ SameBooks
<1>1. PICK W : call \in CallShape(W)
  BY Zenon DEF CallType
<1>2. call' = [call EXCEPT !.pc = "returned", !.result = result]
  BY Zenon DEF Return
<1>3. call' \in CallShape(W \cup {result})
  BY <1>1, <1>2, Zenon DEF CallShape, Stages
<1>4. QED BY <1>1, <1>2, <1>3, Zenon DEF CallShape, SameBooks

\* An accepted answer ends the call, as a success only if no request is left to make,
\* or leads to the next request.
LEMMA AcceptFacts ==
  ASSUME CallType, NEW body, Accept(body)
  PROVE  /\ \E W : call' \in CallShape(W)
         /\ call'.kept = Append(call.kept, [part |-> call.part, body |-> body]) /\ SameBooks
         /\ \/ /\ ~More(body) /\ call'.pc = "returned" /\ call'.result = Result("ok")
               /\ call'.part = call.part /\ call'.attempt = call.attempt
            \/ /\ More(body) /\ op.pages /\ call.part = MaxPages
               /\ call'.pc = "returned" /\ call'.result = Result("partial")
               /\ call'.part = call.part /\ call'.attempt = call.attempt
            \/ /\ More(body) /\ call'.pc = "send" /\ call'.result = call.result
               /\ call'.part = call.part + 1 /\ call'.attempt = 1
<1>1. PICK W : call \in CallShape(W)
  BY Zenon DEF CallType
<1> DEFINE u == Append(call.kept, [part |-> call.part, body |-> body])
<1>2. CASE ~More(body)
  <2>1. call' = [call EXCEPT !.pc = "returned", !.result = Result("ok"), !.kept = u]
    BY <1>2, Zenon DEF Accept
  <2> HIDE DEF u
  <2>2. call' \in CallShape(W \cup {Result("ok"), u})
    BY <1>1, <2>1, Zenon DEF CallShape, Stages
  <2>3. /\ call'.pc = "returned" /\ call'.result = Result("ok") /\ call'.kept = u
        /\ call'.part = call.part /\ call'.attempt = call.attempt /\ SameBooks
    BY <1>1, <2>1, Zenon DEF CallShape, SameBooks
  <2>4. QED BY <1>2, <2>2, <2>3, Zenon DEF u
<1>3. CASE More(body) /\ op.pages /\ call.part = MaxPages
  <2>1. call' = [call EXCEPT !.pc = "returned", !.result = Result("partial"), !.kept = u]
    BY <1>3, Zenon DEF Accept
  <2> HIDE DEF u
  <2>2. call' \in CallShape(W \cup {Result("partial"), u})
    BY <1>1, <2>1, Zenon DEF CallShape, Stages
  <2>3. /\ call'.pc = "returned" /\ call'.result = Result("partial") /\ call'.kept = u
        /\ call'.part = call.part /\ call'.attempt = call.attempt /\ SameBooks
    BY <1>1, <2>1, Zenon DEF CallShape, SameBooks
  <2>4. QED BY <1>3, <2>2, <2>3, Zenon DEF u
<1>4. CASE More(body) /\ ~(op.pages /\ call.part = MaxPages)
  <2>1. call' = [call EXCEPT !.pc = "send", !.part = @ + 1, !.attempt = 1, !.kept = u,
                             !.wait = op.client.delay]
    BY <1>4, Zenon DEF Accept
  <2> HIDE DEF u
  <2>2. call' \in CallShape(W \cup {u, op.client.delay})
    <3>1. call.part + 1 \in Nat
      BY <1>1 DEF CallShape
    <3> DEFINE n == call.part + 1
    <3>2. call' = [call EXCEPT !.pc = "send", !.part = n, !.attempt = 1, !.kept = u,
                               !.wait = op.client.delay]
      BY <2>1, Zenon
    <3> HIDE DEF n
    <3>3. QED BY <1>1, <3>1, <3>2, Zenon DEF CallShape, Stages, n
  <2>3. /\ call'.pc = "send" /\ call'.result = call.result /\ call'.kept = u
        /\ call'.part = call.part + 1 /\ call'.attempt = 1 /\ SameBooks
    BY <1>1, <2>1, Zenon DEF CallShape, SameBooks
  <2>4. QED BY <1>4, <2>2, <2>3, Zenon DEF u
<1>5. QED BY <1>2, <1>3, <1>4, Zenon

\* A reply is accepted and decoded, is waited out, or ends the call with an error.
LEMMA AnsweredFacts ==
  ASSUME CallType, NEW reply, Answered(reply)
  PROVE  /\ \E W : call' \in CallShape(W)
         /\ SameBooks
         /\ \/ /\ reply.status \in op.accepts /\ Decodes(op, reply.body)
               /\ call'.kept = Append(call.kept, [part |-> call.part, body |-> reply.body])
               /\ \/ /\ ~More(reply.body) /\ call'.pc = "returned" /\ call'.result = Result("ok")
                     /\ call'.part = call.part /\ call'.attempt = call.attempt
                  \/ /\ More(reply.body) /\ op.pages /\ call.part = MaxPages
                     /\ call'.pc = "returned" /\ call'.result = Result("partial")
                     /\ call'.part = call.part /\ call'.attempt = call.attempt
                  \/ /\ More(reply.body) /\ call'.pc = "send" /\ call'.result = call.result
                     /\ call'.part = call.part + 1 /\ call'.attempt = 1
            \/ /\ call'.pc = "returned" /\ call'.kept = call.kept
               /\ call'.part = call.part /\ call'.attempt = call.attempt
               /\ call'.result \in {Result("undecodable"), Failure(reply)}
            \/ /\ Retries(reply) /\ call'.pc = "backoff" /\ call'.kept = call.kept
               /\ call'.part = call.part /\ call'.attempt = call.attempt
               /\ call'.result = call.result
<1>1. CASE reply.status \in op.accepts /\ Decodes(op, reply.body) /\ Accept(reply.body)
  BY <1>1, AcceptFacts, Zenon
<1>2. CASE Return(Result("undecodable"))
  BY <1>2, ReturnFacts, Zenon
<1>3. CASE reply.status \notin op.accepts /\ Retries(reply)
  <2>1. PICK W : call \in CallShape(W)
    BY Zenon DEF CallType
  <2>2. call' = [call EXCEPT !.pc = "backoff", !.delay = DelayAfter(reply)]
    BY <1>3, Zenon DEF Answered
  <2>3. call' \in CallShape(W \cup {DelayAfter(reply)})
    BY <2>1, <2>2, Zenon DEF CallShape, Stages
  <2>4. /\ call'.pc = "backoff" /\ call'.kept = call.kept /\ SameBooks
        /\ call'.part = call.part /\ call'.attempt = call.attempt /\ call'.result = call.result
    BY <2>1, <2>2, Zenon DEF CallShape, SameBooks
  <2>5. QED BY <1>3, <2>3, <2>4, Zenon
<1>4. CASE reply.status \notin op.accepts /\ ~Retries(reply)
  <2>1. Return(Failure(reply))
    BY <1>4, Zenon DEF Answered
  <2>2. QED BY <2>1, ReturnFacts, Zenon
<1>5. QED BY <1>1, <1>2, <1>3, <1>4, Zenon DEF Answered

\* A step that ends the call before anything of it was read, or with an error.
LEMMA EndsStep ==
  ASSUME CallInv, NEW kind \in {"invalid", "ok", "cancelled", "refused"},
         Return(Result(kind)), UNCHANGED <<op, wire, server>>, call.pc # "await",
         call.pc \notin {"returned", "crashed"}, kind = "ok" => call.pc = "begin" /\ op.shortcut
  PROVE  CallInv'
<1>1. /\ \E W : call' \in CallShape(W)
      /\ call'.pc = "returned" /\ call'.result = Result(kind) /\ call'.kept = call.kept
      /\ call'.part = call.part /\ call'.attempt = call.attempt /\ SameBooks
  BY ReturnFacts, Zenon DEF CallInv
<1>2. call'.result.kind = kind /\ call'.result.typed = FALSE
  BY <1>1 DEF Result
<1>3. CallType' /\ WireInv' /\ ReadInv'
  BY <1>1, Zenon DEF CallInv, CallType, WireInv, ReadInv, Stages
<1>4. WriteInv' /\ RecordInv'
  BY <1>1, <1>2, Zenon DEF CallInv, WireInv, WriteInv, RecordInv, SameBooks
<1>5. CASE kind = "ok"
  <2>1. op.shortcut /\ ~call.dispatched /\ AnswerInv
    BY <1>5, Zenon DEF CallInv, AnswerInv
  <2>2. SuccessIsWhole'
    BY <1>2, <1>5, <2>1, <1>1, Zenon DEF SuccessIsWhole, SameBooks
  <2>3. AnswerInv'
    BY <1>1, <2>1, <2>2, Zenon DEF AnswerInv, SameBooks
  <2>4. QED BY <1>3, <1>4, <2>3, Zenon DEF CallInv
<1>6. CASE kind # "ok"
  <2>1. kind # "partial"
    OBVIOUS
  <2>2. AnswerInv'
    BY <1>1, <1>2, <1>6, <2>1, QuietStep, Zenon DEF CallInv, SameBooks
  <2>3. QED BY <1>3, <1>4, <2>2, Zenon DEF CallInv
<1>7. QED BY <1>5, <1>6, Zenon

\* The steps of the client before a request, and between two of them.
LEMMA ClientStepKeeps ==
  ASSUME CallInv, ClientStep
  PROVE  CallInv'
<1>0. CallType /\ WireInv /\ WriteInv /\ RecordInv /\ ReadInv /\ AnswerInv
  BY Zenon DEF CallInv
<1>1. PICK W : call \in CallShape(W)
  BY <1>0, Zenon DEF CallType
<1>2. CASE Refuse
  BY <1>2, EndsStep, Zenon DEF Refuse
<1>3. CASE Shortcut
  BY <1>3, EndsStep, Zenon DEF Shortcut
<1>4. CASE Begin
  <2>1. /\ call' = [call EXCEPT !.pc = IF op.record THEN "record" ELSE "send", !.wait = op.client.delay]
        /\ call.pc = "begin" /\ UNCHANGED <<op, wire, server>>
    BY <1>4, Zenon DEF Begin
  <2>2. /\ call' \in CallShape(W \cup {op.client.delay}) /\ SameBooks
        /\ call'.pc = (IF op.record THEN "record" ELSE "send")
        /\ call'.kept = call.kept /\ call'.part = call.part /\ call'.attempt = call.attempt
        /\ call'.result = call.result
    BY <1>1, <2>1, Zenon DEF CallShape, Stages, SameBooks
  <2>3. CallType' /\ WireInv' /\ ReadInv'
    BY <1>0, <2>1, <2>2 DEF CallType, WireInv, ReadInv
  <2>4. WriteInv' /\ RecordInv'
    BY <1>0, <2>1, <2>2 DEF WireInv, WriteInv, RecordInv, SameBooks
  <2>5. AnswerInv'
    BY <1>0, <2>1, <2>2, QuietStep, Zenon DEF SameBooks
  <2>6. QED BY <2>3, <2>4, <2>5, Zenon DEF CallInv
<1>5. CASE BeforeDispatch
  <2>1. call.pc = "record" /\ UNCHANGED <<op, wire, server>>
    BY <1>5, Zenon DEF BeforeDispatch
  <2>2. CASE call' = [call EXCEPT !.pc = "send", !.recorded = TRUE]
    <3>1. /\ call' \in CallShape(W)
          /\ call'.pc = "send" /\ call'.recorded = TRUE /\ call'.dispatched = call.dispatched
          /\ call'.whole = call.whole
          /\ call'.kept = call.kept /\ call'.part = call.part /\ call'.attempt = call.attempt
          /\ call'.result = call.result
      BY <1>1, <2>2, Zenon DEF CallShape, Stages
    <3>2. CallType' /\ WireInv' /\ ReadInv'
      BY <1>0, <2>1, <3>1, Zenon DEF CallType, WireInv, ReadInv
    <3>3. WriteInv' /\ RecordInv'
      BY <1>0, <2>1, <3>1, Zenon DEF WireInv, WriteInv, RecordInv
    <3>4. AnswerInv'
      BY <1>0, <2>1, <3>1, QuietStep, Zenon
    <3>5. QED BY <3>2, <3>3, <3>4, Zenon DEF CallInv
  <2>3. CASE Return(Result(IF call.cancelled THEN "cancelled" ELSE "refused"))
    BY <2>1, <2>3, EndsStep, Zenon
  <2>4. QED BY <1>5, <2>2, <2>3, Zenon DEF BeforeDispatch
<1>6. CASE NotSent
  <2>1. /\ call' = [call EXCEPT !.pc = "returned", !.result = Result("cancelled"),
                                !.dispatched = @ \/ ~op.paced]
        /\ call.pc = "send" /\ UNCHANGED <<op, wire, server>>
    BY <1>6, Zenon DEF NotSent
  <2>2. /\ call' \in CallShape(W \cup {Result("cancelled")})
        /\ call'.pc = "returned" /\ call'.recorded = call.recorded
        /\ call'.whole = call.whole /\ (call.dispatched => call'.dispatched)
        /\ call'.kept = call.kept /\ call'.part = call.part /\ call'.attempt = call.attempt
        /\ call'.result = Result("cancelled")
    BY <1>1, <2>1, Zenon DEF CallShape, Stages
  <2>3. call'.result.kind = "cancelled" /\ call'.result.typed = FALSE
    BY <2>2 DEF Result
  <2>4. CallType' /\ WireInv' /\ ReadInv'
    BY <1>0, <2>1, <2>2, <2>3, Zenon DEF CallType, WireInv, ReadInv
  <2>5. WriteInv' /\ RecordInv'
    BY <1>0, <2>1, <2>2, <2>3, Zenon DEF WireInv, WriteInv, RecordInv
  <2>6. AnswerInv'
    BY <1>0, <2>1, <2>2, <2>3, QuietStep, Zenon
  <2>7. QED BY <2>4, <2>5, <2>6, Zenon DEF CallInv
<1>7. CASE Send
  <2>1. /\ call' = [call EXCEPT !.pc = "await", !.dispatched = TRUE]
        /\ call.pc = "send" /\ UNCHANGED <<op, server>>
        /\ wire' = "sent" \/ (wire' = "drained" /\ call.attempt > 1)
    BY <1>7, Zenon DEF Send
  <2>2. /\ call' \in CallShape(W)
        /\ call'.pc = "await" /\ call'.recorded = call.recorded /\ call'.dispatched = TRUE
        /\ call'.whole = call.whole
        /\ call'.kept = call.kept /\ call'.part = call.part /\ call'.attempt = call.attempt
        /\ call'.result = call.result
    BY <1>1, <2>1, Zenon DEF CallShape, Stages
  <2>3. CallType' /\ WireInv' /\ ReadInv'
    BY <1>0, <2>1, <2>2, Zenon DEF CallType, WireInv, ReadInv
  <2>4. op.write => wire' = "sent"
    BY <1>0, <2>1 DEF WriteInv
  <2>5. WriteInv' /\ RecordInv'
    BY <1>0, <2>1, <2>2, <2>4, Zenon DEF WireInv, WriteInv, RecordInv
  <2>6. AnswerInv'
    BY <1>0, <2>1, <2>2, QuietStep, Zenon
  <2>7. QED BY <2>3, <2>5, <2>6, Zenon DEF CallInv
<1>8. CASE Retry
  <2>1. /\ call' = [call EXCEPT !.pc = "send", !.attempt = @ + 1, !.wait = 2 * @, !.delay = 0]
        /\ call.pc = "backoff" /\ UNCHANGED <<op, wire, server>>
    BY <1>8, Zenon DEF Retry
  <2> DEFINE n == call.attempt + 1
             w == 2 * call.wait
  <2>2. n \in Nat /\ call' = [call EXCEPT !.pc = "send", !.attempt = n, !.wait = w, !.delay = 0]
    BY <1>1, <2>1 DEF CallShape
  <2> HIDE DEF n, w
  <2>3. /\ call' \in CallShape(W \cup {w, 0}) /\ SameBooks
        /\ call'.pc = "send"
        /\ call'.kept = call.kept /\ call'.part = call.part /\ call'.result = call.result
    BY <1>1, <2>2, Zenon DEF CallShape, Stages, SameBooks
  <2>4. CallType' /\ WireInv' /\ ReadInv'
    BY <1>0, <2>1, <2>3, Zenon DEF CallType, WireInv, ReadInv
  <2>5. WriteInv' /\ RecordInv'
    BY <1>0, <2>1, <2>3, Zenon DEF WriteInv, RecordInv, SameBooks
  <2>6. AnswerInv'
    BY <1>0, <2>1, <2>3, QuietStep, Zenon DEF SameBooks
  <2>7. QED BY <2>4, <2>5, <2>6, Zenon DEF CallInv
<1>9. CASE RetryCancelled
  BY <1>9, EndsStep, Zenon DEF RetryCancelled
<1>10. QED BY <1>2, <1>3, <1>4, <1>5, <1>6, <1>7, <1>8, <1>9, Zenon DEF ClientStep

\* The server, the network and the caller's context.
LEMMA WorldKeeps ==
  ASSUME CallInv, Execute \/ Redirect \/ OrphanExecutes \/ Cancel
  PROVE  CallInv'
<1>0. CallType /\ WireInv /\ WriteInv /\ RecordInv /\ ReadInv /\ AnswerInv
  BY Zenon DEF CallInv
<1>1. PICK W : call \in CallShape(W)
  BY <1>0, Zenon DEF CallType
<1>2. server \in [executed : Nat, orphans : Nat]
  BY <1>0, Zenon DEF CallType
<1>3. CASE Execute
  <2>1. /\ wire = "sent" /\ wire' = "executed" /\ op.write /\ call.pc = "await"
        /\ UNCHANGED <<op, call>>
        /\ server' \in [executed : Nat, orphans : Nat]
        /\ server'.executed = server.executed + 1 /\ server'.orphans = server.orphans
    BY <1>0, <1>2, <1>3 DEF Execute, WireInv
  <2>2. CallType' /\ WireInv' /\ ReadInv' /\ AnswerInv'
    BY <1>0, <2>1, AnswersStay, Zenon DEF CallType, WireInv, ReadInv
  <2>3. WriteInv' /\ RecordInv'
    BY <1>0, <1>2, <2>1 DEF WriteInv, RecordInv
  <2>4. QED BY <2>2, <2>3, Zenon DEF CallInv
<1>4. CASE Redirect
  <2>1. /\ wire = "sent" /\ wire' \in {"sent", "moved"} /\ call.pc = "await"
        /\ UNCHANGED <<op, call, server>>
    BY <1>4, Zenon DEF Redirect
  <2>2. CallType' /\ WireInv' /\ ReadInv' /\ AnswerInv'
    BY <1>0, <2>1, AnswersStay, Zenon DEF CallType, WireInv, ReadInv
  <2>3. WriteInv' /\ RecordInv'
    BY <1>0, <2>1, Zenon DEF WriteInv, RecordInv
  <2>4. QED BY <2>2, <2>3, Zenon DEF CallInv
<1>5. CASE OrphanExecutes
  <2>1. /\ UNCHANGED <<op, call, wire>> /\ server.orphans # 0
        /\ server' \in [executed : Nat, orphans : Nat]
        /\ server'.executed = server.executed + 1 /\ server'.orphans = server.orphans - 1
    BY <1>2, <1>5 DEF OrphanExecutes
  <2>2. op.write
    BY <1>0, <2>1, Zenon DEF ReadInv
  <2>3. CallType' /\ WireInv' /\ ReadInv' /\ AnswerInv'
    BY <1>0, <2>1, <2>2, AnswersStay, Zenon DEF CallType, WireInv, ReadInv
  <2>4. WriteInv' /\ RecordInv'
    BY <1>0, <1>2, <2>1, <2>2 DEF WriteInv, RecordInv
  <2>5. QED BY <2>3, <2>4, Zenon DEF CallInv
<1>6. CASE Cancel
  <2>1. /\ call' = [call EXCEPT !.cancelled = TRUE] /\ UNCHANGED <<op, wire, server>>
        /\ call.pc \notin {"returned", "crashed"}
    BY <1>6, Zenon DEF Cancel
  <2>2. /\ call' \in CallShape(W)
        /\ call'.pc = call.pc /\ call'.recorded = call.recorded /\ call'.dispatched = call.dispatched
        /\ call'.whole = call.whole
        /\ call'.kept = call.kept /\ call'.part = call.part /\ call'.attempt = call.attempt
        /\ call'.result = call.result
    BY <1>1, <2>1, Zenon DEF CallShape
  <2>3. CallType' /\ WireInv' /\ ReadInv'
    BY <1>0, <2>1, <2>2, Zenon DEF CallType, WireInv, ReadInv
  <2>4. WriteInv' /\ RecordInv'
    BY <1>0, <2>1, <2>2, Zenon DEF WireInv, WriteInv, RecordInv
  <2>5. AnswerInv'
    BY <1>0, <2>1, <2>2, QuietStep, Zenon
  <2>6. QED BY <2>3, <2>4, <2>5, Zenon DEF CallInv
<1>7. QED BY <1>3, <1>4, <1>5, <1>6, Zenon

\* A request that is given up adds to what may be executed only if it is a write that
\* was sent and not yet executed.
LEMMA GiveUpFacts ==
  ASSUME CallType, GiveUp(wire)
  PROVE  /\ server' \in [executed : Nat, orphans : Nat]
         /\ server'.executed = server.executed
         /\ server'.orphans # server.orphans =>
              op.write /\ wire = "sent" /\ server'.orphans = server.orphans + 1
<1>1. server \in [executed : Nat, orphans : Nat]
  BY Zenon DEF CallType
<1>2. CASE op.write /\ wire = "sent"
  <2>1. PICK lost \in BOOLEAN : server' = [server EXCEPT !.orphans = @ + IF lost THEN 0 ELSE 1]
    BY <1>2, Zenon DEF GiveUp
  <2>2. CASE lost
    BY <1>1, <2>1, <2>2
  <2>3. CASE ~lost
    BY <1>1, <1>2, <2>1, <2>3
  <2>4. QED BY <2>2, <2>3, Zenon
<1>3. CASE ~(op.write /\ wire = "sent")
  BY <1>1, <1>3, Zenon DEF GiveUp
<1>4. QED BY <1>2, <1>3, Zenon

\* No answer makes a client repeat a write.
LEMMA WriteEnds ==
  ASSUME CallInv, op.write, call.pc = "await", NEW reply, Answered(reply)
  PROVE  call'.pc = "returned" /\ call'.attempt = call.attempt
<1>1. op \in Operations /\ SentOnce(op) /\ op.parts = {1}
  BY OperationsAreProper, Zenon DEF CallInv, CallType, SentOnce
<1>2. PICK W : call \in CallShape(W)
  BY Zenon DEF CallInv, CallType
<1>3. call.part \in Nat /\ call.attempt = 1 /\ call.whole = 1
  BY <1>1, <1>2, Zenon DEF CallInv, AnswerInv, WriteInv, CallShape
<1>4. ~More(reply.body)
  <2>1. Len(call.kept) \in Nat /\ Len(call.kept) + 1 = call.part
    BY DEF CallInv, AnswerInv
  <2>2. ~(call.part < call.whole)
    BY <1>3, <2>1
  <2>3. QED BY <2>2, Zenon DEF More
<1>5. ~Retries(reply)
  <2>1. ASSUME op.client.kind = "transport" PROVE ~Retries(reply)
    <3>1. op.client.attempts = 1
      BY <1>1, <2>1, Zenon DEF SentOnce
    <3>2. ~(call.attempt < Longer(op.client.attempts, 1))
      BY <1>3, <3>1 DEF Longer
    <3>3. QED BY <2>1, <3>2, Zenon DEF Retries, TriesAgain
  <2>2. ASSUME op.client.kind = "polymarket" PROVE ~Retries(reply)
    BY <1>1, <2>2, Zenon DEF Retries, PolymarketTriesAgain, SentOnce
  <2>3. ASSUME op.client.kind # "transport", op.client.kind # "polymarket" PROVE ~Retries(reply)
    BY <2>3, Zenon DEF Retries
  <2>4. QED BY <2>1, <2>2, <2>3, Zenon
<1>6. CallType
  BY Zenon DEF CallInv
<1>7. QED BY <1>1, <1>4, <1>5, <1>6, AnsweredFacts, Zenon

\* What is kept after an answer is kept in order.
LEMMA AppendKeeps ==
  ASSUME AnswerInv, call.part \in Nat, call.pc = "await", NEW body \in Bodies \cup {"none"}, Decodes(op, body),
         UNCHANGED op, call'.kept = Append(call.kept, [part |-> call.part, body |-> body])
  PROVE  /\ call'.kept \in Seq(KeptAnswers) /\ Len(call'.kept) = call.part
         /\ \A i \in DOMAIN call'.kept : call'.kept[i].part = i /\ Decodes(op', call'.kept[i].body)
         /\ call'.kept[Len(call'.kept)].body = body
<1> DEFINE new == [part |-> call.part, body |-> body]
<1>1. new \in KeptAnswers /\ new.part = call.part /\ new.body = body
  BY DEF KeptAnswers
<1>2. call.kept \in Seq(KeptAnswers) /\ Len(call.kept) + 1 = call.part
  BY Zenon DEF AnswerInv
<1>3. \A i \in DOMAIN call.kept : call.kept[i].part = i /\ Decodes(op, call.kept[i].body)
  BY Zenon DEF AnswerInv
<1> HIDE DEF new
<1>4. call'.kept = Append(call.kept, new)
  BY Zenon DEF new
<1>5. /\ call'.kept \in Seq(KeptAnswers) /\ Len(call'.kept) = Len(call.kept) + 1
      /\ DOMAIN call'.kept = 1..(Len(call.kept) + 1) /\ DOMAIN call.kept = 1..Len(call.kept)
      /\ \A i \in 1..Len(call.kept) : call'.kept[i] = call.kept[i]
      /\ call'.kept[Len(call.kept) + 1] = new
  BY <1>1, <1>2, <1>4
<1>6. \A i \in DOMAIN call'.kept : i \in DOMAIN call.kept \/ i = Len(call.kept) + 1
  BY <1>2, <1>5
<1>7. \A i \in DOMAIN call'.kept : call'.kept[i].part = i /\ Decodes(op', call'.kept[i].body)
  BY <1>1, <1>2, <1>3, <1>5, <1>6, Zenon
<1>8. QED BY <1>1, <1>2, <1>5, <1>7, Zenon

\* What an answer adds is kept in order, a success is complete, and so is what is
\* returned when there are too many pages.
LEMMA AnswerKeeps ==
  ASSUME CallInv, call.pc = "await", NEW reply, reply.body \in Bodies \cup {"none"}, Answered(reply), UNCHANGED op
  PROVE  AnswerInv'
<1>0. CallType /\ AnswerInv
  BY Zenon DEF CallInv
<1>1. PICK W : call \in CallShape(W)
  BY <1>0, Zenon DEF CallType
<1>2. call.part \in Nat /\ call.whole \in Nat /\ call.part <= call.whole
  BY <1>0, <1>1, Zenon DEF CallShape, AnswerInv
<1>3. /\ Result("ok").kind = "ok" /\ Result("partial").kind = "partial" /\ Result("undecodable").kind = "undecodable"
      /\ \A k : Result(k).typed = FALSE
  BY Zenon DEF Result
<1>4. Failure(reply).kind \notin {"ok", "partial"}
  BY Zenon DEF Failure, Result
<1>5. call.result.kind \notin {"ok", "partial"} /\ call.result.typed = FALSE
  BY <1>0, Zenon DEF AnswerInv
<1>6. SameBooks
  BY <1>0, AnsweredFacts, Zenon
<1>7. ASSUME Decodes(op, reply.body), call'.kept = Append(call.kept, [part |-> call.part, body |-> reply.body]),
             \/ /\ ~More(reply.body) /\ call'.pc = "returned" /\ call'.result = Result("ok")
                /\ call'.part = call.part
             \/ /\ More(reply.body) /\ op.pages /\ call.part = MaxPages
                /\ call'.pc = "returned" /\ call'.result = Result("partial")
                /\ call'.part = call.part
             \/ /\ More(reply.body) /\ call'.pc = "send" /\ call'.result = call.result
                /\ call'.part = call.part + 1
      PROVE  AnswerInv'
  <2>1. /\ call'.kept \in Seq(KeptAnswers) /\ Len(call'.kept) = call.part
        /\ \A i \in DOMAIN call'.kept : call'.kept[i].part = i /\ Decodes(op', call'.kept[i].body)
        /\ call'.kept[Len(call'.kept)].body = reply.body
    BY <1>0, <1>2, <1>7, AppendKeeps, Zenon
  <2>2. call'.whole = call.whole /\ op' = op /\ call'.whole \in Nat \ {0} /\ call'.whole \in op'.parts
    BY <1>0, <1>6, Zenon DEF SameBooks, AnswerInv
  <2>3. \A body : Decodes(op', body) /\ op'.decode \in {"all", "first"} => body # "cut" /\ body # "malformed"
    BY Zenon DEF Decodes, ReadsWhole
  <2>4. CASE ~More(reply.body) /\ call'.pc = "returned" /\ call'.result = Result("ok")
    <3>1. Len(call'.kept) = call'.whole \/ (op'.pages /\ reply.body = "other")
      BY <1>2, <2>1, <2>2, <2>4 DEF More
    <3>2. Len(call'.kept) # 0
      BY <1>0, <2>1 DEF AnswerInv
    <3>3. SuccessIsWhole'
      BY <1>3, <2>1, <2>3, <2>4, <3>1, <3>2, Zenon DEF SuccessIsWhole
    <3>4. QED BY <2>1, <2>2, <2>4, <3>3, Zenon DEF AnswerInv
  <2>5. CASE /\ More(reply.body) /\ op.pages /\ call.part = MaxPages
             /\ call'.pc = "returned" /\ call'.result = Result("partial")
    <3>1. call'.whole > MaxPages
      BY <1>2, <2>2, <2>5 DEF More
    <3>2. SuccessIsWhole'
      BY <1>3, <2>1, <2>2, <2>5, <3>1, Zenon DEF SuccessIsWhole
    <3>3. QED BY <2>1, <2>2, <2>5, <3>2, Zenon DEF AnswerInv
  <2>6. CASE More(reply.body) /\ call'.pc = "send" /\ call'.result = call.result /\ call'.part = call.part + 1
    <3>1. Len(call'.kept) + 1 = call'.part /\ call'.part <= call'.whole
      BY <1>2, <2>1, <2>2, <2>6 DEF More
    <3>2. SuccessIsWhole'
      BY <1>5, <2>6, Zenon DEF SuccessIsWhole
    <3>3. QED BY <1>5, <2>1, <2>2, <2>6, <3>1, <3>2, Zenon DEF AnswerInv
  <2>7. QED BY <1>7, <2>4, <2>5, <2>6, Zenon
<1>8. ASSUME call'.pc = "returned", call'.kept = call.kept, call'.part = call.part,
             call'.result \in {Result("undecodable"), Failure(reply)}
      PROVE  AnswerInv'
  <2>1. call'.result.kind \notin {"ok", "partial"}
    BY <1>3, <1>4, <1>8, Zenon
  <2>2. SuccessIsWhole'
    BY <2>1, Zenon DEF SuccessIsWhole
  <2>3. QED BY <1>0, <1>6, <1>8, <2>2, Zenon DEF AnswerInv, SameBooks
<1>9. ASSUME call'.pc = "backoff", call'.kept = call.kept, call'.part = call.part, call'.result = call.result
      PROVE  AnswerInv'
  BY <1>0, <1>6, <1>9, QuietStep, Zenon DEF SameBooks
<1>10. QED BY <1>0, <1>7, <1>8, <1>9, AnsweredFacts, Zenon

\* An answer, or the loss of one, and the death of the caller.
LEMMA EndOfRequestKeeps ==
  ASSUME CallInv, Reply \/ Break \/ Crash
  PROVE  CallInv'
<1>0. CallType /\ WireInv /\ WriteInv /\ RecordInv /\ ReadInv /\ AnswerInv
  BY Zenon DEF CallInv
<1>1. PICK W : call \in CallShape(W)
  BY <1>0, Zenon DEF CallType
<1>2. server \in [executed : Nat, orphans : Nat]
  BY <1>0, Zenon DEF CallType
<1>3. ASSUME call.pc = "await", NEW reply, reply.body \in Bodies \cup {"none"}, Answered(reply),
             UNCHANGED op, wire' = "none",
             server' = server \/ GiveUp(wire),
             call'.result.typed /\ IsDefinitiveSubmissionRejection(call'.result.status)
               => server' = server /\ wire # "executed"
      PROVE  CallInv'
  <2>1. (\E V : call' \in CallShape(V)) /\ SameBooks /\ call'.pc # "await"
    BY <1>0, <1>3, AnsweredFacts, Zenon
  <2>2. /\ server' \in [executed : Nat, orphans : Nat]
        /\ server'.executed = server.executed
        /\ server'.orphans # server.orphans =>
             op.write /\ wire = "sent" /\ server'.orphans = server.orphans + 1
    BY <1>0, <1>2, <1>3, GiveUpFacts, Zenon
  <2>3. CallType' /\ WireInv' /\ ReadInv'
    BY <1>0, <1>3, <2>1, <2>2, Zenon DEF CallType, WireInv, ReadInv
  <2>4. RecordInv'
    BY <1>0, <1>3, <2>1, <2>2, Zenon DEF RecordInv, SameBooks
  <2>5. AnswerInv'
    BY <1>3, AnswerKeeps, Zenon
  <2>6. WriteInv'
    <3>1. SUFFICES ASSUME op.write PROVE WriteInv'
      BY <1>3, Zenon DEF WriteInv
    <3>2. call'.pc = "returned" /\ call'.attempt = 1
      BY <1>0, <1>3, <3>1, WriteEnds, Zenon DEF WriteInv
    <3>3. wire \in {"sent", "moved", "executed"}
      BY <1>0, <1>3, <3>1, Zenon DEF WireInv, CallType, WriteInv
    <3>4. server'.executed + server'.orphans <= 1
      BY <1>0, <1>2, <2>2, <3>1, <3>3 DEF WriteInv
    <3>5. call'.result.typed /\ IsDefinitiveSubmissionRejection(call'.result.status)
            => server'.executed = 0 /\ server'.orphans = 0
      BY <1>0, <1>3, <3>1, <3>3, Zenon DEF WriteInv
    <3>6. QED BY <1>3, <3>2, <3>4, <3>5, Zenon DEF WriteInv
  <2>7. QED BY <2>3, <2>4, <2>5, <2>6, Zenon DEF CallInv
<1>4. ASSUME NEW reply, Answered(reply), call.pc = "await", call'.result.typed
      PROVE  reply.status # 0 /\ call'.result.status = reply.status
  <2>1. call'.result \in {Result("ok"), Result("partial"), Result("undecodable"), call.result, Failure(reply)}
    BY <1>0, <1>4, AnsweredFacts, Zenon
  <2>2. (\A k : Result(k).typed = FALSE) /\ call.result.typed = FALSE
    BY <1>0, <1>4, Zenon DEF Result, AnswerInv
  <2>3. call'.result = Failure(reply)
    BY <1>4, <2>1, <2>2, Zenon
  <2>4. QED BY <1>4, <2>2, <2>3 DEF Failure
<1>5. CASE Reply
  <2>1. PICK status \in Statuses, body \in Bodies, after \in Afters :
          /\ Truthful(status, body)
          /\ Answered([status |-> status, body |-> body, after |-> after])
          /\ IF Ambiguous(status) THEN GiveUp(wire) ELSE server' = server
    BY <1>5, Zenon DEF Reply
  <2> DEFINE reply == [status |-> status, body |-> body, after |-> after]
  <2>2. reply.status = status /\ reply.body \in Bodies \cup {"none"} /\ Answered(reply) /\ call.pc = "await" /\ UNCHANGED op /\ wire' = "none"
    BY <1>5, <2>1, Zenon DEF Reply
  <2> HIDE DEF reply
  <2>3. ASSUME call'.result.typed, IsDefinitiveSubmissionRejection(call'.result.status)
        PROVE  server' = server /\ wire # "executed"
    <3>1. status \in 400..499 /\ status # 408
      BY <1>4, <2>2, <2>3 DEF IsDefinitiveSubmissionRejection
    <3>2. ~Ambiguous(status) /\ ~IsSuccess(status)
      BY <3>1 DEF Ambiguous, IsSuccess
    <3>3. QED BY <2>1, <3>2, Zenon DEF Truthful
  <2>4. QED BY <1>3, <2>1, <2>2, <2>3, Zenon
<1>6. CASE Break
  <2>1. Answered(Broken) /\ Broken.status = 0 /\ Broken.body = "none" /\ call.pc = "await" /\ UNCHANGED op /\ wire' = "none" /\ GiveUp(wire)
    BY <1>6, Zenon DEF Break, Broken
  <2>2. ~call'.result.typed
    BY <1>4, <2>1, Zenon
  <2>3. QED BY <1>3, <2>1, <2>2, Zenon
<1>7. CASE Crash
  <2>1. /\ call' = [call EXCEPT !.pc = "crashed"] /\ GiveUp(wire) /\ wire' = "none" /\ UNCHANGED op
        /\ call.pc \notin {"returned", "crashed"} /\ op.record
    BY <1>7, Zenon DEF Crash
  <2>2. /\ call' \in CallShape(W) /\ SameBooks
        /\ call'.pc = "crashed"
        /\ call'.kept = call.kept /\ call'.part = call.part /\ call'.attempt = call.attempt
        /\ call'.result = call.result
    BY <1>1, <2>1, Zenon DEF CallShape, Stages, SameBooks
  <2>3. /\ server' \in [executed : Nat, orphans : Nat]
        /\ server'.executed = server.executed
        /\ server'.orphans # server.orphans =>
             op.write /\ wire = "sent" /\ server'.orphans = server.orphans + 1
    BY <1>0, <2>1, GiveUpFacts, Zenon
  <2>4. CallType' /\ WireInv' /\ ReadInv'
    BY <1>0, <2>1, <2>2, <2>3, Zenon DEF CallType, WireInv, ReadInv
  <2>5. AnswerInv'
    BY <1>0, <2>1, <2>2, QuietStep, Zenon DEF SameBooks
  <2>6. RecordInv'
    BY <1>0, <2>1, <2>2, <2>3, Zenon DEF RecordInv, WireInv, SameBooks
  <2>7. WriteInv'
    <3>1. call.result.typed = FALSE
      BY <1>0, <2>1, Zenon DEF AnswerInv
    <3>2. QED BY <1>0, <1>2, <2>1, <2>2, <2>3, <3>1 DEF WriteInv, CallType
  <2>8. QED BY <2>4, <2>5, <2>6, <2>7, Zenon DEF CallInv
<1>8. QED BY <1>5, <1>6, <1>7, Zenon

\* The invariant of a provider call holds at the start and every step keeps it.
LEMMA CallInductive ==
  /\ Init => CallInv
  /\ CallInv /\ [Next]_vars => CallInv'
<1>1. ASSUME Init PROVE CallInv
  <2>1. /\ op \in Operations /\ op.parts \subseteq Nat \ {0} /\ wire = "none"
        /\ server = [executed |-> 0, orphans |-> 0]
    BY <1>1, OperationsAreProper, Zenon DEF Init
  <2>0. PICK whole \in op.parts :
          call = [pc |-> "begin", part |-> 1, attempt |-> 1, wait |-> 0, delay |-> 0,
                  whole |-> whole, kept |-> <<>>, cancelled |-> FALSE, recorded |-> FALSE,
                  dispatched |-> FALSE, result |-> NoResult]
    BY <1>1, Zenon DEF Init
  <2>2. /\ call \in CallShape({0, whole, <<>>, NoResult})
        /\ call.pc = "begin" /\ call.part = 1 /\ call.attempt = 1 /\ call.kept = <<>>
        /\ call.whole = whole /\ call.dispatched = FALSE /\ call.result = NoResult
    BY <2>0, Zenon DEF CallShape, Stages
  <2>3. server \in [executed : Nat, orphans : Nat] /\ server.executed = 0 /\ server.orphans = 0
    BY <2>1, Zenon
  <2>4. call.result.kind = "none" /\ call.result.typed = FALSE
    BY <2>2 DEF NoResult
  <2>5. CallType /\ WireInv /\ WriteInv /\ RecordInv /\ ReadInv
    BY <2>1, <2>2, <2>3, <2>4 DEF CallType, WireInv, WriteInv, RecordInv, ReadInv
  <2>6. AnswerInv
    <3>1. call.whole \in op.parts /\ call.whole \in Nat \ {0}
      BY <2>0, <2>1, <2>2, Zenon
    <3>2. call.kept \in Seq(KeptAnswers) /\ Len(call.kept) = 0 /\ DOMAIN call.kept = {}
      BY <2>2
    <3>3. Len(call.kept) + 1 = call.part /\ call.part <= call.whole
      BY <2>2, <3>1, <3>2
    <3>4. SuccessIsWhole
      BY <2>4, Zenon DEF SuccessIsWhole
    <3>5. QED BY <2>2, <2>4, <3>1, <3>2, <3>3, <3>4, Zenon DEF AnswerInv
  <2>7. QED BY <2>5, <2>6, Zenon DEF CallInv
<1>2. ASSUME CallInv, [Next]_vars PROVE CallInv'
  <2>1. CASE UNCHANGED vars
    BY <1>2, <2>1, AnswersStay, Zenon DEF vars, CallInv, CallType, WireInv, WriteInv, RecordInv, ReadInv
  <2>2. QED BY <1>2, <2>1, ClientStepKeeps, WorldKeeps, EndOfRequestKeeps, Zenon DEF Next
<1>3. QED BY <1>1, <1>2, Zenon

\* No operation whose write is a single, unrepeated request is executed twice by the
\* provider, whatever is lost, late or refused (do, doPost, RoundTrip).
THEOREM WritesExecuteOnce == Spec => []WriteExecutesAtMostOnce
<1>1. ASSUME CallInv PROVE WriteExecutesAtMostOnce
  <2>1. server.executed \in Nat /\ server.orphans \in Nat
    BY <1>1, Zenon DEF CallInv, CallType
  <2>2. QED BY <1>1, <2>1 DEF CallInv, WriteInv, ReadInv, WriteExecutesAtMostOnce
<1>2. QED BY <1>1, CallInductive, PTL DEF Spec

\* What IsDefinitiveSubmissionRejection reports of an order or a cancellation is neither
\* executed nor can still be.
THEOREM RejectionsAreDefinitive == Spec => []RejectionIsDefinitive
<1>1. PolymarketPostOrder.write = TRUE /\ PolymarketCancelOrder.write = TRUE
  BY Zenon DEF PolymarketPostOrder, PolymarketCancelOrder, PolymarketDo, Request
<1>2. ASSUME CallInv PROVE RejectionIsDefinitive
  <2>1. SUFFICES ASSUME op \in {PolymarketPostOrder, PolymarketCancelOrder}, call.result.typed,
                        IsDefinitiveSubmissionRejection(call.result.status)
                 PROVE  server = [executed |-> 0, orphans |-> 0]
    BY Zenon DEF RejectionIsDefinitive
  <2>2. op.write
    BY <1>1, <2>1, Zenon
  <2>3. server.executed = 0 /\ server.orphans = 0 /\ server \in [executed : Nat, orphans : Nat]
    BY <1>2, <2>1, <2>2, Zenon DEF CallInv, WriteInv, CallType
  <2>4. QED BY <2>3, Zenon
<1>3. QED BY <1>2, CallInductive, PTL DEF Spec

\* A signed exchange action that is or may be executed was recorded before, also if the
\* process has died, and is reported as dispatched (ExchangePost, beforeDispatch).
THEOREM RecordedBeforeExecuted == Spec => []ExecutedWasRecorded
<1>1. ASSUME CallInv PROVE ExecutedWasRecorded
  <2>1. server.executed \in Nat /\ server.orphans \in Nat
    BY <1>1, Zenon DEF CallInv, CallType
  <2>2. QED BY <1>1, <2>1 DEF CallInv, RecordInv, ExecutedWasRecorded
<1>2. QED BY <1>1, CallInductive, PTL DEF Spec

\* Whatever fails, is repeated, cut or refused on the way, for any operations, any number
\* of requests of one, and any pages and cap on them: a success has the answers of all
\* parts in order, except that a page that says nothing ends a list (ListAllOpportunities,
\* GetTokens, GetMarket, GetStockFundamentals, GetEquityFacts).
THEOREM SuccessesAreWhole == Spec => []SuccessIsWhole
<1>1. CallInv => SuccessIsWhole
  BY Zenon DEF CallInv, AnswerInv
<1>2. QED BY <1>1, CallInductive, PTL DEF Spec

-----------------------------------------------------------------------------
(* The cache of rates *)

RateStages == {"idle", "lookup", "failure", "gate", "again", "failureAgain", "fetch", "clear",
               "fetched", "stale", "fallback", "returned"}
RateRecords == [date : Int, stale : BOOLEAN, until : Int]
RateCallerStates ==
  [pc : RateStages, day : Int, quote : Quotes \cup {""}, cancelled : BOOLEAN, until : Int,
   rate : RateRecords]

\* What a caller does while it holds fetchGate
BehindGate == {"again", "failureAgain", "fetch", "clear", "fetched"}

\* A rate that may be returned for the day
Recent(day, rate) ==
  /\ rate.date <= day /\ day - rate.date <= MaxStaleness
  /\ rate.stale <=> rate.date < day

\* Under a day only rates are stored that may be returned for it, a fallback included:
\* this is why a rate found under a day needs no second look at its age.
StoredInv ==
  \A d \in DOMAIN ratesByDate : \A q \in DOMAIN ratesByDate[d] :
    ratesByDate[d][q] \in RateRecords /\ Recent(d, ratesByDate[d][q])

ClockInv == now \in Nat /\ \A m \in DOMAIN failures : failures[m] \in Int

\* A caller by itself, given who holds the gate
CallerInv(c) ==
  /\ caller[c].pc \in BehindGate => gate = c
  /\ caller[c].pc = "fetch" => ~Suppressed(caller[c].day)
  /\ caller[c].pc = "fallback" => Recent(caller[c].day, caller[c].rate)
  /\ caller[c].pc = "returned" /\ caller[c].rate # NoRate
       => Recent(caller[c].day, caller[c].rate)

RateInv ==
  /\ caller \in [RateCallers -> RateCallerStates]
  /\ StoredInv /\ ClockInv
  /\ \A c \in RateCallers : CallerInv(c)

LEMMA RateFacts ==
  /\ Half \in Nat \ {0} /\ LastTick \in Nat /\ MonthDays \in Nat \ {0}
  /\ MaxStaleness \in Nat /\ FailureTTL \in Nat /\ Nobody \notin RateCallers
  /\ Forever \in Int /\ NoRate \in RateRecords
  BY RateConstants DEF Forever, NoRate, Rate, RateRecords

\* A set of integers that is bounded from above and not empty has a largest member.
LEMMA LargestExists ==
  ASSUME NEW S, S # {}, NEW top \in Int, \A x \in S : x \in Int /\ x <= top
  PROVE  Latest(S) \in S
<1> DEFINE D == {top - x : x \in S}
           Less == {p \in Nat \X Nat : p[1] < p[2]}
<1>1. IsWellFoundedOn(Less, Nat)
  BY NatLessThanWellFounded, Zenon DEF OpToRel
<1>2. D \subseteq Nat /\ D # {}
  OBVIOUS
<1>3. PICK d \in D : \A e \in D : <<e, d>> \notin Less
  <2> HIDE DEF D, Less
  <2> QED BY <1>1, <1>2, WFMin, Zenon
<1>4. PICK x \in S : d = top - x
  BY Zenon
<1>5. ASSUME NEW y \in S PROVE x >= y
  <2>1. top - y \in D /\ top - y \in Nat /\ d \in Nat
    BY <1>2, Zenon
  <2>2. <<top - y, d>> \notin Less
    BY <1>3, <2>1, Zenon
  <2>3. ~(top - y < d)
    BY <2>1, <2>2, Zenon
  <2>4. QED BY <1>4, <2>3
<1>6. QED BY <1>5, Zenon DEF Latest

\* What cachedRate finds may be returned.
LEMMA CachedIsRecent ==
  ASSUME StoredInv, NEW day, NEW quote
  PROVE  /\ cachedRate(day, quote) \in RateRecords
         /\ cachedRate(day, quote) # NoRate => Recent(day, cachedRate(day, quote))
  BY RateFacts, Zenon DEF StoredInv, cachedRate, HasRate

\* What cachedStaleRate finds may be returned, however it came to be stored.
LEMMA FallbackIsRecent ==
  ASSUME StoredInv, NEW day \in Int, NEW quote, NEW until \in Int
  PROVE  /\ cachedStaleRate(day, quote, until) \in RateRecords
         /\ cachedStaleRate(day, quote, until) # NoRate
              => Recent(day, cachedStaleRate(day, quote, until))
<1> DEFINE found == staleCandidates(day, quote)
           dates == {r.date : r \in found}
           rate == cachedStaleRate(day, quote, until)
<1>1. \A r \in found : r.date \in Int /\ r.date < day /\ day - r.date <= MaxStaleness
  BY Zenon DEF StoredInv, staleCandidates, HasRate, RateRecords
<1>2. CASE MaxStaleness <= 0 \/ dates = {}
  BY <1>2, RateFacts, Zenon DEF cachedStaleRate
<1>3. CASE ~(MaxStaleness <= 0) /\ dates # {}
  <2>1. \A x \in dates : x \in Int /\ x <= day
    BY <1>1
  <2>2. Latest(dates) \in dates
    BY <1>3, <2>1, LargestExists, Zenon
  <2>3. PICK r \in found : r.date = Latest(dates)
    BY <2>2, Zenon
  <2>4. rate = Rate(r.date, TRUE, until)
    BY <1>3, <2>3, Zenon DEF cachedStaleRate
  <2>5. rate.date = r.date /\ rate.stale = TRUE /\ rate \in RateRecords
    BY <1>1, <2>4 DEF Rate, RateRecords
  <2>6. Recent(day, rate)
    BY <1>1, <2>5 DEF Recent
  <2>7. QED BY <2>5, <2>6, Zenon
<1>4. QED BY <1>2, <1>3, Zenon

\* storeRates stores nothing but what it is given, and keeps nothing but what was stored.
LEMMA StoreKeeps ==
  ASSUME StoredInv, NEW rates, storeRates(rates),
         \A d \in DOMAIN rates : \A q \in DOMAIN rates[d] :
            rates[d][q] \in RateRecords /\ Recent(d, rates[d][q])
  PROVE  StoredInv'
<1> DEFINE Cached(d) == IF d \in DOMAIN ratesByDate THEN ratesByDate[d] ELSE <<>>
           Given(d) == IF d \in DOMAIN rates THEN rates[d] ELSE <<>>
<1>1. PICK days : ratesByDate' = [d \in days |->
        [q \in DOMAIN Cached(d) \union DOMAIN Given(d) |->
           IF q \in DOMAIN Given(d) THEN Given(d)[q] ELSE Cached(d)[q]]]
  BY Zenon DEF storeRates
<1>2. ASSUME NEW d \in DOMAIN ratesByDate', NEW q \in DOMAIN ratesByDate'[d]
      PROVE  ratesByDate'[d][q] \in RateRecords /\ Recent(d, ratesByDate'[d][q])
  <2>1. DOMAIN <<>> = {}
    OBVIOUS
  <2>2. \/ d \in DOMAIN rates /\ q \in DOMAIN rates[d] /\ ratesByDate'[d][q] = rates[d][q]
        \/ d \in DOMAIN ratesByDate /\ q \in DOMAIN ratesByDate[d]
             /\ ratesByDate'[d][q] = ratesByDate[d][q]
    BY <1>1, <1>2, <2>1, Zenon
  <2>3. QED BY <2>2, Zenon DEF StoredInv
<1>3. QED BY <1>2, Zenon DEF StoredInv

\* A caller that moves, among callers whose gate and whose failures it does not touch
LEMMA CallerMoves ==
  ASSUME RateInv, NEW c \in RateCallers, NEW next \in RateCallerStates,
         caller' = [caller EXCEPT ![c] = next], StoredInv', ClockInv',
         \A d \in RateCallers \ {c} : gate = d => gate' = d,
         \/ \A day \in Int : ~Suppressed(day) => ~Suppressed(day)'
         \/ \A d \in RateCallers \ {c} : caller[d].pc # "fetch",
         next.pc \in BehindGate => gate' = c,
         next.pc = "fetch" => ~Suppressed(next.day)',
         next.pc = "fallback" => Recent(next.day, next.rate),
         next.pc = "returned" /\ next.rate # NoRate => Recent(next.day, next.rate)
  PROVE  RateInv'
<1>1. caller' \in [RateCallers -> RateCallerStates]
  BY Zenon DEF RateInv
<1>2. ASSUME NEW d \in RateCallers PROVE CallerInv(d)'
  <2>1. CASE d = c
    <3>1. caller'[d] = next
      BY <2>1, Zenon DEF RateInv
    <3>2. QED BY <2>1, <3>1, Zenon DEF CallerInv, NoRate, Rate, Recent, Suppressed, Month, Expired
  <2>2. CASE d # c
    <3>1. caller'[d] = caller[d] /\ CallerInv(d) /\ caller[d].day \in Int
      BY <2>2, Zenon DEF RateInv, RateCallerStates
    <3>2. caller'[d].pc = "fetch" => ~Suppressed(caller[d].day)'
      BY <2>2, <3>1, Zenon DEF CallerInv
    <3>3. QED BY <2>2, <3>1, <3>2, Zenon DEF CallerInv, NoRate, Rate, Recent, Suppressed, Month, Expired
  <2>3. QED BY <2>1, <2>2, Zenon
<1>3. QED BY <1>1, <1>2, Zenon DEF RateInv

\* A month that is forgotten is not suppressed.
LEMMA ForgettingKeeps ==
  ASSUME ClockInv, now' = now,
         \A m \in DOMAIN failures' : m \in DOMAIN failures /\ failures'[m] = failures[m]
  PROVE  /\ ClockInv'
         /\ \A day \in Int : ~Suppressed(day) => ~Suppressed(day)'
  BY Zenon DEF ClockInv, Suppressed, Month, Expired

\* The steps that look into the caches or wait at the gate, and change neither rates nor
\* failures
LEMMA LooksKeep ==
  ASSUME RateInv, NEW c \in RateCallers,
         \/ Call(c) \/ Lookup(c) \/ EnterGate(c) \/ GateCancelled(c)
         \/ LookupFetched(c) \/ LookupStale(c) \/ Finish(c) \/ CancelCaller(c)
  PROVE  RateInv'
<1>0. caller \in [RateCallers -> RateCallerStates] /\ caller[c] \in RateCallerStates
      /\ StoredInv /\ ClockInv /\ CallerInv(c)
  BY Zenon DEF RateInv
<1>1. UNCHANGED <<now, ratesByDate, failures>>
  BY Zenon DEF Call, Lookup, EnterGate, GateCancelled, LookupFetched,
         LookupStale, Finish, CancelCaller
<1>2. StoredInv' /\ ClockInv'
  BY <1>0, <1>1, Zenon DEF StoredInv, ClockInv
<1>3. \A day \in Int : ~Suppressed(day) => ~Suppressed(day)'
  BY <1>0, <1>1, ForgettingKeeps, Zenon
<1>4. \A d \in RateCallers \ {c} : gate = d => gate' = d
  BY RateFacts, Zenon DEF Call, Lookup, EnterGate, GateCancelled,
     LookupFetched, LookupStale, Finish, CancelCaller
<1>5. IdleCaller \in RateCallerStates /\ IdleCaller.pc = "idle" /\ IdleCaller.rate = NoRate
  BY RateFacts DEF IdleCaller, RateCallerStates, RateStages
\* It is enough that the caller is right by itself.
<1>6. ASSUME NEW next \in RateCallerStates, caller' = [caller EXCEPT ![c] = next],
             next.pc \in BehindGate => gate' = c, next.pc # "fetch",
             next.pc = "fallback" => Recent(next.day, next.rate),
             next.pc = "returned" /\ next.rate # NoRate => Recent(next.day, next.rate)
      PROVE  RateInv'
  BY <1>2, <1>3, <1>4, <1>6, CallerMoves, Zenon
<1>7. CASE Call(c)
  <2>1. PICK day \in Days, quote \in Quotes :
          caller' = [caller EXCEPT ![c] = [IdleCaller EXCEPT !.pc = "lookup", !.day = effectiveDate(day), !.quote = quote]]
    BY <1>7, Zenon DEF Call
  <2>2. effectiveDate(day) \in Int
    BY <1>0, RateFacts DEF ClockInv, effectiveDate, Today, Days
  <2> DEFINE next == [IdleCaller EXCEPT !.pc = "lookup", !.day = effectiveDate(day), !.quote = quote]
  <2>3. next \in RateCallerStates /\ next.pc = "lookup"
    BY <1>5, <2>2, Zenon DEF RateCallerStates, RateStages
  <2>4. caller' = [caller EXCEPT ![c] = next]
    BY <2>1, Zenon
  <2> HIDE DEF next
  <2>5. QED BY <1>6, <2>3, <2>4, Zenon DEF BehindGate
\* A caller that only moves on, to where it may be by who holds the gate
<1>8. ASSUME NEW pc \in RateStages \ {"fetch", "fallback", "returned"}, CallerGoto(c, pc),
             pc \in BehindGate => gate' = c
      PROVE  RateInv'
  <2> DEFINE next == [caller[c] EXCEPT !.pc = pc]
  <2>1. next \in RateCallerStates /\ next.pc = pc
    BY <1>0, Zenon DEF RateCallerStates
  <2>2. caller' = [caller EXCEPT ![c] = next]
    BY <1>0, <1>8, Zenon DEF CallerGoto, RateCallerStates
  <2> HIDE DEF next
  <2>3. QED BY <1>6, <1>8, <2>1, <2>2, Zenon
\* A caller that returns what may be returned
<1>9. ASSUME NEW rate \in RateRecords, ReturnRate(c, rate),
             rate # NoRate => Recent(caller[c].day, rate)
      PROVE  RateInv'
  <2> DEFINE next == [caller[c] EXCEPT !.pc = "returned", !.rate = rate]
  <2>1. next \in RateCallerStates /\ next.pc = "returned" /\ next.rate = rate /\ next.day = caller[c].day
    BY <1>0, Zenon DEF RateCallerStates, RateStages
  <2>2. caller' = [caller EXCEPT ![c] = next]
    BY <1>0, <1>9, Zenon DEF ReturnRate, RateCallerStates
  <2> HIDE DEF next
  <2>3. QED BY <1>6, <1>9, <2>1, <2>2, Zenon DEF BehindGate
<1>10. CASE Lookup(c)
  <2>1. PICK rate : rate = cachedRate(caller[c].day, caller[c].quote)
    BY Zenon
  <2>2. rate \in RateRecords /\ (rate # NoRate => Recent(caller[c].day, rate))
    BY <1>0, <2>1, CachedIsRecent, Zenon
  <2>3. CASE rate # NoRate
    <3>1. ReturnRate(c, rate)
      BY <1>10, <2>1, <2>3, Zenon DEF Lookup
    <3>2. QED BY <1>9, <2>2, <3>1, Zenon
  <2>4. CASE rate = NoRate /\ caller[c].pc = "lookup"
    <3>1. CallerGoto(c, "failure")
      BY <1>10, <2>1, <2>4, Zenon DEF Lookup
    <3>2. QED BY <1>8, <3>1, Zenon DEF RateStages, BehindGate
  <2>5. CASE rate = NoRate /\ caller[c].pc = "again"
    <3>1. CallerGoto(c, "failureAgain") /\ gate' = c
      BY <1>0, <1>10, <2>1, <2>5, Zenon DEF Lookup, CallerInv, BehindGate
    <3>2. QED BY <1>8, <3>1, Zenon DEF RateStages
  <2>6. QED BY <1>10, <2>3, <2>4, <2>5, Zenon DEF Lookup
<1>11. CASE EnterGate(c)
  <2>1. CallerGoto(c, "again") /\ gate' = c
    BY <1>11, Zenon DEF EnterGate
  <2>2. QED BY <1>8, <2>1, Zenon DEF RateStages
<1>12. CASE GateCancelled(c)
  BY <1>9, <1>12, RateFacts, Zenon DEF GateCancelled
<1>13. CASE LookupFetched(c)
  <2>1. PICK rate : rate = cachedRate(caller[c].day, caller[c].quote)
    BY Zenon
  <2>2. rate \in RateRecords /\ (rate # NoRate => Recent(caller[c].day, rate))
    BY <1>0, <2>1, CachedIsRecent, Zenon
  <2>3. ReturnRate(c, rate) \/ CallerGoto(c, "stale")
    BY <1>13, <2>1, Zenon DEF LookupFetched
  <2>4. "stale" \in RateStages \ {"fetch", "fallback", "returned"} /\ "stale" \notin BehindGate
    BY Zenon DEF RateStages, BehindGate
  <2>5. QED BY <1>8, <1>9, <2>2, <2>3, <2>4, Zenon
<1>14. CASE LookupStale(c)
  <2>1. PICK rate : rate = cachedStaleRate(caller[c].day, caller[c].quote, caller[c].until)
    BY Zenon
  <2>2. caller[c].day \in Int /\ caller[c].until \in Int
    BY <1>0, Zenon DEF RateCallerStates
  <2>3. rate \in RateRecords /\ (rate # NoRate => Recent(caller[c].day, rate))
    BY <1>0, <2>1, <2>2, FallbackIsRecent, Zenon
  <2>4. CASE rate = NoRate
    <3>1. ReturnRate(c, rate)
      BY <1>14, <2>1, <2>4, Zenon DEF LookupStale
    <3>2. QED BY <1>9, <2>3, <3>1, Zenon
  <2>5. CASE rate # NoRate
    <3> DEFINE next == [caller[c] EXCEPT !.pc = "fallback", !.rate = rate]
    <3>1. next \in RateCallerStates /\ next.pc = "fallback" /\ next.rate = rate /\ next.day = caller[c].day
      BY <1>0, <2>3, Zenon DEF RateCallerStates, RateStages
    <3>2. caller' = [caller EXCEPT ![c].pc = "fallback", ![c].rate = rate]
      BY <1>14, <2>1, <2>5, Zenon DEF LookupStale
    <3>3. caller' = [caller EXCEPT ![c] = next]
      BY <1>0, <3>2, Zenon DEF RateCallerStates
    <3> HIDE DEF next
    <3>4. QED BY <1>6, <2>3, <2>5, <3>1, <3>3, Zenon DEF BehindGate
  <2>6. QED BY <2>4, <2>5, Zenon
<1>15. CASE Finish(c)
  <2>1. caller' = [caller EXCEPT ![c] = IdleCaller]
    BY <1>15, Zenon DEF Finish
  <2>2. QED BY <1>5, <1>6, <2>1, Zenon DEF BehindGate
<1>16. CASE CancelCaller(c)
  <2> DEFINE next == [caller[c] EXCEPT !.cancelled = TRUE]
  <2>1. /\ next \in RateCallerStates /\ next.pc = caller[c].pc /\ next.day = caller[c].day
        /\ caller[c].day \in Int
    BY <1>0, Zenon DEF RateCallerStates
  <2>2. caller' = [caller EXCEPT ![c] = next]
    BY <1>0, <1>16, Zenon DEF CancelCaller, RateCallerStates
  <2>3. gate' = gate /\ caller[c].pc \in {"gate", "fetch"}
    BY <1>16, Zenon DEF CancelCaller
  <2> HIDE DEF next
  <2>4. next.pc \in BehindGate => gate' = c
    BY <1>0, <2>1, <2>3, Zenon DEF CallerInv
  <2>5. next.pc = "fetch" => ~Suppressed(next.day)
    BY <1>0, <2>1, Zenon DEF CallerInv
  <2>6. PICK day \in Int : day = next.day
    BY <2>1, Zenon
  <2>7. next.pc = "fetch" => ~Suppressed(day)'
    BY <1>3, <2>5, <2>6, Zenon
  <2>8. caller' \in [RateCallers -> RateCallerStates] /\ caller'[c] = next
        /\ \A d \in RateCallers \ {c} : caller'[d] = caller[d]
    BY <1>0, <2>1, <2>2, Zenon
  <2>9. CallerInv(c)'
    BY <2>1, <2>3, <2>4, <2>6, <2>7, <2>8, Zenon
    DEF CallerInv, Suppressed, Month, Expired
  <2>10. ASSUME NEW d \in RateCallers \ {c} PROVE CallerInv(d)'
    BY <1>1, <2>3, <2>8, <2>10, Zenon
    DEF RateInv, CallerInv, Suppressed, Month, Expired, Recent, NoRate, Rate
  <2>11. QED BY <1>2, <2>8, <2>9, <2>10, Zenon DEF RateInv
<1>17. QED BY <1>7, <1>10, <1>11, <1>12, <1>13, <1>14, <1>15, <1>16, Zenon

\* A response gives the rates of its days their dates.
LEMMA ResponseFacts ==
  ASSUME NEW day, NEW rates \in Responses(day), NEW d \in DOMAIN rates
  PROVE  /\ d \in monthRange(day)
         /\ \A q \in DOMAIN rates[d] : rates[d][q] = Rate(d, FALSE, Forever)
<1>1. PICK days \in SUBSET monthRange(day), quotes \in SUBSET Quotes :
        rates = decoded(days, quotes)
  BY DEF Responses
<1>2. DOMAIN rates = days /\ rates[d] = [q \in quotes |-> Rate(d, FALSE, Forever)]
  BY <1>1, Zenon DEF decoded
<1>3. QED BY <1>1, <1>2, Zenon

LEMMA UpdatedFacts ==
  ASSUME NEW f, NEW x, NEW v, NEW y \in DOMAIN Updated(f, x, v)
  PROVE  Updated(f, x, v)[y] = v \/ (y \in DOMAIN f /\ Updated(f, x, v)[y] = f[y])
  BY Zenon DEF Updated

\* The steps that change rates or failures
LEMMA FetchesKeep ==
  ASSUME RateInv, NEW c \in RateCallers,
         \/ LookupFailure(c) \/ Fetched(c) \/ clearFailure(c)
         \/ FetchFailed(c) \/ StoreFallback(c)
  PROVE  RateInv'
<1>0. caller \in [RateCallers -> RateCallerStates] /\ caller[c] \in RateCallerStates
      /\ StoredInv /\ ClockInv /\ CallerInv(c)
  BY Zenon DEF RateInv
<1>1. gate' = gate /\ now' = now
  BY Zenon DEF LookupFailure, Fetched, clearFailure, FetchFailed, StoreFallback
<1>2. caller[c].day \in Int /\ caller[c].until \in Int /\ caller[c].rate \in RateRecords
  BY <1>0, Zenon DEF RateCallerStates
<1>3. CASE LookupFailure(c)
  <2>1. StoredInv'
    BY <1>0, <1>3, Zenon DEF StoredInv, LookupFailure
  <2>2. \A m \in DOMAIN failures' : m \in DOMAIN failures /\ failures'[m] = failures[m]
    BY <1>3, Zenon DEF LookupFailure, DropExpired, Without
  <2>3. ClockInv' /\ \A day \in Int : ~Suppressed(day) => ~Suppressed(day)'
    BY <1>0, <1>1, <2>2, ForgettingKeeps, Zenon
  <2>4. CASE Suppressed(caller[c].day)
    <3> DEFINE until == failures[Month(caller[c].day)]
               next == [caller[c] EXCEPT !.pc = "stale", !.until = until]
    <3>1. until \in Int
      BY <1>0, <2>4, Zenon DEF ClockInv, Suppressed
    <3>2. caller' = [caller EXCEPT ![c].pc = "stale", ![c].until = until]
      BY <1>3, <2>4, Zenon DEF LookupFailure
    <3> HIDE DEF until
    <3>3. next \in RateCallerStates /\ next.pc = "stale"
      BY <1>0, <3>1, Zenon DEF RateCallerStates, RateStages
    <3>4. caller' = [caller EXCEPT ![c] = next]
      BY <1>0, <3>2, Zenon DEF RateCallerStates
    <3> HIDE DEF next
    <3>5. QED BY <1>1, <2>1, <2>3, <3>3, <3>4, CallerMoves, Zenon DEF BehindGate
  <2>5. CASE ~Suppressed(caller[c].day)
    <3>1. PICK pc : pc = IF caller[c].pc = "failure" THEN "gate" ELSE "fetch"
      BY Zenon
    <3> DEFINE next == [caller[c] EXCEPT !.pc = pc]
    <3>2. caller' = [caller EXCEPT ![c].pc = pc]
      BY <1>3, <2>5, <3>1, Zenon DEF LookupFailure, CallerGoto
    <3>3. next \in RateCallerStates /\ next.pc = pc /\ next.day = caller[c].day
      BY <1>0, <3>1, Zenon DEF RateCallerStates, RateStages
    <3>4. caller' = [caller EXCEPT ![c] = next]
      BY <1>0, <3>2, Zenon DEF RateCallerStates
    <3>5. pc \in BehindGate => gate' = c
      BY <1>0, <1>1, <1>3, <3>1, Zenon DEF LookupFailure, CallerInv, BehindGate
    <3> HIDE DEF next
    <3>6. PICK day \in Int : day = caller[c].day
      BY <1>2, Zenon
    <3>7. ~Suppressed(day)'
      BY <2>3, <2>5, <3>6, Zenon
    <3>8. next.day = day
      BY <3>3, <3>6, Zenon
    <3>9. pc \in {"gate", "fetch"}
      BY <3>1, Zenon
    <3>10. QED BY <1>1, <2>1, <2>3, <3>3, <3>4, <3>5, <3>7, <3>8, <3>9, CallerMoves, Zenon
  <2>6. QED BY <2>4, <2>5, Zenon
<1>4. CASE Fetched(c)
  <2>1. PICK rates \in Responses(caller[c].day) : storeRates(rates)
    BY <1>4, Zenon DEF Fetched
  <2>2. \A d \in DOMAIN rates : /\ d \in monthRange(caller[c].day)
          /\ \A q \in DOMAIN rates[d] : rates[d][q] = Rate(d, FALSE, Forever)
    BY <2>1, ResponseFacts, Zenon
  <2>3. \A d \in DOMAIN rates : \A q \in DOMAIN rates[d] :
          d \in Int /\ rates[d][q] = Rate(d, FALSE, Forever)
    <3>1. \A d \in monthRange(caller[c].day) : d \in Int
      BY DEF Days, monthRange
    <3>2. QED BY <2>2, <3>1, Zenon
  <2>4. \A d \in Int : /\ Rate(d, FALSE, Forever) \in RateRecords
                       /\ Recent(d, Rate(d, FALSE, Forever))
    BY RateFacts DEF Rate, RateRecords, Recent
  <2>5. StoredInv'
    BY <1>0, <2>1, <2>3, <2>4, StoreKeeps, Zenon
  <2>6. failures' = failures /\ caller' = [caller EXCEPT ![c].pc = "clear"] /\ caller[c].pc = "fetch"
    BY <1>4, Zenon DEF Fetched, CallerGoto
  <2>7. ClockInv' /\ \A day \in Int : ~Suppressed(day) => ~Suppressed(day)'
    BY <1>0, <1>1, <2>6, ForgettingKeeps, Zenon
  <2> DEFINE next == [caller[c] EXCEPT !.pc = "clear"]
  <2>8. next \in RateCallerStates /\ next.pc = "clear"
    BY <1>0, Zenon DEF RateCallerStates, RateStages
  <2>9. caller' = [caller EXCEPT ![c] = next]
    BY <1>0, <2>6, Zenon DEF RateCallerStates
  <2>10. gate = c
    BY <1>0, <2>6, Zenon DEF CallerInv, BehindGate
  <2> HIDE DEF next
  <2>11. QED BY <1>1, <2>5, <2>7, <2>8, <2>9, <2>10, CallerMoves, Zenon
<1>5. CASE clearFailure(c)
  <2>1. StoredInv'
    BY <1>0, <1>5, Zenon DEF StoredInv, clearFailure
  <2>2. \A m \in DOMAIN failures' : m \in DOMAIN failures /\ failures'[m] = failures[m]
    BY <1>5, Zenon DEF clearFailure, Without
  <2>3. ClockInv' /\ \A day \in Int : ~Suppressed(day) => ~Suppressed(day)'
    BY <1>0, <1>1, <2>2, ForgettingKeeps, Zenon
  <2> DEFINE next == [caller[c] EXCEPT !.pc = "fetched"]
  <2>4. next \in RateCallerStates /\ next.pc = "fetched"
    BY <1>0, Zenon DEF RateCallerStates, RateStages
  <2>5. caller' = [caller EXCEPT ![c] = next]
    BY <1>0, <1>5, Zenon DEF RateCallerStates, clearFailure, CallerGoto
  <2>6. gate = c
    BY <1>0, <1>5, Zenon DEF CallerInv, BehindGate, clearFailure
  <2> HIDE DEF next
  <2>7. QED BY <1>1, <2>1, <2>3, <2>4, <2>5, <2>6, CallerMoves, Zenon
\* The failure that is stored suppresses a month, but nobody else is about to ask: who
\* is holds the gate.
<1>6. CASE FetchFailed(c)
  <2>1. StoredInv' /\ caller[c].pc = "fetch"
    BY <1>0, <1>6, Zenon DEF StoredInv, FetchFailed
  <2>2. \A d \in RateCallers \ {c} : caller[d].pc # "fetch"
    BY <1>0, <2>1, Zenon DEF RateInv, CallerInv, BehindGate
  <2>3. ClockInv'
    <3>1. CASE failures' = failures
      BY <1>0, <1>1, <3>1, Zenon DEF ClockInv
    <3>2. CASE failures' # failures
      <4>1. storeFailure(caller[c].day)
        BY <1>6, <3>2, Zenon DEF FetchFailed
      <4> DEFINE kept == [m \in {k \in DOMAIN failures : ~Expired(k)} |-> failures[m]]
      <4>2. PICK month : failures' = Updated(kept, month, now + FailureTTL)
        BY <3>2, <4>1, Zenon DEF storeFailure
      <4>3. \A m \in DOMAIN failures' :
              failures'[m] = now + FailureTTL \/ (m \in DOMAIN failures /\ failures'[m] = failures[m])
        <5>1. \A m \in DOMAIN kept : m \in DOMAIN failures /\ kept[m] = failures[m]
          BY Zenon
        <5> HIDE DEF kept
        <5>2. ASSUME NEW m \in DOMAIN failures'
              PROVE  failures'[m] = now + FailureTTL \/ (m \in DOMAIN kept /\ failures'[m] = kept[m])
          <6>1. m \in DOMAIN Updated(kept, month, now + FailureTTL)
            BY <4>2, <5>2, Zenon
          <6>2. QED BY <4>2, <6>1, UpdatedFacts
        <5>3. QED BY <5>1, <5>2, Zenon
      <4>4. now + FailureTTL \in Int
        BY <1>0, RateFacts DEF ClockInv
      <4>5. QED BY <1>0, <1>1, <4>3, <4>4, Zenon DEF ClockInv
    <3>3. QED BY <3>1, <3>2, Zenon
  <2>4. PICK until : until = IF caller[c].cancelled THEN Forever ELSE now + FailureTTL
    BY Zenon
  <2>5. until \in Int
    BY <1>0, <2>4, RateFacts DEF ClockInv
  <2> DEFINE next == [caller[c] EXCEPT !.pc = "stale", !.until = until]
  <2>6. next \in RateCallerStates /\ next.pc = "stale"
    BY <1>0, <2>5, Zenon DEF RateCallerStates, RateStages
  <2>7. caller' = [caller EXCEPT ![c].pc = "stale", ![c].until = until]
    BY <1>6, <2>4, Zenon DEF FetchFailed
  <2>8. caller' = [caller EXCEPT ![c] = next]
    BY <1>0, <2>7, Zenon DEF RateCallerStates
  <2> HIDE DEF next
  <2>9. QED BY <1>1, <2>1, <2>2, <2>3, <2>6, <2>8, CallerMoves, Zenon DEF BehindGate
<1>7. CASE StoreFallback(c)
  <2>1. PICK day, quote, rate : day = caller[c].day /\ quote = caller[c].quote /\ rate = caller[c].rate
    BY Zenon
  <2> DEFINE rates == [d \in {day} |-> [q \in {quote} |-> rate]]
  <2>2. storeRates(rates)
    BY <1>7, <2>1, Zenon DEF StoreFallback, storeFallback
  <2>3. Recent(day, rate) /\ rate \in RateRecords /\ caller[c].pc = "fallback"
    BY <1>0, <1>2, <1>7, <2>1, Zenon DEF CallerInv, StoreFallback
  <2>4. \A d \in DOMAIN rates : \A q \in DOMAIN rates[d] : d = day /\ rates[d][q] = rate
    BY Zenon
  <2> HIDE DEF rates
  <2>5. StoredInv'
    BY <1>0, <2>2, <2>3, <2>4, StoreKeeps, Zenon
  <2>6. failures' = failures /\ caller' = [caller EXCEPT ![c].pc = "returned"]
    BY <1>7, Zenon DEF StoreFallback, CallerGoto
  <2>7. ClockInv' /\ \A x \in Int : ~Suppressed(x) => ~Suppressed(x)'
    BY <1>0, <1>1, <2>6, ForgettingKeeps, Zenon
  <2> DEFINE next == [caller[c] EXCEPT !.pc = "returned"]
  <2>8. next \in RateCallerStates /\ next.pc = "returned" /\ next.day = day /\ next.rate = rate
    BY <1>0, <2>1, Zenon DEF RateCallerStates, RateStages
  <2>9. caller' = [caller EXCEPT ![c] = next]
    BY <1>0, <2>6, Zenon DEF RateCallerStates
  <2> HIDE DEF next
  <2>10. QED BY <1>1, <2>3, <2>5, <2>7, <2>8, <2>9, CallerMoves, Zenon DEF BehindGate
<1>8. QED BY <1>3, <1>4, <1>5, <1>6, <1>7, Zenon

LEMMA RateInductive ==
  /\ RatesInit => RateInv
  /\ RateInv /\ [RatesNext]_rateVars => RateInv'
<1>1. ASSUME RatesInit PROVE RateInv
  <2>1. IdleCaller \in RateCallerStates /\ IdleCaller.pc = "idle"
    BY RateFacts DEF IdleCaller, RateCallerStates, RateStages
  <2>2. caller \in [RateCallers -> RateCallerStates] /\ \A c \in RateCallers : caller[c].pc = "idle"
    BY <1>1, <2>1, Zenon DEF RatesInit
  <2>3. DOMAIN ratesByDate = {} /\ DOMAIN failures = {} /\ now \in Nat
    BY <1>1, RateFacts DEF RatesInit
  <2>4. QED BY <2>2, <2>3, Zenon DEF RateInv, StoredInv, ClockInv, CallerInv, BehindGate
<1>2. ASSUME RateInv, [RatesNext]_rateVars PROVE RateInv'
  <2>1. CASE Tick
    <3>1. UNCHANGED <<ratesByDate, failures, gate, caller>> /\ now' = now + 1 /\ now \in Nat
      BY <1>2, <2>1, Zenon DEF Tick, RateInv, ClockInv
    <3>2. StoredInv' /\ ClockInv'
      BY <1>2, <3>1 DEF RateInv, StoredInv, ClockInv
    <3>3. ASSUME NEW c \in RateCallers PROVE CallerInv(c)'
      <4>1. CallerInv(c) /\ ClockInv /\ UNCHANGED caller[c]
        BY <1>2, <3>1, Zenon DEF RateInv
      <4>2. caller[c].pc = "fetch" => ~Suppressed(caller[c].day)'
        BY <3>1, <4>1 DEF CallerInv, ClockInv, Suppressed, Month, Expired
      <4>3. QED BY <3>1, <4>1, <4>2, Zenon DEF CallerInv, Recent, NoRate, Rate
    <3>4. QED BY <1>2, <3>1, <3>2, <3>3, Zenon DEF RateInv
  <2>2. CASE UNCHANGED rateVars
    <3>1. UNCHANGED <<now, ratesByDate, failures, gate, caller>>
      BY <2>2, Zenon DEF rateVars
    <3>2. QED BY <1>2, <3>1, Zenon DEF RateInv, StoredInv, ClockInv, CallerInv, Recent, NoRate, Rate,
                Suppressed, Month, Expired
  <2>3. ASSUME NEW c \in RateCallers, Call(c) \/ RateStep(c) \/ CancelCaller(c) PROVE RateInv'
    BY <1>2, <2>3, LooksKeep, FetchesKeep, Zenon DEF RateStep
  <2>4. QED BY <1>2, <2>1, <2>2, <2>3, Zenon DEF RatesNext
<1>3. QED BY <1>1, <1>2, Zenon

\* GetRate never returns a rate of a later day or one that is too old, and marks what is
\* of an earlier day, for any callers, clock, months and limits: fallbacks that are
\* stored, found and stored again under later days included.
THEOREM RatesAreRecent == RatesSpec => []RateIsRecent
<1>1. RateInv => RateIsRecent
  BY Zenon DEF RateInv, CallerInv, Recent, RateIsRecent
<1>2. QED BY <1>1, RateInductive, PTL DEF RatesSpec

\* GetRate makes no request for a month whose failure is remembered, though callers
\* looked before it failed.
THEOREM FailuresSuppress == RatesSpec => []FailureSuppressesRetries
<1>1. RateInv => FailureSuppressesRetries
  BY Zenon DEF RateInv, CallerInv, FailureSuppressesRetries
<1>2. QED BY <1>1, RateInductive, PTL DEF RatesSpec

-----------------------------------------------------------------------------
(* The composition *)

\* Every behaviour of the composed clients is a behaviour of each part, so what is
\* proved of a part holds of it among the others.
THEOREM PartsAreThemselves ==
  ClientsSpec => Spec /\ RatesSpec /\ ShareSpec /\ TableSpec /\ SubmitSpec
<1>1. ClientsInit => Init /\ RatesInit /\ ShareInit /\ TableInit /\ SubmitInit
  BY Zenon DEF ClientsInit
<1>2. [ClientsNext]_allVars => /\ [Next]_vars /\ [RatesNext]_rateVars /\ [ShareNext]_shareVars
                               /\ [TableNext]_tableVars /\ [SubmitNext]_submitVars
  BY Zenon DEF ClientsNext, Within, allVars
<1>3. QED BY <1>1, <1>2, PTL DEF ClientsSpec, Spec, RatesSpec, ShareSpec, TableSpec, SubmitSpec
=============================================================================
