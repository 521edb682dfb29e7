---------------------------- MODULE HttpTransport ----------------------------
(***************************************************************************)
(* pkg/http_client: what the clients it builds do with one reply.          *)
(*                                                                         *)
(* A reply is a record [status, body, after]: the status code, 0 when the  *)
(* base transport fails; how the body reads; and the Retry-After header in *)
(* seconds, 0 when there is none. Statuses stand for their classes, and    *)
(* bodies are told apart only as far as a decoder can:                     *)
(*   "good"       the answer to the request,                               *)
(*   "other"      well formed, but without the value, record, row or list  *)
(*                asked for,                                               *)
(*   "embedded"   well formed, reporting an error in its own fields,       *)
(*   "malformed"  no JSON,                                                 *)
(*   "trailing"   the answer, with more input behind it,                   *)
(*   "oversize"   the answer, longer than a limit on the body,             *)
(*   "cut"        the connection breaks while the body is read.            *)
(* Durations are counted in ticks and have DurationBits bits.              *)
(***************************************************************************)
EXTENDS Integers

CONSTANTS
    Second,         \* ticks in time.Second
    DurationBits    \* width of time.Duration

ASSUME DurationAssumption == Second \in Nat \ {0} /\ DurationBits \in Nat \ {0}

Bodies == {"good", "other", "embedded", "malformed", "trailing", "oversize", "cut"}
Broken == [status |-> 0, body |-> "none", after |-> 0]
IsSuccess(status) == status \in 200..299

Longer(a, b) == IF a > b THEN a ELSE b
\* Two's complement of a product of durations
Wrap(d) == ((d + 2^(DurationBits - 1)) % 2^DurationBits) - 2^(DurationBits - 1)

\* The builder's settings and defaults; a client of the transport never follows a
\* redirect, because RoundTrip turns a 3xx response into an error.
BuildClient(maxRetries, retryDelay) ==
    [kind |-> "transport", attempts |-> maxRetries + 1, delay |-> retryDelay,
     maxRetryAfter |-> 30 * Second, noRedirect |-> FALSE, follows |-> FALSE]

parseRetryAfter(seconds) == IF seconds <= 0 THEN 0 ELSE Wrap(seconds * Second)

\* The status error carries Retry-After only if its body could be read, and
\* RetryAfter reports it only if positive.
retryAfterOf(reply) ==
    IF reply.status = 0 \/ reply.body = "cut" THEN 0 ELSE Longer(parseRetryAfter(reply.after), 0)

\* attempt: is this failure worth another try?
Retryable(c, reply, cancelled) ==
    IF reply.status = 0
    THEN ~cancelled
    ELSE /\ reply.status \notin {400, 401, 403}
         /\ ~(c.noRedirect /\ reply.status < 400)

\* The Retry-After RoundTrip looks at
Honoured(c, reply) == IF c.maxRetryAfter > 0 THEN retryAfterOf(reply) ELSE 0

\* RoundTrip tries again after the attempt-th reply.
TriesAgain(c, reply, attempt, cancelled) ==
    /\ ~IsSuccess(reply.status)
    /\ Retryable(c, reply, cancelled)
    /\ attempt < Longer(c.attempts, 1)
    /\ Honoured(c, reply) <= c.maxRetryAfter

\* How long it waits before that, where wait has doubled with each attempt.
RetryDelay(c, reply, wait) == Longer(wait, Honoured(c, reply))

\* The reader of a successful body with SetMaxResponseBytes, or of a caller that reads
\* one byte past its limit: a body of exactly the limit still reads to its end.
ReadsWhole(limit, body) ==
    /\ body # "cut"
    /\ body = "oversize" => limit = "none"
==============================================================================
