------------------------------- MODULE ApiClient -------------------------------
(***************************************************************************)
(* The client of the deployment record API, pkg/deploymentrecord/client.go: *)
(* the retry loop of doWithRetry, run by several goroutines that share the *)
(* deadline of the last rate-limit answer, and the calls built on it       *)
(* (PostOne, CreateClusterJob, WaitForClusterJob).                         *)
(*                                                                         *)
(* Time is a counter.  Sleeps until the shared deadline are timed; retry   *)
(* backoff, the request throttler and the delay between two polls of a job *)
(* take any time.                                                          *)
(***************************************************************************)
EXTENDS Naturals, FiniteSetsExt

CONSTANTS
    Callers,      \* the goroutines that call
    Calls,        \* what each of them calls: names of the client's methods
    Retries,      \* the client's retries, after the first attempt
    RetryAfters,  \* the values of Retry-After headers
    Resets,       \* the values of X-Ratelimit-Reset headers
    Minute,       \* the delay of a rate-limit answer that states none
    MaxTime,      \* bound: the clock
    Nil           \* no call

Methods == {"PostOne", "CreateClusterJob", "WaitForClusterJob"}

ASSUME CallsAssumption == Calls \in [Callers -> SUBSET Methods] /\ Nil \notin Methods
ASSUME TimesAssumption ==
    /\ Retries \in Nat /\ Minute \in Nat /\ MaxTime \in Nat
    /\ RetryAfters \subseteq Nat /\ Resets \subseteq Nat

VARIABLES
    now,        \* the clock
    deadline,   \* rateLimitDeadline, shared by the callers
    pc,         \* where each caller is
    request,    \* what it calls, Nil between two calls
    attempt,    \* its attempts before this one
    timer,      \* the time it sleeps until, or the deadline it wants to record
    current,    \* the deadline its compare-and-swap loop has loaded
    outcome,    \* how its call ended
    asked,      \* history: how long the API told it to wait in this call
    cancelled,  \* the context of the process
    timedOut,   \* the five-minute context of a caller that waits for a job
    applied,    \* history: the requests the API applied
    late        \* requests given up that may still reach the API

timeVars   == <<now, asked>>
ctxVars    == <<cancelled, timedOut>>
retryVars  == <<request, attempt, outcome>>
serverVars == <<applied, late>>
vars == <<timeVars, deadline, pc, retryVars, timer, current, ctxVars, serverVars>>

PCs == {"idle", "backoff", "limit", "sleep", "throttle", "sent", "applied", "load",
        "swap", "poll", "returned"}
Outcomes == {"ok", "missing", "refused", "conflict", "noRepositories", "failed"}

Done(c) == cancelled \/ timedOut[c]
Goto(c, l) == pc' = [pc EXCEPT ![c] = l]

-----------------------------------------------------------------------------
(***************************************************************************)
(* parseRateLimitDelay.  A header that is absent or not a number is {},    *)
(* any other the set of its value; exhausted is X-Ratelimit-Remaining: 0.  *)
(***************************************************************************)
Optional(S) == {{}} \cup {{v} : v \in S}
Headers == [after : Optional(RetryAfters), exhausted : BOOLEAN, reset : Optional(Resets)]

\* The points in time the headers ask to wait for.
Asked(h, t) ==
    {t + d : d \in h.after} \cup {e \in h.reset : h.exhausted /\ e > t}

\* A faulty variant: Retry-After wins over X-Ratelimit-Reset.
RetryAfterFirst(h, t) ==
    LET delays == h.after \cup {e - t : e \in {r \in h.reset : h.exhausted /\ r > t}}
    IN  CASE delays = {} -> Minute
          [] delays # {} /\ h.after # {} -> Max(h.after)
          [] OTHER -> Max(delays)

\* The largest delay the headers ask for, a minute if they ask for none.
RateLimitDelay(h, t) ==
    LET delays == h.after \cup {e - t : e \in {r \in h.reset : h.exhausted /\ r > t}}
    IN  IF delays = {} THEN Minute ELSE Max(delays)

-----------------------------------------------------------------------------
(***************************************************************************)
(* The calls: what each makes of the end of doWithRetry.                   *)
(***************************************************************************)
Outcome(call, answer) ==
    CASE answer = "2xx" -> "ok"
      [] answer = "404" /\ call = "PostOne" -> "missing"
      [] answer = "404" /\ call = "CreateClusterJob" -> "noRepositories"
      [] answer = "409" /\ call = "CreateClusterJob" -> "conflict"
      [] answer = "4xx" /\ call = "PostOne" -> "refused"
      [] OTHER -> "failed"

Begin(c, call) ==
    /\ pc[c] = "idle"
    /\ request' = [request EXCEPT ![c] = call]
    /\ Goto(c, "backoff")
    /\ UNCHANGED <<timeVars, deadline, attempt, outcome, timer, current, ctxVars, serverVars>>

\* doWithRetry returns, and with it the call.
Return(c, answer) ==
    /\ Goto(c, "returned")
    /\ outcome' = [outcome EXCEPT ![c] = Outcome(request[c], answer)]
    /\ attempt' = [attempt EXCEPT ![c] = 0]
    /\ UNCHANGED request

\* A faulty variant: one attempt too many.
TryAgainPastLast(c) ==
    IF attempt[c] <= Retries
    THEN /\ attempt' = [attempt EXCEPT ![c] = @ + 1]
         /\ Goto(c, "backoff")
         /\ UNCHANGED <<request, outcome>>
    ELSE Return(c, "exhausted")

\* The attempt failed: another one, unless this was the last.
TryAgain(c) ==
    IF attempt[c] < Retries
    THEN /\ attempt' = [attempt EXCEPT ![c] = @ + 1]
         /\ Goto(c, "backoff")
         /\ UNCHANGED <<request, outcome>>
    ELSE Return(c, "exhausted")

Finish(c) ==
    /\ pc[c] = "returned"
    /\ Goto(c, "idle")
    /\ request' = [request EXCEPT ![c] = Nil]
    /\ outcome' = [outcome EXCEPT ![c] = Nil]
    /\ timedOut' = [timedOut EXCEPT ![c] = FALSE]
    /\ asked' = [asked EXCEPT ![c] = 0]
    /\ UNCHANGED <<now, deadline, attempt, timer, current, cancelled, serverVars>>

-----------------------------------------------------------------------------
(***************************************************************************)
(* One attempt, up to the request.                                         *)
(***************************************************************************)
\* waitForBackoff; before the first attempt it returns at once.
Backoff(c) ==
    /\ pc[c] = "backoff"
    /\ \/ Goto(c, "limit") /\ UNCHANGED retryVars
       \/ attempt[c] > 0 /\ Done(c) /\ Return(c, "cancelled")
    /\ UNCHANGED <<timeVars, deadline, timer, current, ctxVars, serverVars>>

\* waitForServerRateLimit reads the deadline, once ...
ReadDeadline(c) ==
    /\ pc[c] = "limit"
    /\ Goto(c, IF deadline <= now THEN "throttle" ELSE "sleep")
    /\ timer' = [timer EXCEPT ![c] = IF deadline <= now THEN 0 ELSE deadline]
    /\ UNCHANGED <<timeVars, deadline, retryVars, current, ctxVars, serverVars>>

\* ... and sleeps until then.
Sleep(c) ==
    /\ pc[c] = "sleep"
    /\ \/ timer[c] <= now /\ Goto(c, "throttle") /\ UNCHANGED retryVars
       \/ Done(c) /\ Return(c, "cancelled")
    /\ timer' = [timer EXCEPT ![c] = 0]
    /\ UNCHANGED <<timeVars, deadline, current, ctxVars, serverVars>>

\* The request throttler lets nothing pass once the context is done.
Send(c) ==
    /\ pc[c] = "throttle"
    /\ ~Done(c)
    /\ Goto(c, "sent")
    /\ UNCHANGED <<timeVars, deadline, retryVars, timer, current, ctxVars, serverVars>>

\* The throttler refuses, or there is no access token.
NotSent(c) ==
    /\ pc[c] = "throttle"
    /\ Return(c, "unsent")
    /\ UNCHANGED <<timeVars, deadline, timer, current, ctxVars, serverVars>>

-----------------------------------------------------------------------------
(***************************************************************************)
(* The answers.                                                            *)
(***************************************************************************)
\* The API applies the request (for a poll: looks the job up).
Apply(c) ==
    /\ pc[c] = "sent"
    /\ applied' = applied \cup {request[c]}
    /\ Goto(c, "applied")
    /\ UNCHANGED <<timeVars, deadline, retryVars, timer, current, ctxVars, late>>

\* A faulty variant: a 2xx is taken for success before the API has applied anything.
SuccessUnapplied(c) ==
    /\ pc[c] = "sent"
    /\ Return(c, "2xx")
    /\ UNCHANGED <<timeVars, deadline, timer, current, ctxVars, serverVars>>

\* A 2xx answer.  The body of a job's answer may not parse, and a job that is
\* polled may not have ended.
Success(c) ==
    /\ pc[c] = "applied"
    /\ \/ Return(c, "2xx")
       \/ request[c] # "PostOne" /\ Return(c, "unparsed")
       \/ /\ request[c] = "WaitForClusterJob"
          /\ Goto(c, "poll")
          /\ attempt' = [attempt EXCEPT ![c] = 0]
          /\ UNCHANGED <<request, outcome>>
    /\ UNCHANGED <<timeVars, deadline, timer, current, ctxVars, serverVars>>

\* 404, 409 and other 4xx end the call.
Rejected(c) ==
    /\ pc[c] = "sent"
    /\ \E answer \in {"404", "409", "4xx"} : Return(c, answer)
    /\ UNCHANGED <<timeVars, deadline, timer, current, ctxVars, serverVars>>

\* 5xx, a broken connection, the timeout of the HTTP client or the end of the
\* context: the request may have been applied, or be applied later.  (A poll that
\* arrives late changes nothing.)
RequestFails(c) ==
    /\ pc[c] \in {"sent", "applied"}
    /\ TryAgain(c)
    /\ \/ UNCHANGED late
       \/ /\ pc[c] = "sent" /\ request[c] # "WaitForClusterJob"
          /\ late' = late \cup {request[c]}
    /\ UNCHANGED <<timeVars, deadline, timer, current, ctxVars, applied>>

LateApply(r) ==
    /\ r \in late
    /\ applied' = applied \cup {r}
    /\ late' = late \ {r}
    /\ UNCHANGED <<timeVars, deadline, pc, retryVars, timer, current, ctxVars>>

\* A rate-limit answer: setRetryAfter computes the deadline it asks for ...
RateLimited(c, h) ==
    LET goal == now + RateLimitDelay(h, now)
    IN  /\ pc[c] = "sent"
        /\ goal <= MaxTime
        /\ timer' = [timer EXCEPT ![c] = goal]
        /\ asked' = [asked EXCEPT ![c] = Max({@} \cup Asked(h, now))]
        /\ Goto(c, "load")
        /\ UNCHANGED <<now, deadline, retryVars, current, ctxVars, serverVars>>

\* ... loads the shared one, and is done if that is not earlier ...
LoadDeadline(c) ==
    /\ pc[c] = "load"
    /\ IF timer[c] <= deadline
       THEN /\ TryAgain(c)
            /\ timer' = [timer EXCEPT ![c] = 0]
            /\ UNCHANGED current
       ELSE /\ Goto(c, "swap")
            /\ current' = [current EXCEPT ![c] = deadline]
            /\ UNCHANGED <<retryVars, timer>>
    /\ UNCHANGED <<timeVars, deadline, ctxVars, serverVars>>

\* A faulty variant: a swap that fails is not tried again.
SwapOnce(c) ==
    /\ pc[c] = "swap"
    /\ deadline' = IF deadline = current[c] THEN timer[c] ELSE deadline
    /\ timer' = [timer EXCEPT ![c] = 0]
    /\ TryAgain(c)
    /\ current' = [current EXCEPT ![c] = 0]
    /\ UNCHANGED <<timeVars, ctxVars, serverVars>>

\* A faulty variant: a store in place of the compare-and-swap.
StoreDeadline(c) ==
    /\ pc[c] = "swap"
    /\ deadline' = timer[c]
    /\ timer' = [timer EXCEPT ![c] = 0]
    /\ TryAgain(c)
    /\ current' = [current EXCEPT ![c] = 0]
    /\ UNCHANGED <<timeVars, ctxVars, serverVars>>

\* ... or stores it if nobody was faster, and loads again if somebody was.
SwapDeadline(c) ==
    /\ pc[c] = "swap"
    /\ IF deadline = current[c]
       THEN /\ deadline' = timer[c]
            /\ timer' = [timer EXCEPT ![c] = 0]
            /\ TryAgain(c)
       ELSE /\ Goto(c, "load")
            /\ UNCHANGED <<deadline, timer, retryVars>>
    /\ current' = [current EXCEPT ![c] = 0]
    /\ UNCHANGED <<timeVars, ctxVars, serverVars>>

\* WaitForClusterJob: the next poll, unless the context is done first.
PollAgain(c) ==
    /\ pc[c] = "poll"
    /\ \/ Goto(c, "backoff") /\ UNCHANGED retryVars
       \/ Done(c) /\ Return(c, "cancelled")
    /\ UNCHANGED <<timeVars, deadline, timer, current, ctxVars, serverVars>>

-----------------------------------------------------------------------------
Tick ==
    /\ now < MaxTime
    /\ now' = now + 1
    /\ UNCHANGED <<asked, deadline, pc, retryVars, timer, current, ctxVars, serverVars>>

\* The signal handler cancels the context of the process.
Cancel ==
    /\ ~cancelled
    /\ cancelled' = TRUE
    /\ UNCHANGED <<timeVars, deadline, pc, retryVars, timer, current, timedOut, serverVars>>

\* A faulty variant: the job is waited for with the context of the process.
NoTimeout(c) == FALSE

\* The five minutes processSyncEvents waits for its job are over.
JobTimeout(c) ==
    /\ request[c] = "WaitForClusterJob"
    /\ ~timedOut[c]
    /\ timedOut' = [timedOut EXCEPT ![c] = TRUE]
    /\ UNCHANGED <<timeVars, deadline, pc, retryVars, timer, current, cancelled, serverVars>>

Init ==
    /\ now = 0
    /\ deadline = 0
    /\ pc = [c \in Callers |-> "idle"]
    /\ request = [c \in Callers |-> Nil]
    /\ attempt = [c \in Callers |-> 0]
    /\ timer = [c \in Callers |-> 0]
    /\ current = [c \in Callers |-> 0]
    /\ outcome = [c \in Callers |-> Nil]
    /\ asked = [c \in Callers |-> 0]
    /\ cancelled = FALSE
    /\ timedOut = [c \in Callers |-> FALSE]
    /\ applied = {}
    /\ late = {}

\* A step of a call that has begun.
Step(c) ==
    \/ Backoff(c) \/ ReadDeadline(c) \/ Sleep(c) \/ Send(c) \/ NotSent(c)
    \/ Apply(c) \/ Success(c) \/ Rejected(c) \/ RequestFails(c)
    \/ \E h \in Headers : RateLimited(c, h)
    \/ LoadDeadline(c) \/ SwapDeadline(c) \/ PollAgain(c)
    \/ Finish(c)

Next ==
    \/ \E c \in Callers : \E call \in Calls[c] : Begin(c, call)
    \/ \E c \in Callers : Step(c)
    \/ \E r \in late : LateApply(r)
    \/ Tick
    \/ Cancel
    \/ \E c \in Callers : JobTimeout(c)

Spec == Init /\ [][Next]_vars

(***************************************************************************)
(* Fairness.  Goroutines run, every request ends by an answer or by the    *)
(* 30-second timeout of the HTTP client, and time passes.  No answer of a  *)
(* particular kind need ever come.                                         *)
(***************************************************************************)
FairSpec ==
    /\ Spec
    /\ WF_vars(Tick)
    /\ \A c \in Callers : WF_vars(Step(c)) /\ WF_vars(JobTimeout(c))

-----------------------------------------------------------------------------
(***************************************************************************)
(* Properties.                                                             *)
(***************************************************************************)
TypeOK ==
    /\ now \in Nat /\ deadline \in Nat
    /\ pc \in [Callers -> PCs]
    /\ request \in [Callers -> Methods \cup {Nil}]
    /\ attempt \in [Callers -> 0 .. Retries]
    /\ timer \in [Callers -> Nat]
    /\ current \in [Callers -> Nat]
    /\ outcome \in [Callers -> Outcomes \cup {Nil}]
    /\ asked \in [Callers -> Nat]
    /\ cancelled \in BOOLEAN
    /\ timedOut \in [Callers -> BOOLEAN]
    /\ applied \subseteq Methods
    /\ late \subseteq Methods
    /\ \A c \in Callers : pc[c] = "idle" <=> request[c] = Nil

\* setRetryAfter "ensures deadline can only be extended, not shortened", whatever
\* the order in which two callers load and swap it.
DeadlineMonotone == [][deadline' >= deadline]_deadline

\* No rate-limit answer is lost between two callers that record theirs at the same
\* time: once setRetryAfter has returned, the shared deadline is at least as late
\* as what each caller's answers asked for.
DeadlineCovers ==
    \A c \in Callers :
        \/ deadline >= asked[c]
        \/ pc[c] \in {"load", "swap"} /\ timer[c] >= asked[c]

\* A caller never sends a request before the time its own earlier answers told it
\* to wait for, whatever the other callers do to the shared deadline meanwhile.
OwnRateLimitRespected ==
    [][\A c \in Callers : pc[c] = "throttle" /\ pc'[c] = "sent" => now >= asked[c]]_pc

\* Every call returns: retries are bounded, the compare-and-swap loop ends, a job
\* that never ends is given up after five minutes, a sleep is not prolonged for ever.
CallsReturn == \A c \in Callers : pc[c] # "idle" ~> pc[c] = "idle"

(***************************************************************************)
(* The client keeps the promise of ApiCall.                                *)
(***************************************************************************)
Phase(c) ==
    CASE pc[c] = "idle" -> "idle"
      [] pc[c] = "applied" -> "answered"
      [] pc[c] = "returned" -> IF outcome[c] = "ok" THEN "accepted" ELSE "idle"
      [] OTHER -> "posting"

Contract == INSTANCE ApiCall WITH
    Requests <- Methods,
    phase    <- [c \in Callers |-> Phase(c)],
    request  <- [c \in Callers |-> IF Phase(c) = "idle" THEN Nil ELSE request[c]]

\* A call that returns without error was applied by the API; of any other call
\* nothing is promised (PostOne, CreateClusterJob, WaitForClusterJob).
KeepsContract == Contract!Spec
=============================================================================
