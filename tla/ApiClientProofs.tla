---------------------------- MODULE ApiClientProofs ----------------------------
(***************************************************************************)
(* Proofs about the client of the deployment record API, for any number of *)
(* callers, retries and points in time: types, the rate-limit deadline,    *)
(* that the client implements the contract ApiCall, and what a caller may  *)
(* rely on.                                                                *)
(***************************************************************************)
EXTENDS ApiClient, TLAPS

-----------------------------------------------------------------------------
(***************************************************************************)
(* Delays.  At most three points in time are ever compared.                *)
(***************************************************************************)
\* The largest of three numbers is one of them, and not less than any.
LEMMA MaxOfThree ==
  ASSUME NEW a \in Nat, NEW b \in Nat, NEW c \in Nat
  PROVE  /\ Max({a, b, c}) \in {a, b, c}
         /\ \A x \in {a, b, c} : Max({a, b, c}) >= x
<1>1. \E m \in {a, b, c} : \A x \in {a, b, c} : m >= x
  OBVIOUS
<1> QED BY <1>1 DEF Max

\* A header that is looked at has at most one value.
LEMMA HeaderValues ==
  ASSUME NEW h \in Headers
  PROVE  /\ h.after = {} \/ \E d \in Nat : h.after = {d}
         /\ h.reset = {} \/ \E e \in Nat : h.reset = {e}
<1>1. ASSUME NEW S \in SUBSET Nat, NEW o \in Optional(S)
      PROVE  o = {} \/ \E v \in Nat : o = {v}
  <2>1. o = {} \/ \E v \in S : o = {v}
    BY DEF Optional
  <2> QED BY <2>1
<1>2. h.after \in Optional(RetryAfters) /\ h.reset \in Optional(Resets)
  BY DEF Headers
<1>3. RetryAfters \in SUBSET Nat /\ Resets \in SUBSET Nat
  BY TimesAssumption
<1>4. h.after = {} \/ \E d \in Nat : h.after = {d}
  BY <1>1, <1>2, <1>3
<1>5. h.reset = {} \/ \E e \in Nat : h.reset = {e}
  BY <1>1, <1>2, <1>3
<1> QED BY <1>4, <1>5

\* parseRateLimitDelay returns a delay, and one that covers all the headers ask for.
LEMMA DelayCovers ==
  ASSUME NEW h \in Headers, NEW t \in Nat
  PROVE  /\ RateLimitDelay(h, t) \in Nat
         /\ \A goal \in Asked(h, t) : goal \in Nat /\ t + RateLimitDelay(h, t) >= goal
<1> DEFINE resets == {r \in h.reset : h.exhausted /\ r > t}
           delays == h.after \cup {e - t : e \in resets}
<1>1. h.after = {} \/ \E d \in Nat : h.after = {d}
  BY HeaderValues
<1>2. resets = {} \/ \E e \in Nat : e > t /\ resets = {e}
  <2>1. h.reset = {} \/ \E v \in Nat : h.reset = {v}
    BY HeaderValues
  <2> QED BY <2>1
<1>3. delays = {} \/ \E a, b \in Nat : delays = {a, b, b}
  <2>1. {e - t : e \in resets} = {} \/ \E b \in Nat : {e - t : e \in resets} = {b}
    <3>1. ASSUME NEW e \in Nat, e > t, resets = {e}
          PROVE  e - t \in Nat /\ {x - t : x \in resets} = {e - t}
      BY <3>1
    <3> QED BY <1>2, <3>1
  <2> HIDE DEF resets
  <2> QED BY <1>1, <2>1
<1>4. delays = {} => RateLimitDelay(h, t) \in Nat
  BY TimesAssumption DEF RateLimitDelay
<1>5. delays # {} => /\ RateLimitDelay(h, t) = Max(delays)
                     /\ Max(delays) \in Nat
                     /\ \A x \in delays : Max(delays) >= x
  <2>1. delays # {} => RateLimitDelay(h, t) = Max(delays)
    BY DEF RateLimitDelay
  <2> HIDE DEF delays
  <2> QED BY <1>3, <2>1, MaxOfThree
<1>6. ASSUME NEW goal \in Asked(h, t)
      PROVE  goal \in Nat /\ goal - t \in delays
  <2>1. CASE \E d \in h.after : goal = t + d
    BY <2>1, <1>1
  <2>2. CASE goal \in resets
    BY <2>2, <1>2
  <2> QED BY <1>6, <2>1, <2>2 DEF Asked
<1>7. ASSUME NEW goal \in Asked(h, t)
      PROVE  goal \in Nat /\ t + RateLimitDelay(h, t) >= goal
  <2> HIDE DEF delays
  <2>1. goal \in Nat /\ goal - t \in delays
    BY <1>6
  <2> QED BY <2>1, <1>5
<1> HIDE DEF delays
<1> QED BY <1>4, <1>5, <1>7

\* The latest of what a caller was told to wait for before and is told now.
LEMMA LatestAsked ==
  ASSUME NEW h \in Headers, NEW t \in Nat, NEW before \in Nat
  PROVE  /\ Max({before} \cup Asked(h, t)) \in {before} \cup Asked(h, t)
         /\ Max({before} \cup Asked(h, t)) \in Nat
<1> DEFINE S == {before} \cup Asked(h, t)
<1>1. \E a, b \in Nat : S = {before, a, b}
  <2>1. h.after = {} \/ \E d \in Nat : h.after = {d}
    BY HeaderValues
  <2>2. h.reset = {} \/ \E e \in Nat : h.reset = {e}
    BY HeaderValues
  <2>3. \E a \in Nat : {before} \cup {t + d : d \in h.after} = {before, a}
    BY <2>1
  <2>4. {e \in h.reset : h.exhausted /\ e > t} = {}
          \/ \E b \in Nat : {e \in h.reset : h.exhausted /\ e > t} = {b}
    BY <2>2
  <2>5. S = ({before} \cup {t + d : d \in h.after}) \cup {e \in h.reset : h.exhausted /\ e > t}
    BY DEF Asked
  <2>6. PICK a \in Nat : S = {before, a} \cup {e \in h.reset : h.exhausted /\ e > t}
    BY <2>3, <2>5
  <2> HIDE DEF S
  <2>7. CASE {e \in h.reset : h.exhausted /\ e > t} = {}
    <3>1. S = {before, a, a}
      BY <2>6, <2>7
    <3> QED BY <3>1
  <2>8. CASE \E b \in Nat : {e \in h.reset : h.exhausted /\ e > t} = {b}
    <3>1. PICK b \in Nat : {e \in h.reset : h.exhausted /\ e > t} = {b}
      BY <2>8
    <3>2. S = {before, a, b}
      BY <2>6, <3>1
    <3> QED BY <3>2
  <2> QED BY <2>4, <2>7, <2>8
<1> HIDE DEF S
<1>2. Max(S) \in S /\ Max(S) \in Nat
  BY <1>1, MaxOfThree
<1> QED BY <1>2 DEF S

-----------------------------------------------------------------------------
(***************************************************************************)
(* Types.                                                                  *)
(***************************************************************************)
LEMMA InitTypeOK == Init => TypeOK
<1> SUFFICES ASSUME Init PROVE TypeOK
  OBVIOUS
<1>1. now \in Nat /\ deadline \in Nat /\ applied \subseteq Methods /\ late \subseteq Methods
  BY DEF Init
<1>2. pc \in [Callers -> PCs] /\ \A c \in Callers : pc[c] = "idle" <=> request[c] = Nil
  BY DEF Init, PCs
<1>3. /\ request \in [Callers -> Methods \cup {Nil}]
      /\ outcome \in [Callers -> Outcomes \cup {Nil}]
  BY DEF Init
<1>4. /\ attempt \in [Callers -> 0 .. Retries]
      /\ timer \in [Callers -> Nat]
      /\ current \in [Callers -> Nat]
      /\ asked \in [Callers -> Nat]
  BY TimesAssumption DEF Init
<1>5. cancelled \in BOOLEAN /\ timedOut \in [Callers -> BOOLEAN]
  BY Zenon DEF Init
<1> QED BY <1>1, <1>2, <1>3, <1>4, <1>5 DEF TypeOK

\* What the end of a call, or of an attempt, leaves behind.
LEMMA ReturnTyped ==
  ASSUME TypeOK, NEW c \in Callers, pc[c] # "idle", NEW answer, Return(c, answer)
  PROVE  /\ pc' \in [Callers -> PCs] /\ pc' = [pc EXCEPT ![c] = "returned"]
         /\ outcome' \in [Callers -> Outcomes \cup {Nil}]
         /\ attempt' \in [Callers -> 0 .. Retries]
         /\ UNCHANGED request
<1>1. Outcome(request[c], answer) \in Outcomes
  BY DEF Outcome, Outcomes
<1> QED BY <1>1, TimesAssumption DEF TypeOK, Return, Goto, PCs

LEMMA TryAgainTyped ==
  ASSUME TypeOK, NEW c \in Callers, pc[c] # "idle", TryAgain(c)
  PROVE  /\ pc' \in [Callers -> PCs]
         /\ \E l \in {"backoff", "returned"} : pc' = [pc EXCEPT ![c] = l]
         /\ outcome' \in [Callers -> Outcomes \cup {Nil}]
         /\ attempt' \in [Callers -> 0 .. Retries]
         /\ UNCHANGED request
<1>1. CASE attempt[c] < Retries
  BY <1>1, TimesAssumption DEF TypeOK, TryAgain, Goto, PCs
<1>2. CASE ~(attempt[c] < Retries)
  BY <1>2, ReturnTyped DEF TryAgain
<1> QED BY <1>1, <1>2

\* Each step of a caller keeps the types.
LEMMA StepTypeOK ==
  ASSUME TypeOK, NEW c \in Callers, Step(c)
  PROVE  TypeOK'
<1> USE DEF TypeOK, timeVars, ctxVars, retryVars, serverVars
<1>1. CASE Backoff(c)
  BY <1>1, ReturnTyped DEF Backoff, Goto, PCs
<1>2. CASE ReadDeadline(c)
  BY <1>2 DEF ReadDeadline, Goto, PCs
<1>3. CASE Sleep(c)
  BY <1>3, ReturnTyped DEF Sleep, Goto, PCs
<1>4. CASE Send(c)
  BY <1>4 DEF Send, Goto, PCs
<1>5. CASE NotSent(c)
  BY <1>5, ReturnTyped DEF NotSent
<1>6. CASE Apply(c)
  <2>1. request[c] \in Methods
    BY <1>6 DEF Apply
  <2> QED BY <1>6, <2>1 DEF Apply, Goto, PCs
<1>7. CASE Success(c)
  BY <1>7, ReturnTyped, TimesAssumption DEF Success, Goto, PCs
<1>8. CASE Rejected(c)
  BY <1>8, ReturnTyped DEF Rejected
<1>9. CASE RequestFails(c)
  <2>1. request[c] \in Methods /\ pc[c] # "idle"
    BY <1>9 DEF RequestFails
  <2> QED BY <1>9, <2>1, TryAgainTyped DEF RequestFails
<1>10. ASSUME NEW h \in Headers, RateLimited(c, h)
       PROVE  TypeOK'
  <2>1. RateLimitDelay(h, now) \in Nat
    BY DelayCovers
  <2>2. Max({asked[c]} \cup Asked(h, now)) \in Nat
    BY LatestAsked
  <2> QED BY <1>10, <2>1, <2>2 DEF RateLimited, Goto, PCs
<1>11. CASE LoadDeadline(c)
  BY <1>11, TryAgainTyped DEF LoadDeadline, Goto, PCs
<1>12. CASE SwapDeadline(c)
  BY <1>12, TryAgainTyped DEF SwapDeadline, Goto, PCs
<1>13. CASE PollAgain(c)
  BY <1>13, ReturnTyped DEF PollAgain, Goto, PCs
<1>14. CASE Finish(c)
  BY <1>14 DEF Finish, Goto, PCs
<1> QED
  BY <1>1, <1>2, <1>3, <1>4, <1>5, <1>6, <1>7, <1>8, <1>9, <1>10, <1>11, <1>12, <1>13, <1>14
  DEF Step

LEMMA NextTypeOK ==
  ASSUME TypeOK, [Next]_vars
  PROVE  TypeOK'
<1> USE DEF TypeOK, timeVars, ctxVars, retryVars, serverVars
<1>1. ASSUME NEW c \in Callers, NEW call \in Calls[c], Begin(c, call)
      PROVE  TypeOK'
  <2>1. call \in Methods /\ call # Nil
    BY CallsAssumption
  <2> QED BY <1>1, <2>1 DEF Begin, Goto, PCs
<1>2. ASSUME NEW c \in Callers, Step(c)
      PROVE  TypeOK'
  BY <1>2, StepTypeOK
<1>3. ASSUME NEW r \in late, LateApply(r)
      PROVE  TypeOK'
  BY <1>3 DEF LateApply
<1>4. CASE Tick
  BY <1>4 DEF Tick
<1>5. CASE Cancel
  BY <1>5 DEF Cancel
<1>6. ASSUME NEW c \in Callers, JobTimeout(c)
      PROVE  TypeOK'
  BY <1>6 DEF JobTimeout
<1>7. CASE UNCHANGED vars
  BY <1>7 DEF vars
<1> QED BY <1>1, <1>2, <1>3, <1>4, <1>5, <1>6, <1>7 DEF Next

\* For any callers, headers and number of retries, every reachable state is well
\* typed; in particular a call makes no more attempts than the client is set to.
THEOREM TypeCorrect == Spec => []TypeOK
BY InitTypeOK, NextTypeOK, PTL DEF Spec

-----------------------------------------------------------------------------
(***************************************************************************)
(* The shared deadline.  Beside what DeadlineCovers says, a caller that is *)
(* about to swap has loaded an earlier deadline than its own, and a caller *)
(* that sleeps, or has slept, does so for as long as it was asked to.      *)
(***************************************************************************)
WaitsLongEnough(c) ==
    /\ \/ deadline >= asked[c]
       \/ pc[c] \in {"load", "swap"} /\ timer[c] >= asked[c]
    /\ pc[c] = "swap" => current[c] < timer[c]
    /\ pc[c] = "sleep" => timer[c] >= asked[c]
    /\ pc[c] = "throttle" => now >= asked[c]

DeadlineInv == \A c \in Callers : WaitsLongEnough(c)

\* What a step of another caller leaves alone.
Untouched(c) ==
    /\ pc'[c] = pc[c] /\ timer'[c] = timer[c]
    /\ current'[c] = current[c] /\ asked'[c] = asked[c]

\* A caller that takes no step waits long enough, if the deadline is not shortened.
LEMMA UntouchedWaits ==
  ASSUME TypeOK, TypeOK', DeadlineInv, NEW c \in Callers,
         Untouched(c), deadline' >= deadline, now' >= now
  PROVE  WaitsLongEnough(c)'
<1>1. /\ deadline \in Nat /\ deadline' \in Nat /\ now \in Nat /\ now' \in Nat
      /\ asked[c] \in Nat /\ timer[c] \in Nat /\ current[c] \in Nat
  BY DEF TypeOK
<1>2. WaitsLongEnough(c)
  BY DEF DeadlineInv
<1> QED BY <1>1, <1>2 DEF WaitsLongEnough, Untouched

LEMMA StepWaits ==
  ASSUME TypeOK, TypeOK', DeadlineInv, NEW c \in Callers, Step(c)
  PROVE  /\ deadline' >= deadline
         /\ now' = now
         /\ \A d \in Callers \ {c} : Untouched(d)
         /\ WaitsLongEnough(c)'
<1> DEFINE Goal == /\ deadline' >= deadline
                   /\ now' = now
                   /\ \A d \in Callers \ {c} : Untouched(d)
                   /\ WaitsLongEnough(c)'
<1> SUFFICES Goal
  OBVIOUS
<1>a. WaitsLongEnough(c)
  BY DEF DeadlineInv
<1>b. /\ deadline \in Nat /\ now \in Nat
      /\ pc \in [Callers -> PCs] /\ timer \in [Callers -> Nat]
      /\ current \in [Callers -> Nat] /\ asked \in [Callers -> Nat]
  BY DEF TypeOK
<1>r. ASSUME NEW answer, Return(c, answer)
      PROVE  pc' = [pc EXCEPT ![c] = "returned"]
  BY <1>r DEF Return, Goto
<1>t. ASSUME TryAgain(c)
      PROVE  \E l \in {"backoff", "returned"} : pc' = [pc EXCEPT ![c] = l]
  BY <1>t, <1>r DEF TryAgain, Goto
<1> USE DEF Untouched, WaitsLongEnough, Goto, timeVars, ctxVars, retryVars, serverVars
<1>1. CASE Backoff(c)
  BY <1>1, <1>a, <1>b, <1>r DEF Backoff
<1>2. CASE ReadDeadline(c)
  BY <1>2, <1>a, <1>b DEF ReadDeadline
<1>3. CASE Sleep(c)
  <2>1. CASE timer[c] <= now /\ pc' = [pc EXCEPT ![c] = "throttle"]
    BY <1>3, <2>1, <1>a, <1>b DEF Sleep
  <2>2. CASE pc' = [pc EXCEPT ![c] = "returned"]
    BY <1>3, <2>2, <1>a, <1>b DEF Sleep
  <2> QED BY <1>3, <2>1, <2>2, <1>r DEF Sleep
<1>4. CASE Send(c)
  BY <1>4, <1>a, <1>b DEF Send
<1>5. CASE NotSent(c)
  BY <1>5, <1>a, <1>b, <1>r DEF NotSent
<1>6. CASE Apply(c)
  BY <1>6, <1>a, <1>b DEF Apply
<1>7. CASE Success(c)
  <2>1. \E l \in {"poll", "returned"} : pc' = [pc EXCEPT ![c] = l]
    BY <1>7, <1>r DEF Success
  <2> QED BY <1>7, <2>1, <1>a, <1>b DEF Success
<1>8. CASE Rejected(c)
  BY <1>8, <1>a, <1>b, <1>r DEF Rejected
<1>9. CASE RequestFails(c)
  BY <1>9, <1>a, <1>b, <1>t DEF RequestFails
<1>10. ASSUME NEW h \in Headers, RateLimited(c, h)
       PROVE  Goal
  <2> DEFINE goal == now + RateLimitDelay(h, now)
             latest == Max({asked[c]} \cup Asked(h, now))
  <2>1. goal \in Nat /\ \A g \in Asked(h, now) : goal >= g
    BY <1>b, DelayCovers
  <2>2. latest \in Nat /\ latest \in {asked[c]} \cup Asked(h, now)
    BY <1>b, LatestAsked
  <2>3. /\ timer' = [timer EXCEPT ![c] = goal]
        /\ asked' = [asked EXCEPT ![c] = latest]
        /\ pc' = [pc EXCEPT ![c] = "load"]
        /\ UNCHANGED <<now, deadline, current>>
    BY <1>10 DEF RateLimited
  <2>4. deadline >= asked[c]
    BY <1>10, <1>a DEF RateLimited
  <2> HIDE DEF goal, latest
  <2> QED BY <2>1, <2>2, <2>3, <2>4, <1>b
<1>11. CASE LoadDeadline(c)
  <2>1. CASE timer[c] <= deadline
    BY <1>11, <2>1, <1>a, <1>b, <1>t DEF LoadDeadline
  <2>2. CASE ~(timer[c] <= deadline)
    BY <1>11, <2>2, <1>a, <1>b DEF LoadDeadline
  <2> QED BY <2>1, <2>2
<1>12. CASE SwapDeadline(c)
  <2>1. CASE deadline = current[c]
    BY <1>12, <2>1, <1>a, <1>b, <1>t DEF SwapDeadline
  <2>2. CASE deadline # current[c]
    BY <1>12, <2>2, <1>a, <1>b DEF SwapDeadline
  <2> QED BY <2>1, <2>2
<1>13. CASE PollAgain(c)
  BY <1>13, <1>a, <1>b, <1>r DEF PollAgain
<1>14. CASE Finish(c)
  BY <1>14, <1>a, <1>b DEF Finish
<1> HIDE DEF Goal
<1> QED
  BY <1>1, <1>2, <1>3, <1>4, <1>5, <1>6, <1>7, <1>8, <1>9, <1>10, <1>11, <1>12, <1>13, <1>14
  DEF Step

\* The rest of the program neither shortens the deadline nor moves a caller's timer.
LEMMA NextWaits ==
  ASSUME TypeOK, TypeOK', DeadlineInv, [Next]_vars
  PROVE  DeadlineInv' /\ deadline' >= deadline
<1>1. ASSUME NEW c \in Callers, Step(c)
      PROVE  DeadlineInv' /\ deadline' >= deadline
  <2>1. now' >= now
    BY <1>1, StepWaits DEF TypeOK
  <2> QED BY <1>1, <2>1, StepWaits, UntouchedWaits DEF DeadlineInv
<1>2. ASSUME NEW c \in Callers, NEW call \in Calls[c], Begin(c, call)
      PROVE  DeadlineInv' /\ deadline' >= deadline
  <2>1. /\ deadline' >= deadline /\ now' >= now
        /\ \A d \in Callers \ {c} : Untouched(d)
    BY <1>2 DEF Begin, Goto, Untouched, TypeOK, timeVars
  <2>2. WaitsLongEnough(c)'
    BY <1>2 DEF Begin, Goto, WaitsLongEnough, DeadlineInv, TypeOK, timeVars
  <2> QED BY <2>1, <2>2, UntouchedWaits DEF DeadlineInv
<1>3. ASSUME \A d \in Callers : Untouched(d), deadline' = deadline, now' \in {now, now + 1}
      PROVE  DeadlineInv' /\ deadline' >= deadline
  <2>1. deadline' >= deadline /\ now' >= now
    BY <1>3 DEF TypeOK
  <2> QED BY <1>3, <2>1, UntouchedWaits DEF DeadlineInv
<1>4. ASSUME NEW r \in late, LateApply(r)
      PROVE  DeadlineInv' /\ deadline' >= deadline
  BY <1>3, <1>4 DEF LateApply, Untouched, timeVars
<1>5. CASE Tick \/ Cancel \/ \E c \in Callers : JobTimeout(c)
  BY <1>3, <1>5 DEF Tick, Cancel, JobTimeout, Untouched, timeVars
<1>6. CASE UNCHANGED vars
  BY <1>3, <1>6 DEF vars, Untouched, timeVars
<1> QED BY <1>1, <1>2, <1>4, <1>5, <1>6 DEF Next

LEMMA DeadlineInvariant == Spec => [](TypeOK /\ DeadlineInv)
<1>1. Init => DeadlineInv
  BY DEF Init, DeadlineInv, WaitsLongEnough
<1>2. TypeOK /\ DeadlineInv /\ [Next]_vars => (TypeOK /\ DeadlineInv)'
  BY NextTypeOK, NextWaits
<1> QED BY InitTypeOK, <1>1, <1>2, PTL DEF Spec

\* For any number of callers that record rate-limit answers at the same time, in any
\* order of their loads and swaps: the deadline covers what each was asked to wait.
THEOREM RateLimitsRecorded == Spec => []DeadlineCovers
<1>1. DeadlineInv => DeadlineCovers
  BY DEF DeadlineInv, WaitsLongEnough, DeadlineCovers
<1> QED BY DeadlineInvariant, <1>1, PTL

\* The compare-and-swap loop of setRetryAfter never shortens the shared deadline.
THEOREM NeverShortened == Spec => DeadlineMonotone
<1>1. TypeOK /\ DeadlineInv /\ [Next]_vars => [deadline' >= deadline]_deadline
  BY NextTypeOK, NextWaits
<1> QED BY DeadlineInvariant, <1>1, PTL DEF Spec, DeadlineMonotone

\* No caller sends a request before its own earlier answers allow it, for any number
\* of callers and any headers.
THEOREM OwnLimitsRespected == Spec => OwnRateLimitRespected
<1> DEFINE InTime == \A c \in Callers : pc[c] = "throttle" /\ pc'[c] = "sent" => now >= asked[c]
<1>1. TypeOK /\ DeadlineInv /\ [Next]_vars => [InTime]_pc
  BY DEF DeadlineInv, WaitsLongEnough
<1> QED BY DeadlineInvariant, <1>1, PTL DEF Spec, OwnRateLimitRespected

-----------------------------------------------------------------------------
(***************************************************************************)
(* The client implements ApiCall.  A step of a caller changes the mapped   *)
(* phase and request of that caller only; most steps leave its phase       *)
(* "posting" or end the call, and the others map to one action each.       *)
(***************************************************************************)
phases == [c \in Callers |-> Phase(c)]
requests == [c \in Callers |-> IF Phase(c) = "idle" THEN Nil ELSE request[c]]

SameCall(c) == pc'[c] = pc[c] /\ outcome'[c] = outcome[c] /\ request'[c] = request[c]
OnlyCaller(c) == \A d \in Callers \ {c} : SameCall(d)

LEMMA SamePhase ==
  ASSUME NEW c \in Callers, SameCall(c)
  PROVE  Phase(c)' = Phase(c)
BY DEF SameCall, Phase

LEMMA CallerMoves ==
  ASSUME NEW c \in Callers, OnlyCaller(c)
  PROVE  /\ phases' = [phases EXCEPT ![c] = Phase(c)']
         /\ Phase(c)' = "idle" => requests' = [requests EXCEPT ![c] = Nil]
         /\ Phase(c)' # "idle" => requests' = [requests EXCEPT ![c] = request'[c]]
<1>1. \A d \in Callers \ {c} : Phase(d)' = Phase(d) /\ request'[d] = request[d]
  BY SamePhase DEF OnlyCaller, SameCall
<1>2. phases' = [d \in Callers |-> Phase(d)']
  BY DEF phases
<1>3. requests' = [d \in Callers |-> IF Phase(d)' = "idle" THEN Nil ELSE request'[d]]
  BY DEF requests
<1>4. phases' = [phases EXCEPT ![c] = Phase(c)']
  BY <1>1, <1>2 DEF phases
<1>5. requests' = [requests EXCEPT ![c] = IF Phase(c)' = "idle" THEN Nil ELSE request'[c]]
  BY <1>1, <1>3 DEF requests
<1> QED BY <1>4, <1>5

\* A step that changes neither the call nor the server is a stutter.
LEMMA Stutters ==
  ASSUME \A c \in Callers : SameCall(c), UNCHANGED serverVars
  PROVE  UNCHANGED Contract!vars
<1>1. \A c \in Callers : Phase(c)' = Phase(c) /\ request'[c] = request[c]
  BY SamePhase DEF SameCall
<1>2. phases' = [d \in Callers |-> Phase(d)'] /\ phases' = phases
  BY <1>1 DEF phases
<1>3. requests' = [d \in Callers |-> IF Phase(d)' = "idle" THEN Nil ELSE request'[d]]
  BY DEF requests
<1>4. requests' = requests
  BY <1>1, <1>3 DEF requests
<1> QED BY <1>2, <1>4 DEF Contract!vars, phases, requests, serverVars

\* A step of a call that is not over, in the caller's phase or to its end.
LEMMA PostingStep ==
  ASSUME NEW c \in Callers, OnlyCaller(c), Phase(c) = "posting", request'[c] = request[c],
         Phase(c)' \in {"posting", "idle"}, UNCHANGED applied,
         late' \in {late, late \cup {request[c]}}
  PROVE  [Contract!Next]_(Contract!vars)
<1> USE CallerMoves
<1>1. phases[c] = "posting" /\ requests[c] = request[c]
  BY DEF phases, requests
<1>2. CASE Phase(c)' = "posting"
  <2>1. phases' = phases /\ requests' = requests
    BY <1>1, <1>2 DEF phases, requests
  <2>2. CASE late' = late
    BY <2>1, <2>2 DEF Contract!vars, phases, requests
  <2>3. CASE late' = late \cup {request[c]}
    <3>1. Contract!Delayed(c)
      BY <1>1, <2>1, <2>3 DEF Contract!Delayed, phases, requests
    <3> QED BY <3>1 DEF Contract!Next
  <2> QED BY <2>2, <2>3
<1>3. CASE Phase(c)' = "idle"
  <2>1. Contract!Fail(c)
    BY <1>1, <1>3 DEF Contract!Fail, Contract!Ended, Contract!Enter, phases, requests
  <2> QED BY <2>1 DEF Contract!Next
<1> QED BY <1>2, <1>3

\* The answer arrived: the call is accepted, has failed, or goes on.
LEMMA AnsweredStep ==
  ASSUME NEW c \in Callers, OnlyCaller(c), Phase(c) = "answered", request'[c] = request[c],
         Phase(c)' \in {"accepted", "idle", "posting"}, UNCHANGED serverVars
  PROVE  Contract!Next
<1> USE CallerMoves DEF serverVars, phases, requests
<1>1. phases[c] = "answered" /\ requests[c] = request[c]
  OBVIOUS
<1>2. CASE Phase(c)' = "accepted"
  <2>1. Contract!Accept(c)
    BY <1>1, <1>2 DEF Contract!Accept, Contract!Enter
  <2> QED BY <2>1 DEF Contract!Next
<1>3. CASE Phase(c)' = "idle"
  <2>1. Contract!Fail(c)
    BY <1>1, <1>3 DEF Contract!Fail, Contract!Ended, Contract!Enter
  <2> QED BY <2>1 DEF Contract!Next
<1>4. CASE Phase(c)' = "posting"
  <2>1. Contract!AnswerLost(c)
    BY <1>1, <1>4 DEF Contract!AnswerLost, Contract!Enter
  <2> QED BY <2>1 DEF Contract!Next
<1> QED BY <1>2, <1>3, <1>4

\* What the return of doWithRetry means to the caller.
LEMMA ReturnPhase ==
  ASSUME TypeOK, NEW c \in Callers, NEW answer, Return(c, answer)
  PROVE  /\ Phase(c)' = IF answer = "2xx" THEN "accepted" ELSE "idle"
         /\ OnlyCaller(c) /\ request'[c] = request[c]
<1>1. Outcome(request[c], answer) = "ok" <=> answer = "2xx"
  BY DEF Outcome
<1>2. pc'[c] = "returned" /\ outcome'[c] = Outcome(request[c], answer) /\ request' = request
  BY DEF Return, Goto, TypeOK
<1>3. OnlyCaller(c)
  BY DEF Return, Goto, TypeOK, OnlyCaller, SameCall
<1> QED BY <1>1, <1>2, <1>3 DEF Phase

LEMMA TryAgainPhase ==
  ASSUME TypeOK, NEW c \in Callers, TryAgain(c)
  PROVE  /\ Phase(c)' \in {"posting", "idle"}
         /\ OnlyCaller(c) /\ request'[c] = request[c]
<1>1. CASE attempt[c] < Retries
  BY <1>1 DEF TryAgain, Goto, TypeOK, OnlyCaller, SameCall, Phase
<1>2. CASE ~(attempt[c] < Retries)
  <2>1. Return(c, "exhausted")
    BY <1>2 DEF TryAgain
  <2> QED BY <2>1, ReturnPhase
<1> QED BY <1>1, <1>2

\* A caller that goes from a place before the answer to another one.
LEMMA GotoPhase ==
  ASSUME TypeOK, NEW c \in Callers, NEW l \in PCs \ {"idle", "applied", "returned"},
         Goto(c, l), UNCHANGED <<request, outcome>>
  PROVE  /\ Phase(c)' = "posting"
         /\ OnlyCaller(c) /\ request'[c] = request[c]
BY DEF Goto, TypeOK, OnlyCaller, SameCall, Phase, PCs

LEMMA StepImplements ==
  ASSUME TypeOK, NEW c \in Callers, Step(c)
  PROVE  [Contract!Next]_(Contract!vars)
<1> USE DEF serverVars, retryVars, PCs
<1>1. CASE Backoff(c)
  <2>1. Phase(c) = "posting"
    BY <1>1 DEF Backoff, Phase
  <2> QED BY <1>1, <2>1, GotoPhase, ReturnPhase, PostingStep DEF Backoff
<1>2. CASE ReadDeadline(c)
  <2>1. Phase(c) = "posting"
    BY <1>2 DEF ReadDeadline, Phase
  <2> QED BY <1>2, <2>1, GotoPhase, PostingStep DEF ReadDeadline
<1>3. CASE Sleep(c)
  <2>1. Phase(c) = "posting"
    BY <1>3 DEF Sleep, Phase
  <2> QED BY <1>3, <2>1, GotoPhase, ReturnPhase, PostingStep DEF Sleep
<1>4. CASE Send(c)
  <2>1. Phase(c) = "posting"
    BY <1>4 DEF Send, Phase
  <2> QED BY <1>4, <2>1, GotoPhase, PostingStep DEF Send
<1>5. CASE NotSent(c)
  <2>1. Phase(c) = "posting"
    BY <1>5 DEF NotSent, Phase
  <2> QED BY <1>5, <2>1, ReturnPhase, PostingStep DEF NotSent
<1>6. CASE Apply(c)
  <2>1. /\ Phase(c) = "posting" /\ Phase(c)' = "answered"
        /\ OnlyCaller(c) /\ request'[c] = request[c]
        /\ applied' = applied \cup {request[c]} /\ late' = late
    BY <1>6 DEF Apply, Goto, Phase, OnlyCaller, SameCall, TypeOK
  <2>2. phases[c] = "posting" /\ requests[c] = request[c]
    BY <2>1 DEF phases, requests
  <2>3. phases' = [phases EXCEPT ![c] = "answered"] /\ requests' = requests
    BY <2>1, <2>2, CallerMoves DEF requests
  <2>4. Contract!Apply(c)
    BY <2>1, <2>2, <2>3 DEF Contract!Apply, Contract!Enter, phases, requests
  <2> QED BY <2>4 DEF Contract!Next
<1>7. CASE Success(c)
  <2>1. Phase(c) = "answered"
    BY <1>7 DEF Success, Phase
  <2> QED BY <1>7, <2>1, GotoPhase, ReturnPhase, AnsweredStep DEF Success
<1>8. CASE Rejected(c)
  <2>1. Phase(c) = "posting"
    BY <1>8 DEF Rejected, Phase
  <2>2. PICK answer \in {"404", "409", "4xx"} : Return(c, answer)
    BY <1>8 DEF Rejected
  <2> QED BY <1>8, <2>1, <2>2, ReturnPhase, PostingStep DEF Rejected
<1>9. CASE RequestFails(c)
  <2>1. CASE pc[c] = "sent"
    <3>1. Phase(c) = "posting" /\ late' \in {late, late \cup {request[c]}}
      BY <1>9, <2>1 DEF RequestFails, Phase
    <3> QED BY <1>9, <3>1, TryAgainPhase, PostingStep DEF RequestFails
  <2>2. CASE pc[c] = "applied"
    <3>1. Phase(c) = "answered" /\ late' = late
      BY <1>9, <2>2 DEF RequestFails, Phase
    <3> QED BY <1>9, <3>1, TryAgainPhase, AnsweredStep DEF RequestFails
  <2> QED BY <1>9, <2>1, <2>2 DEF RequestFails
<1>10. ASSUME NEW h \in Headers, RateLimited(c, h)
       PROVE  [Contract!Next]_(Contract!vars)
  <2>1. Phase(c) = "posting" /\ Goto(c, "load") /\ UNCHANGED <<request, outcome, serverVars>>
    BY <1>10 DEF RateLimited, Phase
  <2> QED BY <2>1, GotoPhase, PostingStep
<1>11. CASE LoadDeadline(c)
  <2>1. Phase(c) = "posting" /\ UNCHANGED serverVars
    BY <1>11 DEF LoadDeadline, Phase
  <2> QED BY <1>11, <2>1, GotoPhase, TryAgainPhase, PostingStep DEF LoadDeadline
<1>12. CASE SwapDeadline(c)
  <2>1. Phase(c) = "posting" /\ UNCHANGED serverVars
    BY <1>12 DEF SwapDeadline, Phase
  <2> QED BY <1>12, <2>1, GotoPhase, TryAgainPhase, PostingStep DEF SwapDeadline
<1>13. CASE PollAgain(c)
  <2>1. Phase(c) = "posting"
    BY <1>13 DEF PollAgain, Phase
  <2> QED BY <1>13, <2>1, GotoPhase, ReturnPhase, PostingStep DEF PollAgain
<1>14. CASE Finish(c)
  <2>1. /\ Phase(c) \in {"accepted", "idle"} /\ Phase(c)' = "idle"
        /\ OnlyCaller(c) /\ UNCHANGED serverVars
    BY <1>14 DEF Finish, Goto, Phase, OnlyCaller, SameCall, TypeOK
  <2>2. /\ phases' = [phases EXCEPT ![c] = "idle"]
        /\ requests' = [requests EXCEPT ![c] = Nil]
    BY <2>1, CallerMoves
  <2>3. CASE Phase(c) = "accepted"
    <3>1. Contract!Leave(c)
      BY <2>1, <2>2, <2>3 DEF Contract!Leave, Contract!Ended, Contract!Enter, phases, requests
    <3> QED BY <3>1 DEF Contract!Next
  <2>4. CASE Phase(c) = "idle"
    <3>1. phases' = phases /\ requests' = requests
      BY <2>2, <2>4 DEF phases, requests
    <3> QED BY <2>1, <3>1 DEF Contract!vars, phases, requests
  <2> QED BY <2>1, <2>3, <2>4
<1> QED
  BY <1>1, <1>2, <1>3, <1>4, <1>5, <1>6, <1>7, <1>8, <1>9, <1>10, <1>11, <1>12, <1>13, <1>14
  DEF Step

\* The client implements the contract of a call, for any number of callers, retries and
\* requests that are lost, late or answered in any way: each of its steps is a step of
\* the contract or changes nothing of it.
THEOREM ImplementsContract == Spec => KeepsContract
<1>1. Init => Contract!Init
  <2> SUFFICES ASSUME Init PROVE Contract!Init
    OBVIOUS
  <2>1. \A c \in Callers : Phase(c) = "idle"
    BY DEF Init, Phase
  <2> QED BY <2>1 DEF Init, Contract!Init
<1>2. ASSUME TypeOK, [Next]_vars
      PROVE  [Contract!Next]_(Contract!vars)
  <2>1. ASSUME NEW c \in Callers, NEW call \in Calls[c], Begin(c, call)
        PROVE  Contract!Next
    <3>1. call \in Methods
      BY CallsAssumption
    <3>2. /\ Phase(c) = "idle" /\ Phase(c)' = "posting" /\ request'[c] = call
          /\ OnlyCaller(c) /\ UNCHANGED serverVars
      BY <1>2, <2>1 DEF Begin, Goto, Phase, OnlyCaller, SameCall, TypeOK, serverVars
    <3>3. Contract!Begin(c)
      BY <3>1, <3>2, CallerMoves
      DEF Contract!Begin, Contract!Enter, phases, requests, serverVars
    <3> QED BY <3>3 DEF Contract!Next
  <2>2. ASSUME NEW c \in Callers, Step(c)
        PROVE  [Contract!Next]_(Contract!vars)
    BY <1>2, <2>2, StepImplements
  <2>3. ASSUME NEW r \in late, LateApply(r)
        PROVE  Contract!Next
    <3>1. \A c \in Callers : SameCall(c)
      BY <2>3 DEF LateApply, SameCall, retryVars
    <3>2. Contract!LateApply(r)
      BY <2>3, <3>1, SamePhase DEF LateApply, Contract!LateApply, SameCall
    <3> QED BY <3>2 DEF Contract!Next
  <2>4. CASE Tick \/ Cancel \/ \E c \in Callers : JobTimeout(c)
    <3>1. (\A c \in Callers : SameCall(c)) /\ UNCHANGED serverVars
      BY <2>4 DEF Tick, Cancel, JobTimeout, SameCall, retryVars
    <3> QED BY <3>1, Stutters
  <2>5. CASE UNCHANGED vars
    BY <2>5, Stutters DEF vars, SameCall, retryVars
  <2> QED BY <1>2, <2>1, <2>2, <2>3, <2>4, <2>5 DEF Next
<1> QED BY TypeCorrect, <1>1, <1>2, PTL DEF Spec, KeepsContract, Contract!Spec

-----------------------------------------------------------------------------
(***************************************************************************)
(* What a caller may rely on.  The API has applied the request of a call   *)
(* from its 2xx answer on, until the call is sent again or left.           *)
(***************************************************************************)
AnsweredApplied(c) == Phase(c) \in {"answered", "accepted"} => request[c] \in applied

LEMMA StepApplied ==
  ASSUME TypeOK, NEW c \in Callers, AnsweredApplied(c), Step(c)
  PROVE  AnsweredApplied(c)' /\ OnlyCaller(c) /\ applied \subseteq applied'
<1> DEFINE Goal == AnsweredApplied(c)' /\ OnlyCaller(c) /\ applied \subseteq applied'
<1> SUFFICES Goal
  OBVIOUS
<1>p. ASSUME Phase(c)' \in {"posting", "idle"}, OnlyCaller(c), UNCHANGED applied
      PROVE  Goal
  BY <1>p DEF AnsweredApplied
<1> USE DEF serverVars, retryVars, PCs
<1>1. CASE Backoff(c)
  BY <1>1, <1>p, GotoPhase, ReturnPhase DEF Backoff
<1>2. CASE ReadDeadline(c)
  BY <1>2, <1>p, GotoPhase DEF ReadDeadline
<1>3. CASE Sleep(c)
  BY <1>3, <1>p, GotoPhase, ReturnPhase DEF Sleep
<1>4. CASE Send(c)
  BY <1>4, <1>p, GotoPhase DEF Send
<1>5. CASE NotSent(c)
  BY <1>5, <1>p, ReturnPhase DEF NotSent
<1>6. CASE Apply(c)
  <2>1. request'[c] \in applied' /\ OnlyCaller(c) /\ applied \subseteq applied'
    BY <1>6 DEF Apply, Goto, OnlyCaller, SameCall, TypeOK
  <2> QED BY <2>1 DEF AnsweredApplied
<1>7. CASE Success(c)
  <2>1. request[c] \in applied
    BY <1>7 DEF Success, AnsweredApplied, Phase
  <2>2. request'[c] = request[c] /\ OnlyCaller(c) /\ UNCHANGED applied
    BY <1>7, GotoPhase, ReturnPhase DEF Success
  <2> QED BY <2>1, <2>2 DEF AnsweredApplied
<1>8. CASE Rejected(c)
  BY <1>8, <1>p, ReturnPhase DEF Rejected
<1>9. CASE RequestFails(c)
  BY <1>9, <1>p, TryAgainPhase DEF RequestFails
<1>10. ASSUME NEW h \in Headers, RateLimited(c, h)
       PROVE  Goal
  <2>1. Goto(c, "load") /\ UNCHANGED <<request, outcome, applied>>
    BY <1>10 DEF RateLimited
  <2> QED BY <2>1, <1>p, GotoPhase
<1>11. CASE LoadDeadline(c)
  BY <1>11, <1>p, GotoPhase, TryAgainPhase DEF LoadDeadline
<1>12. CASE SwapDeadline(c)
  BY <1>12, <1>p, GotoPhase, TryAgainPhase DEF SwapDeadline
<1>13. CASE PollAgain(c)
  BY <1>13, <1>p, GotoPhase, ReturnPhase DEF PollAgain
<1>14. CASE Finish(c)
  BY <1>14, <1>p DEF Finish, Goto, Phase, OnlyCaller, SameCall, TypeOK
<1> QED
  BY <1>1, <1>2, <1>3, <1>4, <1>5, <1>6, <1>7, <1>8, <1>9, <1>10, <1>11, <1>12, <1>13, <1>14
  DEF Step

\* Who calls PostOne, CreateClusterJob or WaitForClusterJob may rely on a call that
\* returned without error: for any number of callers, retries, headers, and requests
\* that are lost, late or answered in any way, the API has applied its request.
THEOREM AcceptedCallsApplied == Spec => []Contract!AcceptedWasApplied
<1> DEFINE Applied == \A c \in Callers : AnsweredApplied(c)
<1>1. Init => Applied
  BY DEF Init, AnsweredApplied, Phase
<1>2. ASSUME TypeOK, Applied, [Next]_vars
      PROVE  Applied'
  <2>1. ASSUME NEW d \in Callers, SameCall(d), applied \subseteq applied'
        PROVE  AnsweredApplied(d)'
    BY <1>2, <2>1, SamePhase DEF AnsweredApplied, SameCall
  <2>2. ASSUME NEW c \in Callers, NEW call \in Calls[c], Begin(c, call)
        PROVE  Applied'
    <3>1. Phase(c)' = "posting" /\ OnlyCaller(c) /\ UNCHANGED applied
      BY <1>2, <2>2 DEF Begin, Goto, Phase, OnlyCaller, SameCall, TypeOK, serverVars
    <3> QED BY <2>1, <3>1 DEF AnsweredApplied, OnlyCaller
  <2>3. ASSUME NEW c \in Callers, Step(c)
        PROVE  Applied'
    BY <1>2, <2>1, <2>3, StepApplied DEF OnlyCaller
  <2>4. ASSUME NEW r \in late, LateApply(r)
        PROVE  Applied'
    BY <2>1, <2>4 DEF LateApply, SameCall, retryVars
  <2>5. CASE Tick \/ Cancel \/ \E c \in Callers : JobTimeout(c)
    BY <2>1, <2>5 DEF Tick, Cancel, JobTimeout, SameCall, retryVars, serverVars
  <2>6. CASE UNCHANGED vars
    BY <2>1, <2>6 DEF vars, SameCall, retryVars, serverVars
  <2> QED BY <1>2, <2>2, <2>3, <2>4, <2>5, <2>6 DEF Next
<1>3. Applied => Contract!AcceptedWasApplied
  BY DEF AnsweredApplied, Contract!AcceptedWasApplied
<1> QED BY TypeCorrect, <1>1, <1>2, <1>3, PTL DEF Spec
=============================================================================
