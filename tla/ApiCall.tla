-------------------------------- MODULE ApiCall --------------------------------
(***************************************************************************)
(* What a call of the deployment record API promises its caller: the call  *)
(* ends, accepted or not, and a call ends accepted only if the API has     *)
(* applied its request.  A call that is not accepted promises nothing: its *)
(* request may have been applied, or may be applied long after the call.   *)
(***************************************************************************)
CONSTANTS
    Callers,   \* the goroutines that call
    Requests,  \* what they may ask for
    Nil        \* no request

VARIABLES
    phase,    \* of each caller's call
    request,  \* each caller's request, Nil between two calls
    applied,  \* the requests the API applied
    late      \* requests that went unanswered and may still arrive

vars == <<phase, request, applied, late>>

TypeOK ==
    /\ phase \in [Callers -> {"idle", "posting", "answered", "accepted"}]
    /\ request \in [Callers -> Requests \cup {Nil}]
    /\ applied \subseteq Requests
    /\ late \subseteq Requests

Init ==
    /\ phase = [c \in Callers |-> "idle"]
    /\ request = [c \in Callers |-> Nil]
    /\ applied = {}
    /\ late = {}

Enter(c, ph) == phase' = [phase EXCEPT ![c] = ph]
Ended(c) == Enter(c, "idle") /\ request' = [request EXCEPT ![c] = Nil]

Begin(c) ==
    /\ phase[c] = "idle"
    /\ \E r \in Requests : request' = [request EXCEPT ![c] = r]
    /\ Enter(c, "posting")
    /\ UNCHANGED <<applied, late>>

\* The API applies the request and answers ...
Apply(c) ==
    /\ phase[c] = "posting"
    /\ applied' = applied \cup {request[c]}
    /\ Enter(c, "answered")
    /\ UNCHANGED <<request, late>>

\* ... its answer arrives, or does not and the request is sent again.
Accept(c) ==
    /\ phase[c] = "answered"
    /\ Enter(c, "accepted")
    /\ UNCHANGED <<request, applied, late>>

AnswerLost(c) ==
    /\ phase[c] = "answered"
    /\ Enter(c, "posting")
    /\ UNCHANGED <<request, applied, late>>

\* The request is sent again while it is still on its way.
Delayed(c) ==
    /\ phase[c] = "posting"
    /\ late' = late \cup {request[c]}
    /\ UNCHANGED <<phase, request, applied>>

LateApply(r) ==
    /\ r \in late
    /\ applied' = applied \cup {r}
    /\ late' = late \ {r}
    /\ UNCHANGED <<phase, request>>

\* The call ends without being accepted.
Fail(c) ==
    /\ phase[c] \in {"posting", "answered"}
    /\ late' \in {late, late \cup {request[c]}}
    /\ Ended(c)
    /\ UNCHANGED applied

\* The caller is done with an accepted call.
Leave(c) ==
    /\ phase[c] = "accepted"
    /\ Ended(c)
    /\ UNCHANGED <<applied, late>>

Next ==
    \/ \E c \in Callers : \/ Begin(c) \/ Apply(c) \/ Accept(c) \/ AnswerLost(c)
                          \/ Delayed(c) \/ Fail(c) \/ Leave(c)
    \/ \E r \in late : LateApply(r)

Spec == Init /\ [][Next]_vars

\* The promise: while a caller acts on an accepted call, the API has applied it.
AcceptedWasApplied ==
    \A c \in Callers : phase[c] \in {"answered", "accepted"} => request[c] \in applied
=============================================================================
