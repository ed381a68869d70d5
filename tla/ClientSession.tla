---------------------------- MODULE ClientSession ----------------------------
(***************************************************************************)
(* What a caller of the API may conclude (src/app/client.py against the    *)
(* handlers of src/app/main.py).  A mutation travels to the server, is     *)
(* committed to the ledger, is dispatched to Temporal and answered; on the *)
(* way the request or the answer is lost, the API dies, the ledger or      *)
(* Temporal fails, a gateway answers for the server, or the client stops   *)
(* waiting while the server goes on.  The client sorts every answer into   *)
(* confirmed, refused (ClientError) or unconfirmed (AmbiguousMutation);    *)
(* its caller retries unconfirmed requests, unchanged.                     *)
(*                                                                         *)
(* One operation, identified by its idempotency key, is submitted,         *)
(* executed with the digest that was reviewed, and discarded.              *)
(***************************************************************************)
EXTENDS FiniteSets

CONSTANT Slot    \* requests that may be under way at once

ASSUME SlotAssumption == Slot # {} /\ IsFiniteSet(Slot)

Kinds == {"submit", "execute", "discard"}

VARIABLES
    op,         \* the operation: [state, discarded]
    started,    \* its phases that Temporal has started
    call,       \* requests: [kind, at (in the server, or its answer), told, did]
    confirmed,  \* kinds of request that the caller takes for done
    pending     \* kinds of request that it retains, to be retried

vars == <<op, started, call, confirmed, pending>>

\* HTTP answers, by what tells them apart: 2xx, a 4xx refusal, 503 with the code
\* service_unavailable or dispatch_unconfirmed, 500, and what a gateway answers itself.
Answers == {"ok", "refusal", "service_unavailable", "dispatch_unconfirmed", "error", "gateway"}

Init ==
    /\ op = [state |-> "none", discarded |-> FALSE]
    /\ started = {}
    /\ call = [s \in Slot |-> [kind |-> "submit", at |-> "gone", told |-> "result", did |-> FALSE]]
    /\ confirmed = {} /\ pending = {}

-----------------------------------------------------------------------------
(* The client                                                               *)

\* The states in which execute() sends the request at all.
Executable == {"planned", "apply_queued", "applying", "succeeded"}

\* Neither side works on the request any more.
Over(s) == call[s].at = "gone" /\ call[s].told # "waiting"

\* A confirmed request is not sent again; execute() reads the status first.
Send(s, kind) ==
    /\ Over(s) /\ kind \notin confirmed
    /\ kind # "submit" => op.state # "none"
    /\ kind = "execute" => op.state \in Executable
    /\ call' = [call EXCEPT ![s] = [kind |-> kind, at |-> "sent", told |-> "waiting", did |-> FALSE]]
    /\ UNCHANGED <<op, started, confirmed, pending>>

\* execute() refuses by itself what it cannot execute any more.
NotExecutable ==
    /\ op.state \notin Executable
    /\ pending' = pending \ {"execute"}
    /\ UNCHANGED <<op, started, call, confirmed>>

\* Faulty variant: every 503 is taken for a refusal.
any_503_refuses(answer) ==
    IF answer = "ok" THEN "confirmed"
    ELSE IF answer \in {"refusal", "service_unavailable", "dispatch_unconfirmed"} THEN "refused"
    ELSE "unconfirmed"

\* Faulty variant: a recorded request counts as done.
recorded_is_confirmed(answer) ==
    IF answer \in {"ok", "dispatch_unconfirmed"} THEN "confirmed"
    ELSE IF answer \in {"refusal", "service_unavailable"} THEN "refused"
    ELSE "unconfirmed"

\* How the client sorts an answer to a mutation.
_request(answer) ==
    IF answer = "ok" THEN "confirmed"
    ELSE IF answer \in {"refusal", "service_unavailable"} THEN "refused"
    ELSE "unconfirmed"

Conclude(s, result) ==
    /\ call[s].told = "waiting"
    /\ call' = [call EXCEPT ![s].told = IF result = "refused" THEN result ELSE "result",
                             ![s].at = IF @ \in Answers THEN "gone" ELSE @]
    /\ confirmed' = IF result = "confirmed" THEN confirmed \cup {call[s].kind} ELSE confirmed
    /\ pending' = IF result = "unconfirmed" THEN pending \cup ({call[s].kind} \ confirmed)
                  ELSE pending \ {call[s].kind}
    /\ UNCHANGED <<op, started>>

Receive(s) == call[s].at \in Answers /\ Conclude(s, _request(call[s].at))

\* A gateway answers 502, 503 or 504 by itself; the server goes on.
Gateway(s) == Conclude(s, _request("gateway"))

\* No answer arrives in time, the connection breaks or the answer is unreadable.
TransportFails(s) == Conclude(s, "unconfirmed")

-----------------------------------------------------------------------------
(* The server                                                               *)

\* An answer finds the client waiting, or nobody.
Answered(s, answer) == IF call[s].told = "waiting" THEN answer ELSE "gone"

\* The request is handled up to its ledger transaction, which commits or does
\* nothing; "dispatch" is the time between that and the answer.
Handled(s, at, did) ==
    call' = [call EXCEPT ![s].did = did,
                         ![s].at = IF at \in Answers THEN Answered(s, at) ELSE at]

\* Refused by rights, validation or state (409); 503 if the ledger fails, also
\* when it was only to record the refusal.
Refuse(s) ==
    /\ call[s].at = "sent"
    /\ \E answer \in {"refusal", "service_unavailable"} : Handled(s, answer, FALSE)
    /\ UNCHANGED <<op, started, confirmed, pending>>

\* Faulty variant: a replay is answered, whether or not it was dispatched.
replay_answers(s) == op.state # "none" /\ Handled(s, "ok", FALSE) /\ UNCHANGED op

\* The same key and body: the operation as it is, dispatched again while queued.
replay(s) ==
    /\ op.state # "none"
    /\ Handled(s, IF op.state = "queued" THEN "dispatch" ELSE "ok", FALSE)
    /\ UNCHANGED op

\* Acceptance may still fail after its commit, when an expired plan of the
\* resource cannot be removed.
accept_intent(s) ==
    \/ replay(s)
    \/ /\ op.state = "none"
       /\ op' = [op EXCEPT !.state = "queued"]
       /\ \E at \in {"dispatch", "error"} : Handled(s, at, TRUE)

execute(s) ==
    \/ /\ op.state = "planned"
       /\ op' = [op EXCEPT !.state = "apply_queued"]
       /\ Handled(s, "dispatch", TRUE)
    \/ /\ op.state = "planned"   \* the plan has expired: failed, and not applied
       /\ op' = [op EXCEPT !.state = "failed"]
       /\ Handled(s, "refusal", FALSE)
    \/ /\ op.state \in Executable \ {"planned"} /\ UNCHANGED op
       /\ Handled(s, IF op.state = "apply_queued" THEN "dispatch" ELSE "ok", FALSE)

discard(s) ==
    \/ op.discarded /\ Handled(s, "ok", FALSE) /\ UNCHANGED op
    \/ /\ op.state = "planned"
       /\ op' = [op EXCEPT !.state = "failed", !.discarded = TRUE]
       /\ Handled(s, "ok", TRUE)

Handle(s) ==
    /\ call[s].at = "sent"
    /\ \/ call[s].kind = "submit" /\ accept_intent(s)
       \/ call[s].kind = "execute" /\ execute(s)
       \/ call[s].kind = "discard" /\ discard(s)
    /\ UNCHANGED <<started, confirmed, pending>>

Phase(s) == IF call[s].kind = "submit" THEN "plan" ELSE "apply"

\* Temporal starts the phase, once, and says so; otherwise it may have started.
dispatch_operation(s) ==
    /\ call[s].at = "dispatch"
    /\ started' = started \cup {Phase(s)}
    /\ call' = [call EXCEPT ![s].at = Answered(s, "ok")]
    /\ UNCHANGED <<op, confirmed, pending>>

DispatchFails(s) ==
    /\ call[s].at = "dispatch"
    /\ \E phases \in {{}, {Phase(s)}} : started' = started \cup phases
    /\ call' = [call EXCEPT ![s].at = Answered(s, "dispatch_unconfirmed")]
    /\ UNCHANGED <<op, confirmed, pending>>

\* The request never arrives, or the API dies while it works on it.
Lose(s) ==
    /\ call[s].at \in {"sent", "dispatch"}
    /\ call' = [call EXCEPT ![s].at = "gone"]
    /\ UNCHANGED <<op, started, confirmed, pending>>

-----------------------------------------------------------------------------
(* The worker: a phase that was started claims the operation and ends it.   *)

Claim(phase) ==
    /\ phase \in started
    /\ \/ phase = "plan" /\ op.state = "queued" /\ op' = [op EXCEPT !.state = "planning"]
       \/ phase = "apply" /\ op.state = "apply_queued" /\ op' = [op EXCEPT !.state = "applying"]
    /\ UNCHANGED <<started, call, confirmed, pending>>

Work ==
    /\ \E state \in {"planned", "succeeded", "failed", "uncertain"} :
           /\ \/ op.state = "planning" /\ state # "succeeded"
              \/ op.state = "applying" /\ state # "planned"
           /\ op' = [op EXCEPT !.state = state]
    /\ UNCHANGED <<started, call, confirmed, pending>>

Next ==
    \/ NotExecutable \/ Work \/ \E phase \in {"plan", "apply"} : Claim(phase)
    \/ \E s \in Slot :
           \/ \E kind \in Kinds : Send(s, kind)
           \/ Receive(s) \/ Gateway(s) \/ TransportFails(s)
           \/ Refuse(s) \/ Handle(s) \/ Lose(s)
           \/ dispatch_operation(s) \/ DispatchFails(s)

\* The caller retries what is unconfirmed, no request is under way for ever, and
\* the network, the API and Temporal do not fail every time.
Fairness ==
    /\ \A kind \in {"submit", "execute"} :
           /\ SF_vars(kind \in pending /\ \E s \in Slot : Send(s, kind))
           /\ SF_vars(\E s \in Slot : call[s].kind = kind /\ Handle(s))
           /\ SF_vars(\E s \in Slot : call[s].kind = kind /\ dispatch_operation(s))
    /\ WF_vars(NotExecutable)
    /\ \A s \in Slot : /\ WF_vars(Receive(s) \/ TransportFails(s))
                       /\ WF_vars(Handle(s) \/ Lose(s) \/ dispatch_operation(s))

SessionSpec == Init /\ [][Next]_vars /\ Fairness

-----------------------------------------------------------------------------
(* Properties                                                               *)

\* A plain ClientError means that nothing of what this request asked for was
\* done, and never will be: only an AmbiguousMutation must be retained and
\* retried.  (A refused execution of an expired plan does fail the operation.)
DefiniteRefusal == \A s \in Slot : call[s].told = "refused" => ~call[s].did

\* What a confirmed request asked for has happened: the phase of a submission or
\* an execution is started, also if another attempt accepted it; a discarded plan
\* is never applied.
ConfirmedTookEffect ==
    /\ "submit" \in confirmed => "plan" \in started
    /\ "execute" \in confirmed => "apply" \in started
    /\ "discard" \in confirmed => "apply" \notin started

\* Accepted work whose answer was lost does not stay behind: a caller that keeps
\* retrying the identical request gets it started, or a refusal.
RetriedIsStarted ==
    /\ "submit" \in pending ~> "plan" \in started \/ "submit" \notin pending \cup confirmed
    /\ "execute" \in pending ~> "apply" \in started \/ "execute" \notin pending \cup confirmed
=============================================================================
