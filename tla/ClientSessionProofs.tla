------------------------- MODULE ClientSessionProofs -------------------------
(***************************************************************************)
(* Theorems about ClientSession, for any number of requests under way at   *)
(* once: nothing of what was refused was done, and a confirmation took     *)
(* effect.                                                                 *)
(***************************************************************************)
EXTENDS ClientSession, TLAPS

States == {"none", "queued", "planning", "planned", "apply_queued", "applying",
           "succeeded", "failed", "uncertain"}
Places == {"sent", "dispatch", "gone"} \cup Answers
Call == [kind : Kinds, at : Places, told : {"waiting", "result", "refused"}, did : BOOLEAN]

\* The types that the arguments below rest on.
Typed ==
    /\ op \in [state : States, discarded : BOOLEAN]
    /\ started \subseteq {"plan", "apply"}
    /\ call \in [Slot -> Call]
    /\ confirmed \subseteq Kinds

\* A refused request is over and did nothing; one that is about to be refused
\* has done nothing.
Clean(c) ==
    /\ c.told = "refused" => c.at = "gone" /\ ~c.did
    /\ c.at \in {"refusal", "service_unavailable"} => ~c.did

\* The operation moves on only after the phase that moves it was started.
PhasesStarted ==
    /\ op.state \notin {"none", "queued"} => "plan" \in started
    /\ op.state \in {"applying", "succeeded"} => "apply" \in started

\* Before an execution is committed, and after a discard, nothing applies.
NotApplied ==
    /\ op.discarded => op.state = "failed"
    /\ op.discarded \/ op.state \in {"none", "queued", "planning", "planned"} =>
           /\ "apply" \notin started
           /\ \A s \in Slot : call[s].kind = "execute" => call[s].at # "dispatch"

\* What a request of each kind is for.
Effect(kind) ==
    /\ kind = "submit" => "plan" \in started
    /\ kind = "execute" => "apply" \in started
    /\ kind = "discard" => op.discarded

\* An answer of success tells the truth, and so does what the client makes of it.
Truthful ==
    /\ \A s \in Slot : /\ call[s].at = "ok" => Effect(call[s].kind)
                       /\ call[s].kind = "discard" => call[s].at # "dispatch"
    /\ \A kind \in confirmed : Effect(kind)

SessionInv ==
    /\ Typed
    /\ \A s \in Slot : Clean(call[s])
    /\ PhasesStarted /\ NotApplied /\ Truthful

-----------------------------------------------------------------------------
(* What the steps do to a request: everything else is left as it was.       *)

OthersKept(s) == \A q \in Slot \ {s} : call'[q] = call[q]

LEMMA AnsweredIn ==
  ASSUME NEW s \in Slot, NEW answer \in Answers, Typed
  PROVE  Answered(s, answer) \in {answer, "gone"}
BY DEF Answered

LEMMA HandledCall ==
  ASSUME NEW s \in Slot, NEW at \in Places, NEW did \in BOOLEAN, Typed, Handled(s, at, did)
  PROVE  /\ call' \in [Slot -> Call]
         /\ call'[s].kind = call[s].kind /\ call'[s].told = call[s].told
         /\ call'[s].did = did
         /\ call'[s].at \in {at} \cup {"gone"}
         /\ OthersKept(s)
<1>1. (IF at \in Answers THEN Answered(s, at) ELSE at) \in {at, "gone"}
  BY DEF Answered
<1> DEFINE place == IF at \in Answers THEN Answered(s, at) ELSE at
<1>2. place \in {at, "gone"} /\ place \in Places
  BY <1>1 DEF Places
<1>3. call' = [call EXCEPT ![s] = [[call[s] EXCEPT !.did = did] EXCEPT !.at = place]]
  BY DEF Handled, Typed
<1> HIDE DEF place
<1>4. call[s] \in Call
  BY DEF Typed
<1>5. call'[s] = [[call[s] EXCEPT !.did = did] EXCEPT !.at = place]
  BY <1>3 DEF Typed
<1>6. call'[s] \in Call
  BY <1>2, <1>4, <1>5 DEF Call
<1> QED
  BY <1>2, <1>3, <1>4, <1>5, <1>6 DEF Typed, Call, OthersKept

\* Effects stay: phases are never unstarted, nor is a discard taken back.
LEMMA EffectStays ==
  ASSUME NEW kind, Effect(kind), started \subseteq started', op.discarded => op'.discarded
  PROVE  Effect(kind)'
BY DEF Effect

\* A step that moves one request keeps the invariant if what it does to that
\* request, to the operation and to what is confirmed does.
LEMMA OneRequest ==
  ASSUME NEW s \in Slot, SessionInv,
         call' \in [Slot -> Call], OthersKept(s),
         op' \in [state : States, discarded : BOOLEAN], op.discarded => op'.discarded,
         started \subseteq started', started' \subseteq {"plan", "apply"},
         confirmed' \subseteq Kinds, \A kind \in confirmed' : Effect(kind)',
         Clean(call'[s]),
         call'[s].at = "ok" => Effect(call[s].kind)',
         call'[s].kind = "discard" => call'[s].at # "dispatch",
         PhasesStarted', NotApplied'
  PROVE  SessionInv'
<1>1. \A q \in Slot : Clean(call[q])'
  <2> TAKE q \in Slot
  <2>1. CASE q = s
    BY <2>1 DEF Clean
  <2>2. CASE q # s
    BY <2>2 DEF OthersKept, SessionInv, Clean
  <2> QED
    BY <2>1, <2>2
<1>2. \A q \in Slot : (call[q].at = "ok" => Effect(call[q].kind))'
  <2> TAKE q \in Slot
  <2>1. CASE q = s
    BY <2>1 DEF Effect
  <2>2. CASE q # s
    <3>1. call'[q] = call[q]
      BY <2>2 DEF OthersKept
    <3>2. PICK kind : kind = call[q].kind
      OBVIOUS
    <3>3. call[q].at = "ok" => Effect(kind)
      BY <3>2 DEF SessionInv, Truthful
    <3>4. call[q].at = "ok" => Effect(kind)'
      BY <3>3, EffectStays
    <3> QED
      BY <3>1, <3>2, <3>4 DEF Effect
  <2> QED
    BY <2>1, <2>2
<1>3. \A q \in Slot : call'[q].kind = "discard" => call'[q].at # "dispatch"
  BY DEF OthersKept, SessionInv, Truthful
<1>4. Typed'
  BY DEF Typed
<1>5. Truthful'
  BY <1>2, <1>3 DEF Truthful, Effect
<1> QED
  BY <1>1, <1>4, <1>5 DEF SessionInv

\* A step that leaves the operation and its phases alone and commits nothing for
\* this request keeps what was said of them.
LEMMA NothingCommitted ==
  ASSUME NEW s \in Slot, SessionInv, UNCHANGED <<op, started>>, OthersKept(s),
         call'[s].at = "dispatch" => call[s].at = "dispatch" /\ call'[s].kind = call[s].kind
  PROVE  PhasesStarted' /\ NotApplied'
BY DEF SessionInv, PhasesStarted, NotApplied, OthersKept

\* What was confirmed before stays confirmed with its effect.
LEMMA ConfirmedStays ==
  ASSUME SessionInv, UNCHANGED confirmed, started \subseteq started', op.discarded => op'.discarded
  PROVE  confirmed' \subseteq Kinds /\ \A kind \in confirmed' : Effect(kind)'
BY EffectStays DEF SessionInv, Typed, Truthful

-----------------------------------------------------------------------------
LEMMA InitInv == Init => SessionInv
BY DEF Init, SessionInv, Typed, Clean, PhasesStarted, NotApplied, Truthful, Effect, States,
       Places, Call, Kinds, Answers

LEMMA SendInv ==
  ASSUME SessionInv, NEW s \in Slot, NEW kind \in Kinds, Send(s, kind)
  PROVE  SessionInv'
<1> DEFINE request == [kind |-> kind, at |-> "sent", told |-> "waiting", did |-> FALSE]
<1>1. request \in Call
  BY DEF Call, Places
<1>2. /\ call' = [call EXCEPT ![s] = request] /\ call \in [Slot -> Call]
      /\ UNCHANGED <<op, started, confirmed>>
  BY DEF Send, SessionInv, Typed
<1>3. call' \in [Slot -> Call] /\ OthersKept(s) /\ call'[s] = request
  BY <1>1, <1>2 DEF OthersKept
<1>4. /\ Clean(call'[s]) /\ call'[s].at \notin {"ok", "dispatch"}
  BY <1>3 DEF Clean
<1>5. PhasesStarted' /\ NotApplied'
  BY <1>2, <1>3, <1>4, NothingCommitted
<1>6. confirmed' \subseteq Kinds /\ \A k \in confirmed' : Effect(k)'
  BY <1>2, ConfirmedStays
<1>7. op' \in [state : States, discarded : BOOLEAN] /\ started' \subseteq {"plan", "apply"}
  BY <1>2 DEF SessionInv, Typed
<1> QED
  BY <1>2, <1>3, <1>4, <1>5, <1>6, <1>7, OneRequest

\* The client concludes: it refuses only what an answer refuses, and confirms
\* only what an answer confirms.
LEMMA ConcludeInv ==
  ASSUME SessionInv, NEW s \in Slot, NEW result \in {"confirmed", "refused", "unconfirmed"},
         Conclude(s, result),
         result = "refused" => call[s].at \in {"refusal", "service_unavailable"},
         result = "confirmed" => call[s].at = "ok"
  PROVE  SessionInv'
<1> DEFINE told == IF result = "refused" THEN result ELSE "result"
           place == IF call[s].at \in Answers THEN "gone" ELSE call[s].at
<1>1. call[s] \in Call /\ call \in [Slot -> Call]
  BY DEF SessionInv, Typed
<1>2. call' = [call EXCEPT ![s] = [[call[s] EXCEPT !.told = told] EXCEPT !.at = place]]
  BY <1>1 DEF Conclude, Call
<1>3. told \in {"result", "refused"} /\ place \in Places /\ place \notin Answers
  BY <1>1 DEF Call, Places, Answers
<1>4. /\ call'[s] \in Call /\ call'[s].kind = call[s].kind /\ call'[s].did = call[s].did
      /\ call'[s].told = told /\ call'[s].at = place
  BY <1>1, <1>2, <1>3 DEF Call
<1>5. call' \in [Slot -> Call] /\ OthersKept(s)
  BY <1>1, <1>2, <1>4 DEF OthersKept
<1>6. Clean(call'[s])
  BY <1>3, <1>4 DEF Clean, Answers, SessionInv
<1>7. call'[s].at # "ok" /\ (call'[s].at = "dispatch" => call[s].at = "dispatch")
  BY <1>3, <1>4 DEF Answers
<1>8. UNCHANGED <<op, started>>
  BY DEF Conclude
<1>9. PhasesStarted' /\ NotApplied'
  BY <1>4, <1>5, <1>7, <1>8, NothingCommitted
<1>10. confirmed' \subseteq Kinds /\ \A kind \in confirmed' : Effect(kind)'
  <2>1. confirmed' \subseteq confirmed \cup {call[s].kind}
    BY DEF Conclude
  <2>2. call[s].kind \notin confirmed /\ call[s].kind \in confirmed' => Effect(call[s].kind)
    BY DEF Conclude, SessionInv, Truthful
  <2>3. \A kind \in confirmed' : Effect(kind)
    BY <2>1, <2>2 DEF SessionInv, Truthful
  <2> QED
    BY <1>1, <1>8, <2>1, <2>3, EffectStays DEF SessionInv, Typed, Call
<1>11. call'[s].kind = "discard" => call'[s].at # "dispatch"
  BY <1>4, <1>7 DEF SessionInv, Truthful
<1> QED
  BY <1>5, <1>6, <1>7, <1>8, <1>9, <1>10, <1>11, OneRequest DEF SessionInv, Typed

-----------------------------------------------------------------------------
Early == {"none", "queued", "planning", "planned"}

\* What a transaction of the server has to respect, whatever it does to the operation.
LEMMA HandledInv ==
  ASSUME SessionInv, NEW s \in Slot, NEW at \in Places, NEW did \in BOOLEAN,
         Handled(s, at, did), call[s].at = "sent", UNCHANGED <<started, confirmed>>,
         at \in {"refusal", "service_unavailable"} => ~did,
         op' \in [state : States, discarded : BOOLEAN], op.discarded => op'.discarded,
         op'.discarded => op'.state = "failed",
         op'.discarded \/ op'.state \in Early =>
             /\ op.discarded \/ op.state \in Early
             /\ call[s].kind = "execute" => at # "dispatch",
         PhasesStarted',
         at = "ok" => Effect(call[s].kind)',
         call[s].kind = "discard" => at # "dispatch"
  PROVE  SessionInv'
<1>1. Typed
  BY DEF SessionInv
<1>2. /\ call' \in [Slot -> Call] /\ OthersKept(s)
      /\ call'[s].kind = call[s].kind /\ call'[s].told = call[s].told
      /\ call'[s].did = did /\ call'[s].at \in {at} \cup {"gone"}
  BY <1>1, HandledCall
<1>3. Clean(call'[s])
  BY <1>2 DEF SessionInv, Clean
<1>4. confirmed' \subseteq Kinds /\ \A kind \in confirmed' : Effect(kind)'
  BY ConfirmedStays
<1>5. NotApplied'
  BY <1>2 DEF NotApplied, SessionInv, OthersKept, Early
<1>6. started' \subseteq {"plan", "apply"}
  BY <1>1 DEF Typed
<1>7. call'[s].at = "ok" => Effect(call[s].kind)'
  BY <1>2 DEF Effect
<1>8. call'[s].kind = "discard" => call'[s].at # "dispatch"
  BY <1>2
<1> QED
  BY <1>2, <1>3, <1>4, <1>5, <1>6, <1>7, <1>8, OneRequest

LEMMA RefuseInv ==
  ASSUME SessionInv, NEW s \in Slot, Refuse(s)
  PROVE  SessionInv'
<1>1. PICK answer \in {"refusal", "service_unavailable"} : Handled(s, answer, FALSE)
  BY DEF Refuse
<1>2. answer \in Places /\ answer \notin {"ok", "dispatch"}
  BY DEF Places, Answers
<1>3. call[s].at = "sent" /\ UNCHANGED <<op, started, confirmed>>
  BY DEF Refuse
<1>4. op' \in [state : States, discarded : BOOLEAN]
  BY <1>3 DEF SessionInv, Typed
<1>5. PhasesStarted'
  BY <1>3 DEF SessionInv, PhasesStarted
<1> QED
  BY <1>1, <1>2, <1>3, <1>4, <1>5, HandledInv DEF SessionInv, NotApplied

LEMMA AcceptInv ==
  ASSUME SessionInv, NEW s \in Slot, call[s].at = "sent", call[s].kind = "submit",
         accept_intent(s), UNCHANGED <<started, confirmed>>
  PROVE  SessionInv'
<1>1. CASE replay(s)
  <2> DEFINE at == IF op.state = "queued" THEN "dispatch" ELSE "ok"
  <2>1. at \in Places /\ Handled(s, at, FALSE) /\ UNCHANGED op /\ op.state # "none"
    BY <1>1 DEF replay, Places, Answers
  <2> HIDE DEF at
  <2>4. call'[s].kind = call[s].kind
    BY <2>1, HandledCall DEF SessionInv
  <2> USE DEF at
  <2>2. at = "ok" => Effect(call[s].kind)'
    BY <2>1, <2>4 DEF Effect, SessionInv, PhasesStarted
  <2>3. op' \in [state : States, discarded : BOOLEAN] /\ PhasesStarted'
    BY <2>1 DEF SessionInv, Typed, PhasesStarted
  <2> HIDE DEF at
  <2> QED
    BY <2>1, <2>2, <2>3, HandledInv DEF SessionInv, NotApplied, Early
<1>2. CASE op.state = "none" /\ op' = [op EXCEPT !.state = "queued"]
           /\ \E at \in {"dispatch", "error"} : Handled(s, at, TRUE)
  <2>1. PICK at \in {"dispatch", "error"} : Handled(s, at, TRUE)
    BY <1>2
  <2>2. at \in Places /\ at \notin {"ok", "refusal", "service_unavailable"}
    BY DEF Places, Answers
  <2>3. /\ op' \in [state : States, discarded : BOOLEAN]
        /\ op'.state = "queued" /\ op'.discarded = op.discarded /\ ~op.discarded
    BY <1>2 DEF SessionInv, Typed, States, NotApplied
  <2>4. PhasesStarted'
    BY <2>3 DEF PhasesStarted
  <2> QED
    BY <1>2, <2>1, <2>2, <2>3, <2>4, HandledInv DEF Early
<1> QED
  BY <1>1, <1>2 DEF accept_intent

LEMMA ExecuteInv ==
  ASSUME SessionInv, NEW s \in Slot, call[s].at = "sent", call[s].kind = "execute",
         execute(s), UNCHANGED <<started, confirmed>>
  PROVE  SessionInv'
<1>1. CASE op.state = "planned" /\ op' = [op EXCEPT !.state = "apply_queued"]
           /\ Handled(s, "dispatch", TRUE)
  <2>1. /\ op' \in [state : States, discarded : BOOLEAN] /\ ~op.discarded
        /\ op'.state = "apply_queued" /\ op'.discarded = op.discarded
    BY <1>1 DEF SessionInv, Typed, States, NotApplied
  <2>2. PhasesStarted'
    BY <1>1, <2>1 DEF PhasesStarted, SessionInv
  <2>3. "dispatch" \in Places
    BY DEF Places
  <2> QED
    BY <1>1, <2>1, <2>2, <2>3, HandledInv DEF Early
<1>2. CASE op.state = "planned" /\ op' = [op EXCEPT !.state = "failed"]
           /\ Handled(s, "refusal", FALSE)
  <2>1. /\ op' \in [state : States, discarded : BOOLEAN] /\ ~op.discarded
        /\ op'.state = "failed" /\ op'.discarded = op.discarded
    BY <1>2 DEF SessionInv, Typed, States, NotApplied
  <2>2. PhasesStarted'
    BY <1>2, <2>1 DEF PhasesStarted, SessionInv
  <2>3. "refusal" \in Places
    BY DEF Places, Answers
  <2> QED
    BY <1>2, <2>1, <2>2, <2>3, HandledInv DEF Early
<1>3. CASE /\ op.state \in Executable \ {"planned"} /\ UNCHANGED op
           /\ Handled(s, IF op.state = "apply_queued" THEN "dispatch" ELSE "ok", FALSE)
  <2> DEFINE at == IF op.state = "apply_queued" THEN "dispatch" ELSE "ok"
  <2>1. at \in Places /\ Handled(s, at, FALSE) /\ at \notin {"refusal", "service_unavailable"}
    BY <1>3 DEF Places, Answers
  <2> HIDE DEF at
  <2>5. call'[s].kind = call[s].kind
    BY <2>1, HandledCall DEF SessionInv
  <2> USE DEF at
  <2>2. at = "ok" => Effect(call[s].kind)'
    BY <1>3, <2>5 DEF Effect, SessionInv, PhasesStarted, Executable
  <2>3. op' \in [state : States, discarded : BOOLEAN] /\ PhasesStarted'
    BY <1>3 DEF SessionInv, Typed, PhasesStarted
  <2>4. ~op'.discarded /\ op'.state \notin Early
    BY <1>3 DEF SessionInv, NotApplied, Executable, Early
  <2> HIDE DEF at
  <2> QED
    BY <1>3, <2>1, <2>2, <2>3, <2>4, HandledInv
<1> QED
  BY <1>1, <1>2, <1>3 DEF execute

LEMMA DiscardInv ==
  ASSUME SessionInv, NEW s \in Slot, call[s].at = "sent", call[s].kind = "discard",
         discard(s), UNCHANGED <<started, confirmed>>
  PROVE  SessionInv'
<1>1. "ok" \in Places
  BY DEF Places, Answers
<1>2. CASE op.discarded /\ Handled(s, "ok", FALSE) /\ UNCHANGED op
  <2>1. op' \in [state : States, discarded : BOOLEAN] /\ PhasesStarted'
    BY <1>2 DEF SessionInv, Typed, PhasesStarted
  <2>3. call'[s].kind = call[s].kind
    BY <1>1, <1>2, HandledCall DEF SessionInv
  <2>2. Effect(call[s].kind)'
    BY <1>2, <2>3 DEF Effect
  <2> QED
    BY <1>1, <1>2, <2>1, <2>2, HandledInv DEF SessionInv, NotApplied
<1>3. CASE op.state = "planned" /\ op' = [op EXCEPT !.state = "failed", !.discarded = TRUE]
           /\ Handled(s, "ok", TRUE)
  <2>1. op' \in [state : States, discarded : BOOLEAN] /\ op'.state = "failed" /\ op'.discarded
    BY <1>3 DEF SessionInv, Typed, States
  <2>2. PhasesStarted'
    BY <1>3, <2>1 DEF PhasesStarted, SessionInv
  <2>4. call'[s].kind = call[s].kind
    BY <1>1, <1>3, HandledCall DEF SessionInv
  <2>3. Effect(call[s].kind)'
    BY <2>1, <2>4 DEF Effect
  <2> QED
    BY <1>1, <1>3, <2>1, <2>2, <2>3, HandledInv DEF Early
<1> QED
  BY <1>2, <1>3 DEF discard

LEMMA HandleInv ==
  ASSUME SessionInv, NEW s \in Slot, Handle(s)
  PROVE  SessionInv'
BY AcceptInv, ExecuteInv, DiscardInv DEF Handle

-----------------------------------------------------------------------------
\* The answer to a dispatch, whether Temporal started the phase or not.
LEMMA DispatchInv ==
  ASSUME SessionInv, NEW s \in Slot, NEW answer \in {"ok", "dispatch_unconfirmed"},
         call[s].at = "dispatch", UNCHANGED <<op, confirmed>>,
         started' \in {started, started \cup {Phase(s)}},
         answer = "ok" => Phase(s) \in started',
         call' = [call EXCEPT ![s].at = Answered(s, answer)]
  PROVE  SessionInv'
<1>1. Typed /\ call[s] \in Call /\ Clean(call[s])
  BY DEF SessionInv, Typed
<1>2. answer \in Answers /\ Answered(s, answer) \in {answer, "gone"}
  BY <1>1, AnsweredIn DEF Answers
<1>3. /\ call' \in [Slot -> Call] /\ OthersKept(s)
      /\ call'[s] = [call[s] EXCEPT !.at = Answered(s, answer)]
      /\ call'[s].at \in {answer, "gone"} /\ call'[s].kind = call[s].kind
  BY <1>1, <1>2 DEF Typed, Call, Places, Answers, OthersKept
<1>4. Clean(call'[s])
  BY <1>1, <1>3 DEF Clean, Call
<1>5. started \subseteq started' /\ started' \subseteq {"plan", "apply"}
  BY <1>1 DEF Typed, Phase
<1>6. confirmed' \subseteq Kinds /\ \A kind \in confirmed' : Effect(kind)'
  BY <1>5, ConfirmedStays
<1>7. call[s].kind \in {"submit", "execute"}
  BY <1>1 DEF SessionInv, Truthful, Call, Kinds
<1>8. call'[s].at = "ok" => Effect(call[s].kind)'
  BY <1>3, <1>7 DEF Effect, Phase
<1>9. call'[s].kind = "discard" => call'[s].at # "dispatch"
  BY <1>3
<1>10. PhasesStarted'
  BY <1>5 DEF SessionInv, PhasesStarted
<1>11. NotApplied'
  <2>1. CASE call[s].kind = "submit"
    <3>1. "apply" \in started' => "apply" \in started
      BY <2>1 DEF Phase
    <3> QED
      BY <1>3, <3>1 DEF NotApplied, SessionInv, OthersKept
  <2>2. CASE call[s].kind = "execute"
    BY <2>2 DEF NotApplied, SessionInv
  <2> QED
    BY <1>7, <2>1, <2>2
<1>12. op' \in [state : States, discarded : BOOLEAN]
  BY <1>1 DEF Typed
<1> QED
  BY <1>3, <1>4, <1>5, <1>6, <1>8, <1>9, <1>10, <1>11, <1>12, OneRequest

LEMMA LoseInv ==
  ASSUME SessionInv, NEW s \in Slot, Lose(s)
  PROVE  SessionInv'
<1>1. /\ call' = [call EXCEPT ![s].at = "gone"] /\ UNCHANGED <<op, started, confirmed>>
      /\ Typed /\ call[s] \in Call /\ Clean(call[s])
  BY DEF Lose, SessionInv, Typed
<1>2. /\ call' \in [Slot -> Call] /\ OthersKept(s)
      /\ call'[s] = [call[s] EXCEPT !.at = "gone"]
  BY <1>1 DEF Typed, Call, Places, OthersKept
<1>3. Clean(call'[s]) /\ call'[s].at = "gone"
  BY <1>1, <1>2 DEF Clean, Call
<1>4. PhasesStarted' /\ NotApplied'
  BY <1>1, <1>2, <1>3, NothingCommitted
<1>5. confirmed' \subseteq Kinds /\ \A kind \in confirmed' : Effect(kind)'
  BY <1>1, ConfirmedStays
<1> QED
  BY <1>1, <1>2, <1>3, <1>4, <1>5, OneRequest DEF Typed

\* The worker moves the operation, and no request.
LEMMA WorkerInv ==
  ASSUME SessionInv, Work \/ \E phase \in {"plan", "apply"} : Claim(phase)
  PROVE  SessionInv'
<1>1. UNCHANGED <<started, call, confirmed>> /\ Typed
  BY DEF Work, Claim, SessionInv
<1>2. PICK state \in States : op' = [op EXCEPT !.state = state]
  BY DEF Work, Claim, States
<1>3. op' \in [state : States, discarded : BOOLEAN] /\ op'.discarded = op.discarded
      /\ op'.state = state
  BY <1>1, <1>2 DEF Typed
<1>4. ~op.discarded /\ op.state \in {"queued", "apply_queued", "planning", "applying"}
  BY DEF Work, Claim, SessionInv, NotApplied
<1>5. /\ state \in {"planned", "failed", "uncertain", "succeeded"} \cup {"planning", "applying"}
      /\ state \in {"planning", "planned"} => op.state \in {"queued", "planning"}
      /\ state = "applying" => "apply" \in started
      /\ state = "succeeded" => op.state = "applying"
      /\ op.state = "queued" => "plan" \in started
  BY <1>1, <1>2, <1>3 DEF Work, Claim, Typed
<1>6. PhasesStarted'
  BY <1>1, <1>3, <1>4, <1>5 DEF PhasesStarted, SessionInv
<1>7. NotApplied'
  BY <1>1, <1>3, <1>4, <1>5 DEF NotApplied, SessionInv
<1>8. Typed' /\ \A s \in Slot : Clean(call[s])'
  BY <1>1, <1>3 DEF Typed, SessionInv, Clean
<1>9. Truthful'
  BY <1>1, <1>3 DEF SessionInv, Truthful, Effect
<1> QED
  BY <1>6, <1>7, <1>8, <1>9 DEF SessionInv

LEMMA UnchangedInv ==
  ASSUME SessionInv, UNCHANGED <<op, started, call, confirmed>>
  PROVE  SessionInv'
BY DEF SessionInv, Typed, Clean, PhasesStarted, NotApplied, Truthful, Effect

LEMMA NextInv == SessionInv /\ [Next]_vars => SessionInv'
<1> SUFFICES ASSUME SessionInv, [Next]_vars PROVE SessionInv'
  OBVIOUS
<1>1. CASE NotExecutable
  BY <1>1, UnchangedInv DEF NotExecutable
<1>2. CASE Work \/ \E phase \in {"plan", "apply"} : Claim(phase)
  BY <1>2, WorkerInv
<1>3. ASSUME NEW s \in Slot, NEW kind \in Kinds, Send(s, kind) PROVE SessionInv'
  BY <1>3, SendInv
<1>4. ASSUME NEW s \in Slot, Receive(s) PROVE SessionInv'
  BY <1>4, ConcludeInv DEF Receive, _request, Answers
<1>5. ASSUME NEW s \in Slot, Gateway(s) PROVE SessionInv'
  BY <1>5, ConcludeInv DEF Gateway, _request
<1>6. ASSUME NEW s \in Slot, TransportFails(s) PROVE SessionInv'
  BY <1>6, ConcludeInv DEF TransportFails
<1>7. ASSUME NEW s \in Slot, Refuse(s) PROVE SessionInv'
  BY <1>7, RefuseInv
<1>8. ASSUME NEW s \in Slot, Handle(s) PROVE SessionInv'
  BY <1>8, HandleInv
<1>9. ASSUME NEW s \in Slot, Lose(s) PROVE SessionInv'
  BY <1>9, LoseInv
<1>10. ASSUME NEW s \in Slot, dispatch_operation(s) PROVE SessionInv'
  BY <1>10, DispatchInv DEF dispatch_operation
<1>11. ASSUME NEW s \in Slot, DispatchFails(s) PROVE SessionInv'
  <2>1. started' \in {started, started \cup {Phase(s)}}
    BY <1>11 DEF DispatchFails
  <2> QED
    BY <1>11, <2>1, DispatchInv DEF DispatchFails
<1>12. CASE UNCHANGED vars
  BY <1>12, UnchangedInv DEF vars
<1> QED
  BY <1>1, <1>2, <1>3, <1>4, <1>5, <1>6, <1>7, <1>8, <1>9, <1>10, <1>11, <1>12 DEF Next

\* In every reachable state answers and conclusions are true of the operation.
THEOREM SessionSound == SessionSpec => []SessionInv
BY InitInv, NextInv, PTL DEF SessionSpec

\* Nothing of what a request asked for was done, or ever will be, once the client
\* reports it as refused (ClientError), however many requests are under way.
THEOREM RefusalsAreDefinite == SessionSpec => []DefiniteRefusal
<1>1. SessionInv => DefiniteRefusal
  BY DEF SessionInv, Clean, DefiniteRefusal
<1> QED
  BY <1>1, SessionSound, PTL

\* What the client reports as done is done: phases are started, and nothing that
\* was discarded is applied.
THEOREM ConfirmationsTookEffect == SessionSpec => []ConfirmedTookEffect
<1>1. SessionInv => ConfirmedTookEffect
  BY DEF SessionInv, Truthful, Effect, NotApplied, ConfirmedTookEffect
<1> QED
  BY <1>1, SessionSound, PTL
=============================================================================
