------------------------------ MODULE DriftSweep ------------------------------
(***************************************************************************)
(* The scheduled drift sweep: the activity (src/app/drift.py, sweep_drift), *)
(* the ledger queries it makes, and DriftSweepWorkflow, which calls it once *)
(* a cycle, starts the plan of every check it returns and sleeps.          *)
(*                                                                         *)
(* Each ledger call of the activity is a transaction of its own, so the    *)
(* users' operations, team edits, finishing checks and the clock come in   *)
(* between.  Temporal tries an activity three times; an attempt that timed *)
(* out may still be running while the next one works: the workflow awaits  *)
(* the one, and the other is overtaken.                                    *)
(*                                                                         *)
(* Time is counted in ticks of BACKLOG_SLEEP (a minute).  Ages stop at the *)
(* first tick at which a resource is due; buckets are counted back from    *)
(* the current one, so that a long run has finitely many states.           *)
(***************************************************************************)
EXTENDS Integers, Sequences, FiniteSets, SequencesExt

CONSTANTS
    Resource,    \* resources that are ready when the run begins
    Batch,       \* BATCH, checks the sweep may have outstanding
    Interval,    \* FORGEAPI_DRIFT_SWEEP_MINUTES, in ticks
    MaxChanges   \* bound: requests, team edits and restarts

ASSUME SweepAssumption ==
    /\ IsFiniteSet(Resource)
    /\ Batch \in Nat \ {0} /\ Interval \in Nat \ {0}
    /\ MaxChanges \in Nat

MaximumAttempts == 3

\* The attempts that can run at once.  Bound: one that outlived its timeout.
Attempt == {"awaited", "overtaken"}

VARIABLES
    row,        \* row[r]: [ready, operation, placed], what acceptance looks at
    age,        \* ticks since drift_checked_at
    order,      \* the resources, least recently stamped first
    busy,       \* the unfinished operation of a resource
    keys,       \* idempotency keys of the sweep, as <<resource, bucket>>
    phase,      \* ticks into the current bucket
    attempt,    \* the running attempts of the activity
    workflow,   \* [at, tries, operations, timer]
    enabled,    \* the setting is not 0
    submitted,  \* requests, team edits and restarts so far (bound)
    refusal,    \* the refused events of a resource since it became due (history)
    late        \* resources whose check an overtaken attempt accepted (history)

world == <<row, age, order, busy, phase, submitted>>
history == <<refusal, late>>
vars == <<row, age, order, busy, keys, phase, attempt, workflow, enabled,
          submitted, refusal, late>>

Due == Interval + 1

\* A queued check is "dispatched" once its plan workflow exists.
Waiting == {"queued", "dispatched"}
Idle == "idle"

NoAttempt == [pc |-> "none", allowed |-> 0, candidates |-> <<>>, bucket |-> 0, sleep |-> 0]
Off == [at |-> "off", tries |-> 0, operations |-> {}, timer |-> 0]

Init ==
    /\ row = [r \in Resource |-> [ready |-> TRUE, operation |-> 0, placed |-> TRUE]]
    /\ age = [r \in Resource |-> Due]
    /\ order = SetToSeq(Resource)
    /\ busy = [r \in Resource |-> Idle]
    /\ keys = {} /\ phase = 0
    /\ attempt = [a \in Attempt |-> NoAttempt]
    /\ workflow = Off /\ enabled = TRUE
    /\ submitted = 0
    /\ refusal = [r \in Resource |-> "none"] /\ late = {}

\* The members of a sequence that belong to a set, in the same order.
Select(s, S) ==
    LET upto[n \in 0..Len(s)] ==
            IF n = 0 THEN <<>>
            ELSE IF s[n] \in S THEN Append(upto[n - 1], s[n]) ELSE upto[n - 1]
    IN upto[Len(s)]

\* The stamp goes to the end of the order: now() is later than every other.
Stamped(r) == /\ age' = [age EXCEPT ![r] = 0]
              /\ order' = Append(Select(order, Resource \ {r}), r)

-----------------------------------------------------------------------------
(* The ledger queries of the activity.                                      *)

\* Faulty variant: a check that is being planned no longer counts.
outstanding_queued == Cardinality({r \in Resource : busy[r] \in Waiting})

\* The sweep's checks that are accepted and not finished.
outstanding_count == Cardinality({r \in Resource : busy[r] \in Waiting \cup {"planning"}})

Candidate == {r \in Resource : row[r].ready /\ age[r] = Due /\ busy[r] = Idle}

\* Faulty variant: the first resources by id, not the least recently checked.
candidates_by_id(limit) ==
    LET due == Select(SetToSeq(Resource), Candidate)
    IN SubSeq(due, 1, IF limit < Len(due) THEN limit ELSE Len(due))

\* Ready idle resources not checked within the interval, oldest first.
drift_candidates(limit) ==
    LET due == Select(order, Candidate)
    IN SubSeq(due, 1, IF limit < Len(due) THEN limit ELSE Len(due))

queued_operations == {r \in Resource : busy[r] \in Waiting}

-----------------------------------------------------------------------------
(* The activity, attempt `a`.                                               *)

Running(a, pc) == attempt[a].pc = pc

\* Temporal starts an attempt; with the setting off it ends the workflow.
Start ==
    /\ workflow.at = "cycle" /\ Running("awaited", "none")
    /\ workflow.tries < MaximumAttempts
    /\ IF enabled
       THEN attempt' = [attempt EXCEPT !["awaited"].pc = "count"] /\ UNCHANGED workflow
       ELSE workflow' = Off /\ UNCHANGED attempt
    /\ UNCHANGED <<world, history, keys, enabled>>

Count(a) ==
    /\ Running(a, "count")
    /\ attempt' = [attempt EXCEPT
           ![a].pc = "list",
           ![a].allowed = IF outstanding_count < Batch THEN Batch - outstanding_count ELSE 0]
    /\ UNCHANGED <<world, history, keys, workflow, enabled>>

\* The rows are remembered as they are now, with the operation each one names.
List(a) ==
    /\ Running(a, "list")
    /\ LET allowed == attempt[a].allowed
           found == drift_candidates(allowed)
       IN attempt' = [attempt EXCEPT
              ![a] = [pc |-> "accept", allowed |-> 0, bucket |-> 0,
                      candidates |-> [i \in DOMAIN found |-> <<found[i], row[found[i]].operation>>],
                      sleep |-> IF Len(found) = allowed THEN 1 ELSE Interval]]
    /\ UNCHANGED <<world, history, keys, workflow, enabled>>

\* What ledger.accept and the tenant mapping say of the candidate's row.
Acceptable(r, operation) ==
    row[r].placed /\ row[r].ready /\ row[r].operation = operation /\ busy[r] = Idle

\* A key already used replays its operation; otherwise the check is accepted.
accept_system(a) ==
    /\ Running(a, "accept") /\ attempt[a].candidates # <<>>
    /\ LET r == Head(attempt[a].candidates)[1]
           operation == Head(attempt[a].candidates)[2]
           key == <<r, attempt[a].bucket>>
       IN /\ row[r].placed
          /\ IF key \in keys
             THEN UNCHANGED <<busy, keys, late>>
             ELSE /\ Acceptable(r, operation)
                  /\ busy' = [busy EXCEPT ![r] = "queued"]
                  /\ keys' = keys \cup {key}
                  /\ late' = IF a = "awaited" THEN late ELSE late \cup {r}
    /\ attempt' = [attempt EXCEPT ![a].candidates = Tail(@)]
    /\ UNCHANGED <<row, age, order, phase, submitted, refusal, workflow,
                   enabled>>

\* Lost a race to a user's operation, or no longer placeable: the refused event
\* is one transaction, the stamp the next.
refused(a) ==
    /\ Running(a, "accept") /\ attempt[a].candidates # <<>>
    /\ LET r == Head(attempt[a].candidates)[1]
           operation == Head(attempt[a].candidates)[2]
       IN /\ <<r, attempt[a].bucket>> \in keys => ~row[r].placed
          /\ ~Acceptable(r, operation)
          /\ refusal' = [refusal EXCEPT ![r] = IF a = "awaited" THEN "once" ELSE "doubtful"]
    /\ attempt' = [attempt EXCEPT ![a].pc = "stamp"]
    /\ UNCHANGED <<world, keys, workflow, enabled, late>>

\* Faulty variant: only the reason is written, not the time.
stamp_reason(r) == UNCHANGED <<age, order>>

stamp_drift_refusal(r) == Stamped(r)

Stamp(a) ==
    /\ Running(a, "stamp")
    /\ stamp_drift_refusal(Head(attempt[a].candidates)[1])
    /\ attempt' = [attempt EXCEPT ![a].pc = "accept", ![a].candidates = Tail(@)]
    /\ UNCHANGED <<row, busy, phase, submitted, history, keys, workflow, enabled>>

\* An overtaken attempt ends the same way, and its result is ignored.
Return(a) ==
    /\ Running(a, "accept") /\ attempt[a].candidates = <<>>
    /\ attempt' = [attempt EXCEPT ![a] = NoAttempt]
    /\ workflow' = IF a = "awaited"
                   THEN [at |-> "dispatch", tries |-> 0, operations |-> queued_operations,
                         timer |-> attempt[a].sleep]
                   ELSE workflow
    /\ UNCHANGED <<world, history, keys, enabled>>

Lose(a) ==
    /\ refusal' = IF Running(a, "stamp")
                  THEN [refusal EXCEPT ![Head(attempt[a].candidates)[1]] = "doubtful"] ELSE refusal
    /\ workflow' = IF a = "awaited" THEN [workflow EXCEPT !.tries = @ + 1] ELSE workflow

\* Two minutes pass without an answer: Temporal tries again, the attempt goes on.
\* Bound: it goes on only if it has work left on a list it read before.
TimeOut ==
    /\ attempt["awaited"].candidates # <<>> /\ Running("overtaken", "none")
    /\ Lose("awaited")
    /\ attempt' = [awaited |-> NoAttempt, overtaken |-> attempt["awaited"]]
    /\ UNCHANGED <<world, keys, enabled, late>>

\* The worker dies or the ledger raises: the attempt ends where it stands.
Die(a) ==
    /\ ~Running(a, "none")
    /\ Lose(a)
    /\ attempt' = [attempt EXCEPT ![a] = NoAttempt]
    /\ UNCHANGED <<world, keys, enabled, late>>

-----------------------------------------------------------------------------
(* DriftSweepWorkflow.                                                      *)

\* A worker starts the one sweep, unless it is running (worker.start_drift_sweep).
start_drift_sweep ==
    /\ workflow.at = "off" /\ enabled
    /\ workflow' = [Off EXCEPT !.at = "cycle"]
    /\ UNCHANGED <<world, history, keys, attempt, enabled>>

\* The third attempt failed: so does the workflow.
Exhausted ==
    /\ workflow.at = "cycle" /\ workflow.tries = MaximumAttempts
    /\ workflow' = Off
    /\ UNCHANGED <<world, history, keys, attempt, enabled>>

\* The plan of each returned check is started, unless it was before.
Dispatch ==
    /\ workflow.at = "dispatch"
    /\ busy' = [r \in Resource |-> IF r \in workflow.operations /\ busy[r] = "queued"
                                   THEN "dispatched" ELSE busy[r]]
    /\ workflow' = [workflow EXCEPT !.at = "sleep", !.operations = {}]
    /\ UNCHANGED <<row, age, order, phase, submitted, history, keys, attempt, enabled>>

Wake ==
    /\ workflow.at = "sleep" /\ workflow.timer = 0
    /\ workflow' = [workflow EXCEPT !.at = "cycle"]
    /\ UNCHANGED <<world, history, keys, attempt, enabled>>

-----------------------------------------------------------------------------
(* The rest of the system.                                                  *)

\* The plan phase of a check claims it, and finishes or is interrupted, perhaps
\* before the claim: either way the resource is stamped (_record_drift_check).
Plan(r) ==
    /\ busy[r] = "dispatched"
    /\ busy' = [busy EXCEPT ![r] = "planning"]
    /\ UNCHANGED <<row, age, order, phase, submitted, history, keys, attempt, workflow, enabled>>

Checked(r) ==
    /\ busy[r] \in {"dispatched", "planning", "user_check"}
    /\ busy' = [busy EXCEPT ![r] = Idle]
    /\ Stamped(r)
    /\ late' = late \ {r}
    /\ UNCHANGED <<row, phase, submitted, refusal, keys, attempt, workflow, enabled>>

\* A user's operation is not over.
Held(r) == busy[r] \in {"change", "user_check"}

\* A user's deploy, destroy or drift check is accepted.  The row names a change
\* from then on.
Submit(r, kind) ==
    /\ submitted < MaxChanges /\ submitted' = submitted + 1
    /\ row[r].ready /\ busy[r] = Idle
    /\ busy' = [busy EXCEPT ![r] = kind]
    /\ row' = [row EXCEPT ![r].operation = IF kind = "user_check" THEN @ ELSE @ + 1]
    /\ UNCHANGED <<age, order, phase, history, keys, attempt, workflow, enabled>>

\* A user's change ends, if it does: failed, deployed (which resets the drift fields) or
\* destroyed.
Finish(r, outcome) ==
    /\ busy[r] = "change"
    /\ busy' = [busy EXCEPT ![r] = Idle]
    /\ IF outcome = "deployed" THEN Stamped(r) ELSE UNCHANGED <<age, order>>
    /\ row' = [row EXCEPT ![r].ready = outcome # "destroyed"]
    /\ UNCHANGED <<phase, submitted, history, keys, attempt, workflow, enabled>>

\* The tenant mapping loses the resource's environment, or gets it back.
Remap(r) ==
    /\ submitted < MaxChanges /\ submitted' = submitted + 1
    /\ row' = [row EXCEPT ![r].placed = ~@]
    /\ UNCHANGED <<age, order, busy, phase, history, keys, attempt, workflow, enabled>>

\* The workers are restarted with the sweep turned off, or on.
Configure ==
    /\ submitted < MaxChanges /\ submitted' = submitted + 1
    /\ enabled' = ~enabled
    /\ UNCHANGED <<row, age, order, busy, phase, history, keys, attempt, workflow>>

\* The attempts that have computed their bucket.
Listed == {a \in Attempt : Running(a, "accept") \/ Running(a, "stamp")}

\* Time passes.  Bound: no attempt outlives the bucket after its own.  The keys
\* of a bucket no attempt holds any more are forgotten.
Tick ==
    LET crossing == phase + 1 = Interval
    IN /\ crossing => \A a \in Attempt : attempt[a].bucket = 0
       /\ age' = [r \in Resource |-> IF age[r] < Due THEN age[r] + 1 ELSE Due]
       /\ refusal' = [r \in Resource |-> IF age[r] = Interval THEN "none" ELSE refusal[r]]
       /\ workflow' = IF workflow.at = "sleep" /\ workflow.timer > 0
                      THEN [workflow EXCEPT !.timer = @ - 1] ELSE workflow
       /\ phase' = IF crossing THEN 0 ELSE phase + 1
       /\ IF crossing
          THEN /\ keys' = {<<k[1], 1>> : k \in {k \in keys : k[2] = 0 /\ Listed # {}}}
               /\ attempt' = [a \in Attempt |-> IF a \in Listed
                                                THEN [attempt[a] EXCEPT !.bucket = 1] ELSE attempt[a]]
          ELSE UNCHANGED <<keys, attempt>>
       /\ UNCHANGED <<row, order, busy, submitted, late, enabled>>

Work(a) == Count(a) \/ List(a) \/ accept_system(a) \/ refused(a) \/ Stamp(a) \/ Return(a)

Next ==
    \/ start_drift_sweep \/ Exhausted \/ Dispatch \/ Wake \/ Configure \/ Tick
    \/ Start \/ TimeOut \/ \E a \in Attempt : Work(a) \/ Die(a)
    \/ \E r \in Resource :
           \/ Plan(r) \/ Checked(r) \/ Remap(r)
           \/ Submit(r, "change") \/ Submit(r, "user_check")
           \/ \E outcome \in {"failed", "deployed", "destroyed"} : Finish(r, outcome)

\* Temporal runs timers, attempts and started plans, and a started check ends by
\* its phase's timeout at the latest.  Users' operations need not end: a planned
\* change waits for its caller, an uncertain one for an operator, and a check
\* whose dispatch was lost for its caller too, and no timer ends any of them.
\* Nobody has to submit, configure or restart anything.
Fairness ==
    /\ WF_vars(Tick) /\ WF_vars(Wake) /\ WF_vars(Dispatch) /\ WF_vars(Exhausted) /\ WF_vars(Start)
    /\ \A a \in Attempt : WF_vars(Work(a))
    /\ \A r \in Resource : WF_vars(Plan(r)) /\ WF_vars(~Held(r) /\ Checked(r))

SweepSpec == Init /\ [][Next]_vars /\ Fairness

-----------------------------------------------------------------------------
(* Properties                                                               *)

\* However slow the checks are planned, and whatever attempts die or repeat,
\* the sweep adds no check once Batch of them are outstanding; only an attempt
\* that goes on after its timeout can add more (docs/work-deployment.md: "at
\* most 20 checks outstanding").
BatchHeld ==
    Cardinality({r \in Resource \ late : busy[r] \in Waiting \cup {"planning"}}) <= Batch

\* A resource that cannot be placed, or is always busy, causes one refused audit
\* event per interval (docs/audit.md), except where an attempt stopped between
\* the event and the stamp, or went on after its timeout.
RefusedOncePerInterval ==
    [][\A a \in Attempt :
          Running(a, "accept") /\ attempt'[a].pc = "stamp" =>
              \/ a = "overtaken"
              \/ refusal[Head(attempt[a].candidates)[1]] # "once"]_vars

\* While the sweep runs, a ready resource is checked in its turn, unless users'
\* operations on it hold it, for ever or each time its turn comes: one that stays
\* busy is never checked, and it does not keep the others from their turns.  Nor
\* do others that are due, refusals, lost attempts or plans that never started.
EveryResourceChecked ==
    \A r \in Resource :
        (row[r].ready /\ age[r] = Due)
            ~> (~row[r].ready \/ age[r] # Due \/ workflow.at = "off" \/ []<>Held(r))
=============================================================================
