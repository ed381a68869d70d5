---------------------------- MODULE Deployments ----------------------------
(***************************************************************************)
(* The deployments API that preceded the operation ledger (app/legacy.py), *)
(* its record store, its two Temporal workflows with their activities, the *)
(* recovery sweep and the Terraform runner below them.                     *)
(*                                                                         *)
(* Nothing fences these actors against each other: every write of a record *)
(* is unconditional, each run gets a fresh workflow, a state lock that is  *)
(* found held is released by force, and an activity that has outlived its  *)
(* timeout still writes what it has to say.  A record is `abandoned` here  *)
(* once somebody ended it while a run of it was still open, and            *)
(* `mislabelled` once a disk may hold a plan under an older plan's stamp:  *)
(* the invariants say what holds of every other record.                    *)
(*                                                                         *)
(* One business unit and environment, whose budget is Limit.  What a       *)
(* deployment should be (version, inputs, size, injected values) is a Spec.*)
(***************************************************************************)
EXTENDS Naturals, FiniteSets, FiniteSetsExt, Functions

CONSTANTS
    Deployment,
    Spec,      \* what a deployment may be asked to be
    Cost,      \* the estimated monthly cost of each Spec
    Limit,     \* budget_monthly of the environment
    Worker,    \* worker replicas, each with its own disk
    Request,   \* requests that the API serves at the same time
    Server,    \* the API process that serves each of them
    MaxJobs,   \* bound: workflows open at once
    MaxRequests, \* bound: requests made
    MaxFaults, \* bound: stopped processes, lost answers and timeouts
    None

ASSUME SpecAssumption == /\ Spec # {}
                         /\ Cost \in [Spec -> Nat]
                         /\ Limit \in Nat
                         /\ None \notin Spec \cup Deployment \cup Worker
ASSUME DeploymentAssumption == IsFiniteSet(Deployment)
ASSUME BoundAssumption == MaxJobs \in Nat /\ MaxFaults \in Nat /\ MaxRequests \in Nat

Job == 1..MaxJobs
Stopped == 0  \* stands for a run whose worker was stopped

VARIABLES
    record,     \* each record: its state and spec
    agreed,     \* history: the spec each record was last accepted with
    request,    \* what each request is at: it has read, stored, or is dispatching
    job,        \* the workflows: deployment, step, activity, spec it read, worker
    saved,      \* each worker's disk for each deployment: the plan and its stamp
    lock,       \* each Terraform state lock: None, the run holding it, or Stopped
    infra,      \* what exists: a Spec, None, or "partial"
    listed,     \* records the sweep has read as stale and not yet written
    abandoned,  \* records ended by someone while a run of them was open
    mislabelled, \* deployments whose plan was left under another plan's stamp
    faults,     \* faults met so far
    requests    \* requests made so far

vars == <<record, agreed, request, job, saved, lock, infra, listed, abandoned, mislabelled,
          faults, requests>>

-----------------------------------------------------------------------------
IN_FLIGHT == {"accepted", "planning", "applying", "destroying"}

\* A failed deployment still counts: it may have created resources.
committed ==
    SumFunctionOnSet([d \in Deployment |-> Cost[record[d].spec]],
                     {d \in Deployment : record[d].state \notin {"none", "destroyed"}})

\* Faulty variant: only what has succeeded counts.
fits_deployed(d, spec) ==
    MapThenSumSet(LAMBDA e : Cost[record[e].spec],
                  {e \in Deployment \ {d} : record[e].state = "succeeded"}) + Cost[spec] <= Limit

fits(d, spec) ==
    LET replacing == IF record[d].state = "none" THEN 0 ELSE Cost[record[d].spec]
    IN committed + Cost[spec] <= Limit + replacing

\* db.update: the state is overwritten, whatever it was.
Written(d, state) == [record EXCEPT ![d].state = state]

Fault == faults < MaxFaults /\ faults' = faults + 1

NoJob == [home |-> None, step |-> "closed", activity |-> "none", doing |-> "none",
          spec |-> None, on |-> None]

\* The run as it goes on; one whose workflow and activity are over is gone.
Goes(j, step, activity) ==
    job' = [job EXCEPT ![j] =
        IF activity # "none" THEN [@ EXCEPT !.step = step, !.activity = activity]
        ELSE IF step = "closed" THEN NoJob
        ELSE [NoJob EXCEPT !.home = job[j].home, !.step = step]]

AtWork(j) == job[j].activity \in
    {"loaded", "planning", "planned", "ready", "running", "applied"}
Open(j, d) == job[j].home = d

\* The record is in flight and its workflow is yet to be started.
Dispatching(q, d) ==
    request[q].home = d /\ request[q].kind \in {"created", "start deploy", "start destroy"}

\* Run j, or nobody's run (j = 0), ends the record of d.
Abandons(d, j) ==
    IF (\E k \in Job \ {j} : Open(k, d)) \/ (\E q \in Request : Dispatching(q, d))
    THEN abandoned \cup {d} ELSE abandoned

-----------------------------------------------------------------------------
(* The API.  A request reads (its record, the budget), writes the record and *)
(* its audit event, each in a transaction of its own, with no await between: *)
(* workers and the sweep interleave, other requests of the same process do   *)
(* not.  Then it awaits the dispatch, and they do.                           *)

Idle == [kind |-> "idle", home |-> None, spec |-> None]

\* What a request is at before it awaits: what it has read, or what it has
\* stored, for what.
Asked == {"create", "created", "retry", "respecced", "update", "respec", "updated", "destroy"}

Ask(q, kind, d, spec) ==
    /\ request[q] = Idle
    /\ \A p \in Request : Server[p] = Server[q] => request[p].kind \notin Asked
    /\ requests < MaxRequests
    /\ requests' = requests + 1
    /\ request' = [request EXCEPT ![q] = [kind |-> kind, home |-> d, spec |-> spec]]
    /\ UNCHANGED <<record, agreed, job, saved, lock, infra, listed, abandoned, mislabelled, faults>>

create_deployment(q, d) ==
    /\ record[d].state = "none"
    /\ \A p \in Request : request[p].home # d
    /\ \E spec \in Spec : fits(d, spec) /\ Ask(q, "create", d, spec)

\* Faulty variant: any deployment can be retried.
retry_any(q, d) ==
    /\ record[d].state # "none"
    /\ \E spec \in Spec : fits(d, spec) /\ Ask(q, "retry", d, spec)

\* The mapping and the tag may have moved: the spec is placed again.
retry_deployment(q, d) ==
    /\ record[d].state = "failed"
    /\ \E spec \in Spec : fits(d, spec) /\ Ask(q, "retry", d, spec)

\* The first of two validations, which stores nothing.
update_deployment(q, d) ==
    /\ record[d].state \in {"succeeded", "failed"}
    /\ \E spec \in Spec : fits(d, spec)
    /\ Ask(q, "update", d, None)

destroy_deployment(q, d) ==
    /\ record[d].state \in {"succeeded", "failed"}
    /\ Ask(q, "destroy", d, record[d].spec)

Answered(q) == request' = [request EXCEPT ![q] = Idle]
Reaches(q, kind, spec) ==
    request' = [request EXCEPT ![q] = [kind |-> kind, home |-> request[q].home, spec |-> spec]]

\* db.create.
Create(q) ==
    LET r == request[q]
    IN /\ r.kind = "create"
       /\ record' = [record EXCEPT ![r.home] = [state |-> "accepted", spec |-> r.spec]]
       /\ agreed' = [agreed EXCEPT ![r.home] = r.spec]
       /\ Reaches(q, "created", r.spec)
       /\ UNCHANGED <<job, saved, lock, infra, listed, abandoned, mislabelled, faults, requests>>

\* An update's event is stored, and it is validated again before its spec is.
Revalidate(q) ==
    /\ request[q].kind = "update"
    /\ \E spec \in Spec : fits(request[q].home, spec) /\ Reaches(q, "respec", spec)
    /\ UNCHANGED <<record, agreed, job, saved, lock, infra, listed, abandoned, mislabelled, faults,
                   requests>>

\* db.respec: the record keeps its state.
Respec(q) ==
    LET r == request[q]
    IN /\ r.kind \in {"retry", "respec"}
       /\ record' = [record EXCEPT ![r.home].spec = r.spec]
       /\ Reaches(q, IF r.kind = "retry" THEN "respecced" ELSE "updated", r.spec)
       /\ UNCHANGED <<agreed, job, saved, lock, infra, listed, abandoned, mislabelled, faults,
                      requests>>

\* The event of a new record is stored.
Audited(q) ==
    /\ request[q].kind = "created"
    /\ Reaches(q, "start deploy", None)
    /\ UNCHANGED <<record, agreed, job, saved, lock, infra, listed, abandoned, mislabelled, faults,
                   requests>>

\* The event is stored (an update's is already) and the record put in flight.
Accept(q) ==
    LET r == request[q]  destroy == r.kind = "destroy"
    IN /\ r.kind \in {"respecced", "updated", "destroy"}
       /\ record' = Written(r.home, IF destroy THEN "destroying" ELSE "accepted")
       /\ agreed' = [agreed EXCEPT ![r.home] = r.spec]
       /\ Reaches(q, IF destroy THEN "start destroy" ELSE "start deploy", None)
       /\ UNCHANGED <<job, saved, lock, infra, listed, abandoned, mislabelled, faults, requests>>

\* No audit, no action: a new record is failed, and an old one keeps its state,
\* though a retry has stored its spec.  An update may also be refused by its
\* second validation.
AuditUnavailable(q) ==
    LET r == request[q]
    IN /\ r.kind \in {"created", "respecced", "update", "destroy"}
       /\ record' = IF r.kind = "created" THEN Written(r.home, "failed") ELSE record
       /\ Answered(q)
       /\ UNCHANGED <<agreed, job, saved, lock, infra, listed, abandoned, mislabelled, faults,
                      requests>>

\* start_workflow, under an ID no other run has.
Start(q) ==
    \E j \in Job :
        /\ job[j] = NoJob
        /\ \A k \in 1..(j - 1) : job[k] # NoJob
        /\ job' = [job EXCEPT ![j] = [NoJob EXCEPT !.home = request[q].home,
                       !.step = IF request[q].kind = "start deploy" THEN "plan" ELSE "destroy"]]

Starting(q) == request[q].kind \in {"start deploy", "start destroy"}

Dispatch(q) ==
    /\ Starting(q)
    /\ Start(q)
    /\ Answered(q)
    /\ UNCHANGED <<record, agreed, saved, lock, infra, listed, abandoned, mislabelled, faults,
                   requests>>

\* The dispatch raised: the record is failed, though the workflow may run.
DispatchFails(q) ==
    LET d == request[q].home
    IN /\ Starting(q)
       /\ Fault
       /\ Answered(q)
       /\ record' = Written(d, "failed")
       /\ \/ /\ UNCHANGED job
             /\ abandoned' = IF \/ \E j \in Job : Open(j, d)
                                \/ \E p \in Request \ {q} : Dispatching(p, d)
                             THEN abandoned \cup {d} ELSE abandoned
          \/ Start(q) /\ abandoned' = abandoned \cup {d}
       /\ UNCHANGED <<agreed, saved, lock, infra, listed, mislabelled, requests>>

\* The store raises and the request is lost, or the API process stops, and
\* every request it serves.
ApiStops(q) ==
    /\ request[q] # Idle
    /\ Fault
    /\ \/ Answered(q)
       \/ request' = [p \in Request |-> IF Server[p] = Server[q] THEN Idle ELSE request[p]]
    /\ UNCHANGED <<record, agreed, job, saved, lock, infra, listed, abandoned, mislabelled,
                   requests>>

-----------------------------------------------------------------------------
(* The activities, each attempted once: load the record, write the state it *)
(* is in, run Terraform while beating on the record, write the outcome.  An *)
(* activity that has timed out goes on all the same.                        *)

Doing == [plan |-> "planning", apply |-> "applying", destroy |-> "destroying"]

Load(j, w) ==
    LET d == job[j].home  step == job[j].step
    IN /\ step \in DOMAIN Doing
       /\ job[j].activity = "none"
       /\ record' = Written(d, Doing[step])
       /\ job' = [job EXCEPT ![j].activity = "loaded", ![j].doing = step,
                             ![j].spec = record[d].spec, ![j].on = w]
       /\ UNCHANGED <<agreed, request, saved, lock, infra, listed, abandoned, mislabelled, faults,
                      requests>>

\* A Terraform command takes the state lock; one that is held is taken over.
Locks(j) == lock' = [lock EXCEPT ![job[j].home] = j]
Unlocks(j) == lock' = IF lock[job[j].home] = j THEN [lock EXCEPT ![job[j].home] = None] ELSE lock

NoPlan == [plan |-> None, stamp |-> None]
Disk(j) == saved[job[j].on][job[j].home]
Keeps(j, disk) == saved' = [saved EXCEPT ![job[j].on][job[j].home] = disk]

\* Faulty variant: whatever plan lies on the disk is taken for this request's.
any_saved(j) == Disk(j).plan # None

\* The stamp beside the plan says it was made for exactly this request.
is_saved(j) == Disk(j).plan # None /\ Disk(j).stamp = job[j].spec

\* prepare: a workspace that holds another source is emptied.
Prepares(j) == \/ UNCHANGED saved
               \/ Disk(j).stamp # job[j].spec /\ Keeps(j, NoPlan)

\* `apply` plans again where no such plan is.
Plan(j) ==
    /\ job[j].activity = "loaded"
    /\ job[j].doing = "plan" \/ (job[j].doing = "apply" /\ ~is_saved(j))
    /\ Prepares(j)
    /\ Locks(j)
    /\ job' = [job EXCEPT ![j].activity = "planning"]
    /\ UNCHANGED <<record, agreed, request, infra, listed, abandoned, mislabelled, faults,
                   requests>>

\* Terraform has written the plan; an older plan's stamp is beside it ...
Planned(j) ==
    /\ job[j].activity = "planning"
    /\ Unlocks(j)
    /\ Keeps(j, [Disk(j) EXCEPT !.plan = job[j].spec])
    /\ job' = [job EXCEPT ![j].activity = "planned"]
    /\ UNCHANGED <<record, agreed, request, infra, listed, abandoned, mislabelled, faults,
                   requests>>

\* ... until its own is written.
Stamp(j) ==
    /\ job[j].activity = "planned"
    /\ Keeps(j, [Disk(j) EXCEPT !.stamp = job[j].spec])
    /\ job' = [job EXCEPT ![j].activity = IF job[j].doing = "plan" THEN "done" ELSE "ready"]
    /\ UNCHANGED <<record, agreed, request, lock, infra, listed, abandoned, mislabelled, faults,
                   requests>>

\* What is applied is the plan then on the disk.
Apply(j) ==
    /\ job[j].doing = "apply"
    /\ job[j].activity = "ready" \/ (job[j].activity = "loaded" /\ is_saved(j))
    /\ Disk(j).plan # None
    /\ Locks(j)
    /\ job' = [job EXCEPT ![j].activity = "running", ![j].spec = Disk(j).plan]
    /\ UNCHANGED <<record, agreed, request, saved, infra, listed, abandoned, mislabelled, faults,
                   requests>>

Destroy(j) ==
    /\ job[j].doing = "destroy"
    /\ job[j].activity = "loaded"
    /\ Prepares(j)
    /\ Locks(j)
    /\ job' = [job EXCEPT ![j].activity = "running"]
    /\ UNCHANGED <<record, agreed, request, infra, listed, abandoned, mislabelled, faults,
                   requests>>

\* Terraform has changed what exists ...
Applied(j) ==
    /\ job[j].activity = "running"
    /\ Unlocks(j)
    /\ infra' = [infra EXCEPT ![job[j].home] =
                    IF job[j].doing = "destroy" THEN None ELSE job[j].spec]
    /\ job' = [job EXCEPT ![j].activity = "applied"]
    /\ UNCHANGED <<record, agreed, request, saved, listed, abandoned, mislabelled, faults,
                   requests>>

\* ... the plan, which is applied once, is removed, and the outcome written.
Report(j) ==
    LET d == job[j].home  destroyed == job[j].doing = "destroy"
    IN /\ job[j].activity = "applied"
       /\ IF destroyed THEN UNCHANGED saved ELSE Keeps(j, NoPlan)
       /\ record' = Written(d, IF destroyed THEN "destroyed" ELSE "succeeded")
       /\ job' = [job EXCEPT ![j].activity = "done"]
       /\ abandoned' = Abandons(d, j)
       /\ UNCHANGED <<agreed, request, lock, infra, listed, mislabelled, faults, requests>>

\* What an activity that stops here leaves of the plan it applied, of what
\* exists, and under which stamp it leaves the plan it made.
Leaves(j) ==
    \/ UNCHANGED saved
    \/ /\ job[j].activity = "applied" /\ job[j].doing = "apply"
       /\ \E disk \in {NoPlan, [Disk(j) EXCEPT !.plan = None]} : Keeps(j, disk)

Touched(j) == infra' \in IF job[j].activity = "running"
                         THEN {infra, [infra EXCEPT ![job[j].home] = "partial"]} ELSE {infra}

Mislabels(j) ==
    mislabelled' = IF job[j].activity = "planned" /\ Disk(j).stamp \notin {None, job[j].spec}
                   THEN mislabelled \cup {job[j].home} ELSE mislabelled

\* Terraform fails: the workflow, if it still waits, marks the record failed.
Fail(j) ==
    /\ AtWork(j)
    /\ Unlocks(j)
    /\ Touched(j) /\ Leaves(j) /\ Mislabels(j)
    /\ Goes(j, IF job[j].step = "closed" THEN "closed" ELSE "mark", "none")
    /\ UNCHANGED <<record, agreed, request, listed, abandoned, faults, requests>>

\* The worker stops: its Terraform with it, the lock held, nothing reported.
WorkerStops(j) ==
    /\ AtWork(j) \/ job[j].activity = "done"
    /\ Touched(j) /\ Leaves(j) /\ Mislabels(j)
    /\ Fault
    /\ Goes(j, job[j].step, IF job[j].step \in DOMAIN Doing THEN "lost" ELSE "none")
    /\ lock' = IF lock[job[j].home] = j THEN [lock EXCEPT ![job[j].home] = Stopped] ELSE lock
    /\ abandoned' = IF job[j].activity = "done" THEN abandoned \cup {job[j].home} ELSE abandoned
    /\ UNCHANGED <<record, agreed, request, listed, requests>>

-----------------------------------------------------------------------------
(* The workflows.                                                           *)

Next_step == [plan |-> "apply", apply |-> "closed", destroy |-> "closed"]

Ack(j) ==
    /\ job[j].activity = "done"
    /\ Goes(j, IF job[j].step \in DOMAIN Next_step THEN Next_step[job[j].step] ELSE job[j].step,
            "none")
    /\ UNCHANGED <<record, agreed, request, saved, lock, infra, listed, abandoned, mislabelled,
                   faults,
                   requests>>

\* start_to_close: Terraform, if it still runs, is not stopped.
Timeout(j) ==
    /\ job[j].step \in DOMAIN Doing
    /\ AtWork(j) \/ job[j].activity = "lost"
    /\ Goes(j, "mark", IF AtWork(j) THEN job[j].activity ELSE "none")
    /\ IF AtWork(j) THEN Fault ELSE UNCHANGED faults
    /\ abandoned' = IF AtWork(j) THEN abandoned \cup {job[j].home} ELSE abandoned
    /\ UNCHANGED <<record, agreed, request, saved, lock, infra, listed, mislabelled, requests>>

\* Tried until it is acknowledged.
mark_failed(j) ==
    /\ job[j].step = "mark"
    /\ record' = Written(job[j].home, "failed")
    /\ \/ Goes(j, "closed", job[j].activity) /\ UNCHANGED faults
       \/ UNCHANGED job /\ Fault
    /\ abandoned' = Abandons(job[j].home, j)
    /\ UNCHANGED <<agreed, request, saved, lock, infra, listed, mislabelled, requests>>

-----------------------------------------------------------------------------
(* The recovery sweep.                                                      *)

\* Faulty variant: a run that no worker has picked up is not in flight.
list_running(d) ==
    /\ record[d].state \in IN_FLIGHT \ {"accepted"}
    /\ \A j \in Job : job[j].home = d => ~AtWork(j)
    /\ d \notin listed
    /\ listed' = listed \cup {d}
    /\ abandoned' = Abandons(d, 0)
    /\ IF abandoned' = abandoned THEN UNCHANGED faults ELSE Fault
    /\ UNCHANGED <<record, agreed, request, job, saved, lock, infra, mislabelled, requests>>

\* No job beats on the record, and nothing has moved it for stale_after.
List(d) ==
    /\ record[d].state \in IN_FLIGHT
    /\ \A j \in Job : job[j].home = d => ~AtWork(j)
    /\ d \notin listed
    /\ listed' = listed \cup {d}
    /\ abandoned' = Abandons(d, 0)
    /\ IF abandoned' = abandoned THEN UNCHANGED faults ELSE Fault
    /\ UNCHANGED <<record, agreed, request, job, saved, lock, infra, mislabelled, requests>>

\* The record is failed as interrupted, whatever it has become since.
sweep(d) ==
    /\ d \in listed
    /\ listed' = listed \ {d}
    /\ record' = Written(d, "failed")
    /\ abandoned' = Abandons(d, 0)
    /\ UNCHANGED <<agreed, request, job, saved, lock, infra, mislabelled, faults, requests>>

-----------------------------------------------------------------------------
Init ==
    LET spec == CHOOSE s \in Spec : TRUE
    IN /\ record = [d \in Deployment |-> [state |-> "none", spec |-> spec]]
       /\ agreed = [d \in Deployment |-> spec]
       /\ request = [q \in Request |-> Idle]
       /\ job = [j \in Job |-> NoJob]
       /\ saved = [w \in Worker |-> [d \in Deployment |-> NoPlan]]
       /\ lock = [d \in Deployment |-> None]
       /\ infra = [d \in Deployment |-> None]
       /\ listed = {}
       /\ abandoned = {}
       /\ mislabelled = {}
       /\ faults = 0
       /\ requests = 0

Ask_any(q) == \E d \in Deployment :
    \/ create_deployment(q, d) \/ retry_deployment(q, d)
    \/ update_deployment(q, d) \/ destroy_deployment(q, d)
Api(q) ==
    \/ Create(q) \/ Revalidate(q) \/ Respec(q) \/ Audited(q) \/ Accept(q) \/ AuditUnavailable(q)
    \/ Dispatch(q) \/ DispatchFails(q) \/ ApiStops(q)
Activity(j) ==
    \/ \E w \in Worker : Load(j, w)
    \/ Plan(j) \/ Planned(j) \/ Stamp(j) \/ Apply(j) \/ Destroy(j)
    \/ Applied(j) \/ Report(j) \/ Fail(j)
Workflow(j) == Ack(j) \/ Timeout(j) \/ mark_failed(j)
Recovery(d) == List(d) \/ sweep(d)

Next ==
    \/ \E q \in Request : Ask_any(q) \/ Api(q)
    \/ \E j \in Job : Activity(j) \/ WorkerStops(j) \/ Workflow(j)
    \/ \E d \in Deployment : Recovery(d)

Fairness ==
    /\ \A q \in Request : WF_vars(Api(q))
    /\ \A j \in Job : WF_vars(Activity(j)) /\ WF_vars(Workflow(j))
    /\ \A d \in Deployment : WF_vars(List(d)) /\ WF_vars(sweep(d))

DeploymentsSpec == Init /\ [][Next]_vars /\ Fairness

-----------------------------------------------------------------------------
\* At most one run of a deployment that was not abandoned is at work on it.
OneRunAtWork ==
    \A d \in Deployment \ abandoned :
        Cardinality({j \in Job : job[j].home = d /\ AtWork(j)}) <= 1

\* The outcome a record tells is true: what exists once it succeeded is what
\* its last accepted request asked for, even where a later request has stored
\* its spec and was never accepted, and nothing is left of what is destroyed.
RecordIsTrue ==
    \A d \in Deployment \ (abandoned \cup mislabelled) :
        /\ record[d].state = "succeeded" => infra[d] = agreed[d]
        /\ record[d].state \in {"none", "destroyed"} => infra[d] = None

\* What is committed stays within the budget while no record was abandoned.
BudgetKept == abandoned = {} => committed <= Limit

\* A deployment that is in flight leaves that state: none is stuck for ever.
InFlightLeaves ==
    \A d \in Deployment : record[d].state \in IN_FLIGHT ~> record[d].state \notin IN_FLIGHT

\* _run: a held lock can only belong to a run whose worker was stopped.
HeldLockIsDead ==
    [][\A d \in Deployment :
        lock[d] \in Job => lock'[d] \in {lock[d], None, Stopped}]_vars
=============================================================================
