-------------------------- MODULE OperationLedger --------------------------
(***************************************************************************)
(* The transactional operation ledger (src/app/ledger.py): the operations  *)
(* and resources tables of operations.sqlite, and the in-memory copies of  *)
(* their rows that outlive a transaction.                                  *)
(*                                                                         *)
(* Every ledger function runs in one BEGIN IMMEDIATE transaction, so each  *)
(* is one action here.  What is not atomic is kept apart:                  *)
(*   - a request reads the resource row when it is validated and is        *)
(*     accepted later (`drafts`);                                          *)
(*   - a worker activity keeps the operation it claimed, and reports on it *)
(*     later or never (`claims`).                                          *)
(* Who calls what, and when, is left open: PhaseExecution adds Temporal,   *)
(* the workers and the saved plans.                                        *)
(*                                                                         *)
(* An operation is named by the (actor, idempotency key) that created it:  *)
(* the operations table is UNIQUE on that pair, so a replayed request      *)
(* finds its operation and changes nothing.  All resources share one       *)
(* business unit and environment, hence one budget.                        *)
(***************************************************************************)
EXTENDS Integers, FiniteSets, Functions

CONSTANTS
    Resource,      \* resource identities, including those not created yet
    Op,            \* request keys, each naming the operation it creates
    Version,       \* definitions a deploy can ask for
    Cost,          \* Cost[v]: the estimated monthly cost of definition v
    Limit,         \* the monthly budget of the environment
    Intent,        \* the actions callers submit in this instance
    RefSets,       \* the sets of resources an intent's input_refs may name
    MaxInFlight,   \* bound: validated requests not yet accepted
    None

ASSUME CostAssumption == Cost \in [Version -> Nat]
ASSUME LimitAssumption == Limit \in Nat
ASSUME IntentAssumption == Intent \subseteq {"deploy", "destroy", "drift_check"}
ASSUME RefAssumption == RefSets \subseteq SUBSET Resource
ASSUME ResourceAssumption == IsFiniteSet(Resource)
ASSUME NoneAssumption ==
    None \notin Op \cup Resource \cup Version \cup {"deploy", "destroy", "drift_check"}

VARIABLES
    ops,        \* the operations table
    resources,  \* the resources table
    drafts,     \* validated requests waiting for their acceptance transaction
    claims      \* operations held by worker activities, with the claimed state

vars == <<ops, resources, drafts, claims>>

-----------------------------------------------------------------------------
Final == {"succeeded", "failed"}
Unfinished == {"queued", "planning", "planned", "apply_queued", "applying", "uncertain"}
OpState == {"none"} \cup Unfinished \cup Final
RowState == {"absent", "pending", "ready", "destroyed"}
Verdict == {None, "in_sync", "drifted", "unknown"}
Outcome == {None, "succeeded", "failed"}

\* The columns and body fields of an operations row.  `digest` says whether a
\* plan digest was recorded, `aged` whether the plan outlived
\* FORGEAPI_PLAN_MAX_AGE_HOURS, `recon` is the recorded reconciliation.
OpRow == [state : OpState, action : {None, "deploy", "destroy", "drift_check"},
          resource : Resource \cup {None}, previous : Op \cup {None},
          version : Version \cup {None}, refs : SUBSET Resource, cost : Nat,
          previousCost : Nat, digest : BOOLEAN, aged : BOOLEAN, recon : Outcome]

ResourceRow == [state : RowState, operation : Op \cup {None}, cost : Nat,
                version : Version \cup {None}, refs : SUBSET Resource,
                outputs : BOOLEAN, recon : Outcome, drift : Verdict]

Draft == [key : Op, action : {"deploy", "destroy", "drift_check"},
          resource : Resource \cup {None}, previous : Op \cup {None},
          version : Version \cup {None}, refs : SUBSET Resource, cost : Nat,
          recon : Outcome]

NoOp == [state |-> "none", action |-> None, resource |-> None, previous |-> None,
         version |-> None, refs |-> {}, cost |-> 0, previousCost |-> 0, digest |-> FALSE,
         aged |-> FALSE, recon |-> None]

NoResource == [state |-> "absent", operation |-> None, cost |-> 0, version |-> None,
               refs |-> {}, outputs |-> FALSE, recon |-> None, drift |-> None]

TypeOK ==
    /\ ops \in [Op -> OpRow]
    /\ resources \in [Resource -> ResourceRow]
    /\ drafts \subseteq Draft
    /\ claims \subseteq Op \X {"planning", "applying"}

Init ==
    /\ ops = [o \in Op |-> NoOp]
    /\ resources = [r \in Resource |-> NoResource]
    /\ drafts = {}
    /\ claims = {}

-----------------------------------------------------------------------------
(* Helpers shared by the transactions.  Those that are evaluated after an   *)
(* expiry in the same transaction take the tables as parameters.            *)

Larger(a, b) == IF a >= b THEN a ELSE b

\* The unfinished operation of a resource, if any (the resource_busy index).
Active(r) == {o \in Op : ops[o].resource = r /\ ops[o].state \in Unfinished}

\* Estimated cost reserved by the resources in S that are not destroyed.
Reserved(S) ==
    SumFunctionOnSet([r \in Resource |-> resources[r].cost],
                     {r \in S : resources[r].state # "destroyed"})

Expired(op) == op.state = "planned" /\ op.aged

\* Faulty variant: a failed deploy keeps what it reserved.
RestoredNever(row, op) == row

\* A deploy that ends `failed` gives its resource back the previous amount.
Restored(row, op) ==
    IF op.action = "deploy" THEN [row EXCEPT !.cost = op.previousCost] ELSE row

\* Faulty variant: a discarded plan gets a state no other transaction knows.
ReleasePlanAsDiscarded(o) ==
    /\ ops' = [ops EXCEPT ![o].state = "discarded"]
    /\ resources' = [resources EXCEPT ![ops[o].resource] = Restored(@, ops[o])]

\* A planned operation that will not execute fails and releases its resource.
ReleasePlan(o) ==
    /\ ops' = [ops EXCEPT ![o].state = "failed"]
    /\ resources' = [resources EXCEPT ![ops[o].resource] = Restored(@, ops[o])]

\* A resource can be referenced while it is ready and the operation its row
\* names is not an unfinished destroy.
Referenceable(table, rows, s) ==
    /\ rows[s].state = "ready"
    /\ LET latest == table[rows[s].operation]
       IN ~(latest.action = "destroy" /\ latest.state \notin Final)

\* At validation the source must also have outputs to copy.
Copyable(s) == Referenceable(ops, resources, s) /\ resources[s].outputs

Referenced(r) == \E q \in Resource \ {r} : resources[q].state = "ready" /\ r \in resources[q].refs

-----------------------------------------------------------------------------
(* Validation reads the resource row and reserves nothing (policy.validate, *)
(* drift.resolved).  The draft remembers which operation the row named.     *)

Validate(d) ==
    /\ ops[d.key].state = "none"
    /\ Cardinality(drafts) < MaxInFlight
    /\ drafts' = drafts \cup {d}
    /\ UNCHANGED <<ops, resources, claims>>

ValidateCreate(k, v, refs) ==
    /\ "deploy" \in Intent
    /\ \A s \in refs : Copyable(s)
    /\ Validate([key |-> k, action |-> "deploy", resource |-> None, previous |-> None,
                 version |-> v, refs |-> refs, cost |-> Cost[v], recon |-> None])

ValidateUpdate(k, r, v, refs) ==
    /\ "deploy" \in Intent
    /\ resources[r].state \in {"pending", "ready"}
    /\ \A s \in refs : Copyable(s)
    /\ Validate([key |-> k, action |-> "deploy", resource |-> r,
                 previous |-> resources[r].operation,
                 version |-> v, refs |-> refs, cost |-> Cost[v], recon |-> None])

\* A destroy resolves to a copy of the whole resource row.
ValidateDestroy(k, r) ==
    /\ "destroy" \in Intent
    /\ resources[r].state \in {"pending", "ready"}
    /\ ~Referenced(r)
    /\ Validate([key |-> k, action |-> "destroy", resource |-> r,
                 previous |-> resources[r].operation, version |-> resources[r].version,
                 refs |-> resources[r].refs, cost |-> resources[r].cost,
                 recon |-> resources[r].recon])

\* A drift check copies neither references nor cost from the row.
ValidateDriftCheck(k, r) ==
    /\ "drift_check" \in Intent
    /\ resources[r].state # "absent"
    /\ Validate([key |-> k, action |-> "drift_check", resource |-> r,
                 previous |-> resources[r].operation, version |-> resources[r].version,
                 refs |-> {}, cost |-> 0, recon |-> None])

-----------------------------------------------------------------------------
(* Acceptance: one transaction, after the expiry of a lapsed plan if one    *)
(* held the resource.  `table` and `rows` are the tables at that point.     *)

NewOp(d, r, previousCost) ==
    [state |-> "queued", action |-> d.action, resource |-> r, previous |-> d.previous,
     version |-> d.version, refs |-> d.refs, cost |-> d.cost,
     previousCost |-> IF d.action = "deploy" THEN previousCost ELSE 0,
     digest |-> FALSE, aged |-> FALSE, recon |-> d.recon]

\* Faulty variant: a drift check becomes the latest operation of its resource.
AcceptedRowOfAny(d, row) ==
    [row EXCEPT !.state = IF @ = "absent" THEN "pending" ELSE @, !.operation = d.key,
                !.version = IF row.state = "absent" THEN d.version ELSE @,
                !.cost = IF d.action = "deploy" THEN Larger(@, d.cost) ELSE @]

\* The known definition stays until success; the new cost is reserved now.
\* A drift check leaves the row as it is.
AcceptedRow(d, row) ==
    LET known == IF row.state # "absent" THEN row
                 ELSE [row EXCEPT !.state = "pending", !.version = d.version, !.refs = d.refs]
        cost == IF d.action = "deploy" THEN Larger(row.cost, d.cost) ELSE row.cost
    IN IF d.action = "drift_check" THEN row
       ELSE [known EXCEPT !.operation = d.key, !.cost = cost]

\* Faulty variant: reservations of resources still being created do not count.
WithinBudgetOfReady(d, r, row) ==
    Reserved({s \in Resource \ {r} : resources[s].state = "ready"})
        + Larger(row.cost, d.cost) <= Limit

WithinBudget(d, r, row) ==
    Reserved(Resource \ {r}) + Larger(row.cost, d.cost) <= Limit

\* Faulty variant: the row is not compared with the one validation read.
UnchangedIgnored(d, row) == TRUE

\* The resource row must still name the operation the request was resolved
\* against ("resource changed during validation; submit again").
Unchanged(d, row) == row.operation = d.previous

AcceptInto(table, rows, d, r) ==
    /\ ops[d.key].state = "none"
    /\ Unchanged(d, rows[r])
    /\ d.action = "drift_check" => rows[r].state = "ready"
    /\ d.action = "deploy" => WithinBudget(d, r, rows[r])
    /\ d.action = "destroy" => ~Referenced(r)
    /\ \A s \in d.refs : Referenceable(table, rows, s)
    /\ ops' = [table EXCEPT ![d.key] = NewOp(d, r, rows[r].cost)]
    /\ resources' = [rows EXCEPT ![r] = AcceptedRow(d, @)]
    /\ drafts' = drafts \ {d}
    /\ UNCHANGED <<claims>>

\* The resource a draft is about: the one it names, or a fresh identity.
Target(d) == IF d.resource # None THEN {d.resource}
             ELSE {r \in Resource : resources[r].state = "absent"}

\* Faulty variant: no busy check, and no unique index to back it.
AcceptWhileBusy(d) == \E r \in Target(d) : AcceptInto(ops, resources, d, r)

Accept(d) ==
    \E r \in Target(d) : Active(r) = {} /\ AcceptInto(ops, resources, d, r)

\* The resource is held only by a plan that expired: it fails first.
AcceptOverExpired(d) ==
    \E r \in Target(d) : \E b \in Active(r) :
        /\ Expired(ops[b])
        /\ AcceptInto([ops EXCEPT ![b].state = "failed"],
                      [resources EXCEPT ![r] = Restored(@, ops[b])], d, r)

\* The request is refused, or replays an operation already accepted, or its
\* API process dies before the transaction commits.
DropRequest(d) ==
    /\ drafts' = drafts \ {d}
    /\ UNCHANGED <<ops, resources, claims>>

-----------------------------------------------------------------------------
(* Decisions on a reviewed plan.                                            *)

\* The caller presents the recorded digest.
Execute(o) ==
    /\ ops[o].state = "planned" /\ ops[o].digest
    /\ ~Expired(ops[o])
    /\ ops[o].action # "destroy" =>
           \A s \in ops[o].refs : Referenceable(ops, resources, s)
    /\ ops' = [ops EXCEPT ![o].state = "apply_queued"]
    /\ UNCHANGED <<resources, drafts, claims>>

\* Executing an expired plan fails it instead, in a committed transaction.
ExecuteExpired(o) ==
    /\ Expired(ops[o]) /\ ops[o].digest
    /\ ReleasePlan(o)
    /\ UNCHANGED <<drafts, claims>>

Discard(o) ==
    /\ ops[o].state = "planned"
    /\ ReleasePlan(o)
    /\ UNCHANGED <<drafts, claims>>

\* A planned operation passes the maximum plan age.
PlanAges(o) ==
    /\ ops[o].state = "planned" /\ ~ops[o].aged
    /\ ops' = [ops EXCEPT ![o].aged = TRUE]
    /\ UNCHANGED <<resources, drafts, claims>>

-----------------------------------------------------------------------------
(* Worker activities: claim a phase, and finish it if the stored state is    *)
(* still the one the activity claimed.                                      *)

ClaimPlan(o) ==
    /\ ops[o].state = "queued"
    /\ ops' = [ops EXCEPT ![o].state = "planning"]
    /\ claims' = claims \cup {<<o, "planning">>}
    /\ UNCHANGED <<resources, drafts>>

ClaimApply(o) ==
    /\ ops[o].state = "apply_queued"
    /\ ops' = [ops EXCEPT ![o].state = "applying"]
    /\ claims' = claims \cup {<<o, "applying">>}
    /\ UNCHANGED <<resources, drafts>>

\* Faulty variant: a result counts however late it is.
HoldsForever(o, s) == <<o, s>> \in claims

\* The stored state is the one this activity claimed: its result counts.
Holds(o, s) == <<o, s>> \in claims /\ ops[o].state = s

Finish(o, s, new) ==
    /\ Holds(o, s)
    /\ ops' = [ops EXCEPT ![o].state = new]
    /\ claims' = claims \ {<<o, s>>}
    /\ UNCHANGED <<drafts>>

\* The resource row after a successful deploy or destroy: the operation's own
\* definition, outputs and reconciliation replace it.
Succeeded(row, o, drift) ==
    LET op == ops[o]
    IN [row EXCEPT !.operation = o, !.version = op.version, !.refs = op.refs,
                   !.recon = op.recon, !.cost = op.cost, !.outputs = TRUE,
                   !.state = IF op.action = "destroy" THEN "destroyed" ELSE "ready",
                   !.drift = IF op.action = "destroy" THEN None ELSE drift]

FinishPlanned(o) ==
    /\ Holds(o, "planning")
    /\ ops[o].action # "drift_check"
    /\ ops' = [ops EXCEPT ![o].state = "planned", ![o].digest = TRUE]
    /\ claims' = claims \ {<<o, "planning">>}
    /\ UNCHANGED <<resources, drafts>>

\* Planning failed, or an apply that Terraform refused before any change.
FinishFailed(o, s) ==
    /\ ops[o].action # "drift_check"
    /\ Finish(o, s, "failed")
    /\ resources' = [resources EXCEPT ![ops[o].resource] = Restored(@, ops[o])]

FinishSucceeded(o) ==
    /\ Finish(o, "applying", "succeeded")
    /\ resources' = [resources EXCEPT ![ops[o].resource] = Succeeded(@, o, "in_sync")]

FinishUncertain(o) ==
    /\ Finish(o, "applying", "uncertain")
    /\ UNCHANGED resources

\* A finished check writes its verdict and nothing else.
FinishDriftCheck(o, verdict) ==
    /\ ops[o].action = "drift_check"
    /\ Finish(o, "planning", IF verdict = "unknown" THEN "failed" ELSE "succeeded")
    /\ resources' = [resources EXCEPT ![ops[o].resource].drift = verdict]

\* A result that arrives after its timeout was recorded is ignored.
LateResult(o, s) ==
    /\ <<o, s>> \in claims /\ ops[o].state # s
    /\ claims' = claims \ {<<o, s>>}
    /\ UNCHANGED <<ops, resources, drafts>>

\* The worker dies: its activity reports nothing.
WorkerLost(o, s) ==
    /\ <<o, s>> \in claims
    /\ claims' = claims \ {<<o, s>>}
    /\ UNCHANGED <<ops, resources, drafts>>

\* Faulty variant: the state the phase could be in is not compared.
InterruptedAnywhere(o) ==
    /\ ops[o].state \in Unfinished
    /\ ops' = [ops EXCEPT ![o].state = "uncertain"]
    /\ UNCHANGED <<resources, drafts, claims>>

\* Faulty variant: interrupted work is simply failed.
InterruptedFails(o) ==
    /\ ops[o].state \in {"queued", "planning", "apply_queued", "applying"}
    /\ ops' = [ops EXCEPT ![o].state = "failed"]
    /\ resources' = [resources EXCEPT ![ops[o].resource] = Restored(@, ops[o])]
    /\ UNCHANGED <<drafts, claims>>

\* The phase's activity failed or timed out, before or after its claim.  The
\* activity itself may still be running.
Interrupted(o) ==
    /\ ops[o].state \in {"queued", "planning", "apply_queued", "applying"}
    /\ IF ops[o].action = "drift_check"
       THEN /\ ops' = [ops EXCEPT ![o].state = "failed"]
            /\ resources' = [resources EXCEPT ![ops[o].resource].drift = "unknown"]
       ELSE /\ ops' = [ops EXCEPT ![o].state = "uncertain"]
            /\ UNCHANGED resources
    /\ UNCHANGED <<drafts, claims>>

-----------------------------------------------------------------------------
(* An operator resolves an uncertain operation.  An operation that already  *)
(* carries a reconciliation is returned unchanged, or refused.  The outputs *)
(* of an apply reconciled as succeeded were never captured.                 *)

ReconcileSucceeded(o) ==
    /\ ops[o].recon = None
    /\ ops[o].state = "uncertain" /\ ops[o].digest
    /\ ops' = [ops EXCEPT ![o].state = "succeeded", ![o].recon = "succeeded"]
    /\ resources' = [resources EXCEPT ![ops[o].resource] =
                        [Succeeded(@, o, "unknown") EXCEPT !.recon = "succeeded",
                                                           !.outputs = FALSE]]
    /\ UNCHANGED <<drafts, claims>>

ReconcileFailed(o) ==
    /\ ops[o].recon = None
    /\ ops[o].state = "uncertain"
    /\ ops' = [ops EXCEPT ![o].state = "failed", ![o].recon = "failed"]
    /\ resources' = [resources EXCEPT ![ops[o].resource] = Restored(@, ops[o])]
    /\ UNCHANGED <<drafts, claims>>

-----------------------------------------------------------------------------
Request ==
    \/ \E k \in Op, v \in Version, refs \in RefSets : ValidateCreate(k, v, refs)
    \/ \E k \in Op, r \in Resource, v \in Version, refs \in RefSets :
           ValidateUpdate(k, r, v, refs)
    \/ \E k \in Op, r \in Resource : ValidateDestroy(k, r) \/ ValidateDriftCheck(k, r)
    \/ \E d \in drafts : Accept(d) \/ AcceptOverExpired(d) \/ DropRequest(d)

Decide(o) == Execute(o) \/ ExecuteExpired(o) \/ Discard(o) \/ PlanAges(o)

Work(o) ==
    \/ ClaimPlan(o) \/ ClaimApply(o)
    \/ FinishPlanned(o) \/ FinishSucceeded(o) \/ FinishUncertain(o)
    \/ \E s \in {"planning", "applying"} :
           FinishFailed(o, s) \/ LateResult(o, s) \/ WorkerLost(o, s)
    \/ \E verdict \in {"in_sync", "drifted", "unknown"} : FinishDriftCheck(o, verdict)
    \/ Interrupted(o)

Reconcile(o) == ReconcileSucceeded(o) \/ ReconcileFailed(o)

Next ==
    \/ Request
    \/ \E o \in Op : Decide(o) \/ Work(o) \/ Reconcile(o)

Spec == Init /\ [][Next]_vars
-----------------------------------------------------------------------------
(* Properties                                                               *)

\* The unfinished deploys of a resource.
Deploying(r) == {o \in Active(r) : ops[o].action = "deploy"}

\* What an idle resource reserves: the cost of its deployed definition, nothing
\* before the first success.
SettledCost(row) == IF row.state = "ready" THEN Cost[row.version] ELSE 0

\* A resource has at most one unfinished operation, whatever requests raced
\* for it (the resource_busy index and the busy check of _accept).
OneActivePerResource ==
    \A r \in Resource : \A o, p \in Active(r) : o = p

\* A live resource reserves exactly what it should: the cost of what is
\* deployed while no deploy is unfinished, the larger of that and the requested
\* cost while one is, uncertain included; and every way a deploy can fail
\* gives exactly the deployed cost back (_accept, _restore_reservation).
ReservationExact ==
    \A r \in Resource :
        resources[r].state \in {"absent", "pending", "ready"} =>
            /\ Deploying(r) = {} => resources[r].cost = SettledCost(resources[r])
            /\ \A o \in Deploying(r) :
                   /\ ops[o].previousCost = SettledCost(resources[r])
                   /\ resources[r].cost = Larger(ops[o].previousCost, ops[o].cost)

\* The operations accepted on a resource that was already destroyed: their
\* draft was validated while that destroy was still applying.
AcceptedOnDestroyed ==
    {o \in Op : /\ ops[o].previous # None
                /\ ops[ops[o].previous].action = "destroy"
                /\ ops[ops[o].previous].state = "succeeded"}

\* Concurrent acceptances never reserve more than the budget between them
\* (README "SQLite serializes reservation checks"), as long as no operation was
\* accepted on a destroyed resource, whose row is not counted.
BudgetHeld == AcceptedOnDestroyed = {} => Reserved(Resource) <= Limit

\* No two changes of a resource are accepted against the same predecessor: of
\* two requests validated against the same row only one is accepted, the other
\* is told that the resource changed.  (Drift checks may share one.)
LinearHistory ==
    \A o, p \in Op :
        /\ {ops[o].action, ops[p].action} \subseteq {"deploy", "destroy"}
        /\ ops[o].resource = ops[p].resource /\ ops[o].previous = ops[p].previous
        => o = p

\* The last accepted change of a resource: nothing was accepted after it.
Heads(r) ==
    {o \in Op : /\ ops[o].resource = r /\ ops[o].action # "drift_check"
                /\ \A p \in Op : ops[p].previous = o => ops[p].action = "drift_check"}

\* The last change to succeed, of `o` and those accepted before it.
LastSuccess[o \in Op \cup {None}] ==
    IF o = None \/ ops[o].state = "succeeded" THEN o ELSE LastSuccess[ops[o].previous]

\* The resource row shows the last change that succeeded, however many later
\* ones were accepted, failed or are uncertain: no rejected plan, drift check
\* or late activity leaves its own definition there, or an older one.
RowIsLatestSuccess ==
    \A r \in Resource : \A h \in Heads(r) :
        LET row == resources[r]
            o == LastSuccess[h]
        IN IF o = None THEN row.state = "pending"
           ELSE /\ row.state = (IF ops[o].action = "destroy" THEN "destroyed" ELSE "ready")
                /\ row.version = ops[o].version /\ row.refs = ops[o].refs

\* A finished operation never changes again, whatever a surviving worker, a
\* repeated status write or a repeated decision does later.
FinishedForever ==
    [][\A o \in Op : ops[o].state \in Final => ops'[o] = ops[o]]_vars

\* A drift check never becomes what a resource stands for, nor work an operator
\* must resolve: the row keeps naming its latest change, and an interrupted
\* check is failed, not uncertain (interrupted, _record_drift_check).
DriftCheckHarmless ==
    \A o \in Op : ops[o].action = "drift_check" =>
        /\ ops[o].state \in {"queued", "planning", "succeeded", "failed"}
        /\ \A r \in Resource : resources[r].operation # o

\* The ledger implements OperationLifecycle: the documented state diagram, and
\* one unfinished operation per resource.
Holder(r) == IF Active(r) = {} THEN None ELSE CHOOSE o \in Active(r) : TRUE

Lifecycle == INSTANCE OperationLifecycle
    WITH state <- [o \in Op |-> ops[o].state],
         holder <- [r \in Resource |-> Holder(r)]

ImplementsLifecycle == Lifecycle!Spec

-----------------------------------------------------------------------------
(* The inductive invariant.  It speaks of two tables rather than of the      *)
(* variables, because AcceptOverExpired passes through tables no state shows. *)

Changes == {"deploy", "destroy"}
Busy(table, o) == table[o].state \in Unfinished
Live(row) == row.state \in {"absent", "pending", "ready"}

\* One unfinished operation per resource.
Exclusive(table) ==
    \A o, p \in Op :
        Busy(table, o) /\ Busy(table, p) /\ table[o].resource = table[p].resource => o = p

\* An accepted operation has a resource with a row, and the cost of its
\* definition; what it was accepted after had itself been accepted.
WellFormed(table, rows) ==
    \A o \in Op : table[o].state # "none" =>
        /\ table[o].resource \in Resource
        /\ rows[table[o].resource].state # "absent"
        /\ table[o].action \in Changes \cup {"drift_check"}
        /\ table[o].action = "drift_check" =>
               table[o].state \in {"queued", "planning", "succeeded", "failed"}
        /\ table[o].action = "deploy" => table[o].cost = Cost[table[o].version]
        /\ table[o].previous # None => table[table[o].previous].state # "none"

\* A row with no accepted operation is empty; any other names a change.
RowNames(table, rows) ==
    \A r \in Resource :
        /\ rows[r].state = "absent" => rows[r].cost = 0 /\ rows[r].operation = None
        /\ rows[r].operation # None =>
               /\ table[rows[r].operation].state # "none"
               /\ table[rows[r].operation].action \in Changes

\* The row names the unfinished change of its resource, and no change was
\* accepted after the one it names.
RowIsHead(table, rows) ==
    \A o \in Op : table[o].state # "none" /\ table[o].action \in Changes =>
        /\ Busy(table, o) => rows[table[o].resource].operation = o
        /\ table[o].previous # rows[table[o].resource].operation

\* What a live resource reserves, idle and during a deploy.
IdleExact(table, rows) ==
    \A r \in Resource :
        /\ Live(rows[r])
        /\ \A o \in Op : Busy(table, o) /\ table[o].resource = r => table[o].action # "deploy"
        => rows[r].cost = SettledCost(rows[r])

DeployExact(table, rows) ==
    \A o \in Op :
        /\ Busy(table, o) /\ table[o].action = "deploy"
        /\ Live(rows[table[o].resource])
        => /\ table[o].previousCost = SettledCost(rows[table[o].resource])
           /\ rows[table[o].resource].cost = Larger(table[o].previousCost, table[o].cost)

Linear(table) ==
    \A o, p \in Op :
        /\ table[o].action \in Changes /\ table[p].action \in Changes
        /\ table[o].resource = table[p].resource /\ table[o].previous = table[p].previous
        => o = p

Consistent(table, rows) ==
    /\ Exclusive(table) /\ Linear(table)
    /\ WellFormed(table, rows) /\ RowNames(table, rows) /\ RowIsHead(table, rows)
    /\ IdleExact(table, rows) /\ DeployExact(table, rows)

\* A row of the table that was never written is empty, and a draft of a deploy
\* carries the cost of its definition.
Unwritten(table) == \A o \in Op : table[o].state = "none" => table[o] = NoOp
DraftCosts == \A d \in drafts : d.action = "deploy" => d.cost = Cost[d.version]

LedgerInv == TypeOK /\ Consistent(ops, resources) /\ Unwritten(ops) /\ DraftCosts

-----------------------------------------------------------------------------
(* Statements of the repository that the code does not keep                 *)

\* agent-architecture.md: "An `uncertain` operation leaves through
\* POST /operations/{id}/reconcile".  An operation that already carries a
\* reconciliation is returned as it is, so an uncertain one must carry none.
UncertainIsReconcilable ==
    \A o \in Op : ops[o].state = "uncertain" => ops[o].recon = None
=============================================================================
