----------------------------- MODULE AppRollout -----------------------------
(***************************************************************************)
(* One app: several replicas, a router that reads their outputs, failovers *)
(* that make another replica primary, and an ordered teardown.             *)
(*                                                                         *)
(* An app adds no machinery of its own to the ledger.  Its members are     *)
(* ordinary operations, its state is derived from theirs, and two Temporal *)
(* workflows accept what comes next: the router once every replica is      *)
(* deployed, the replicas' destroys once the router is gone.  Callers,     *)
(* workflows, their activities (which may be retried, or outlive their     *)
(* timeout) and the members' own workers interleave, ordered by ledger     *)
(* transactions only.                                                      *)
(*                                                                         *)
(* Members move as OperationLedger lets them: along the edges of           *)
(* OperationLifecycle, one unfinished operation per resource.              *)
(***************************************************************************)
EXTENDS Naturals, FiniteSets

CONSTANTS
    Replica,       \* the replicas; each is a resource
    Router,        \* the router's resource
    First,         \* the replica the first router treats as primary
    None,
    MaxFailovers,  \* bound: failovers of the app
    MaxTeardowns,  \* bound: teardowns of the app
    MaxRequests,   \* bound: failover and destroy requests between validation and acceptance
    MaxChecks,     \* bound: drift checks running at once
    MaxAttempts    \* bound: activity attempts that may still write, late ones included

ASSUME ReplicaAssumption == First \in Replica /\ Router \notin Replica /\ None \notin Replica
ASSUME BoundAssumption == {MaxFailovers, MaxTeardowns, MaxRequests, MaxChecks, MaxAttempts} \subseteq Nat

Member == Replica \cup {Router}

\* Operations are named by the keys that make their acceptance idempotent: the
\* replicas' deploys, the router's deploys (0 is the rollout's, then one per
\* failover) and, per teardown, the destroys.
Deploy(r) == <<"deploy", 0, r>>
RouterDeploy(k) == <<"deploy", k, Router>>
Destroy(t, m) == <<"destroy", t, m>>
Home(o) == o[3]

Op == {Deploy(r) : r \in Replica}
      \cup {RouterDeploy(k) : k \in 0..MaxFailovers}
      \cup {Destroy(t, m) : t \in 1..MaxTeardowns, m \in Member}

VARIABLES
    state,       \* the state of each operation; "none" before it is accepted
    app,         \* the app's row: error, teardowns, and the current teardown's
                 \* replica destroys recorded (linked) and error (stopped)
    target,      \* the replica each failover makes primary
    deployed,    \* the primary of the router that is deployed, or None
    held,        \* members held by a drift check
    requests,    \* failovers and destroys validated against the present app row
    outstanding, \* activity attempts of the workflows that may still write
    workflow,    \* what the rollout and the teardown workflow do next
    dispatched   \* operations whose plan phase was started

memberVars == <<state, deployed, held>>
rowVars == <<app, target>>
vars == <<memberVars, rowVars, requests, outstanding, workflow, dispatched>>

-----------------------------------------------------------------------------
(* The app's state, derived from its members.                               *)

Lifecycle == INSTANCE OperationLifecycle WITH
    Resource <- Member,
    holder <- [m \in Member |-> None]

Finished == {"succeeded", "failed"}
Unfinished == {"queued", "planning", "planned", "apply_queued", "applying", "uncertain"}
ACTIVE == {"apply_queued", "applying", "succeeded"}

Accepted == \E r \in Replica : state[Deploy(r)] # "none"
Failovers == {k \in 1..MaxFailovers : state[RouterDeploy(k)] # "none"}
RouterAccepted == state[RouterDeploy(0)] # "none"

\* The destroys of the current teardown.
Destroys == {o \in Op : o[1] = "destroy" /\ o[2] = app.teardowns /\ state[o] # "none"}
ReplicaDestroys == {o \in Destroys : Home(o) # Router}

\* The operations an app loads (op_ids): those of earlier teardowns are history.
AppOps == {o \in Op : o[1] = "deploy" /\ state[o] # "none"} \cup Destroys
Queued == {o \in AppOps : state[o] = "queued"}

\* A failover that failed is skipped; the rollout's own router never is.
current_router ==
    LET kept == {k \in Failovers : state[RouterDeploy(k)] # "failed"}
    IN IF kept = {} THEN RouterDeploy(0)
       ELSE RouterDeploy(CHOOSE k \in kept : \A j \in kept : j <= k)

\* Faulty variant: the latest failover that was requested.
primary_requested ==
    IF Failovers = {} THEN First
    ELSE target[CHOOSE k \in Failovers : \A j \in Failovers : j <= k]

\* The primary that the k-th router was given.
Primary(k) == IF k = 0 THEN First ELSE target[k]

\* The newest router operation that succeeded decides.
primary_of ==
    LET done == {k \in Failovers : state[RouterDeploy(k)] = "succeeded"}
    IN IF done = {} THEN First
       ELSE target[CHOOSE k \in done : \A j \in done : j <= k]

\* Progress of a set of operations that one approval covers.
GroupState(ops, planning, awaiting, applying) ==
    IF \E o \in ops : state[o] \in ACTIVE THEN applying
    ELSE IF \A o \in ops : state[o] = "planned" THEN awaiting
    ELSE planning

\* The first reason that applies names the state.
derive_teardown_state ==
    LET router == Destroy(app.teardowns, Router)
    IN IF \E o \in Destroys : state[o] = "uncertain" THEN "uncertain"
       ELSE IF app.stopped \/ \E o \in Destroys : state[o] = "failed" THEN "failed"
       ELSE IF app.linked
            THEN IF \A o \in ReplicaDestroys : state[o] = "succeeded" THEN "destroyed"
                 ELSE GroupState(ReplicaDestroys, "planning_replica_destroy",
                                 "awaiting_replica_destroy_approval", "destroying_replicas")
       ELSE IF state[router] \in {"none", "succeeded"} THEN "planning_replica_destroy"
       ELSE GroupState({router}, "planning_router_destroy",
                       "awaiting_router_destroy_approval", "destroying_router")

derive_state ==
    LET replicas == {Deploy(r) : r \in Replica}
        members == replicas \cup {o \in {current_router} : state[o] # "none"}
    IN IF app.teardowns > 0 THEN derive_teardown_state
       ELSE IF \E o \in members : state[o] = "uncertain" THEN "uncertain"
       ELSE IF app.error \/ \E o \in members : state[o] = "failed" THEN "failed"
       ELSE IF RouterAccepted
            THEN IF state[current_router] = "succeeded" THEN "ready"
                 ELSE GroupState({current_router}, "planning_router",
                                 "awaiting_router_approval", "applying_router")
       ELSE IF \A o \in replicas : state[o] = "succeeded" THEN "planning_router"
       ELSE GroupState(replicas, "planning_replicas",
                       "awaiting_replica_approval", "applying_replicas")

\* What the workflows' checks report.
check_app ==
    IF app.teardowns > 0 THEN "superseded"
    ELSE IF state[RouterDeploy(0)] = "succeeded" THEN "ready"
    ELSE IF derive_state = "planning_router" /\ ~RouterAccepted THEN "router_needed"
    ELSE derive_state

check_teardown ==
    IF derive_state = "planning_replica_destroy" /\ ~app.linked
    THEN "replicas_needed" ELSE derive_state

Workflow == {"rollout", "teardown"}
Check(w) == IF w = "rollout" THEN check_app ELSE check_teardown
Over(w) == IF w = "rollout" THEN {"ready", "failed", "superseded"} ELSE {"destroyed", "failed"}

-----------------------------------------------------------------------------
(* The ledger's view of a member.                                           *)

Deployed(m) ==
    IF m = Router THEN deployed # None
    ELSE /\ state[Deploy(m)] = "succeeded"
         /\ \A t \in 1..MaxTeardowns : state[Destroy(t, m)] # "succeeded"

OnMember(m) == {o \in Op : Home(o) = m}
Busy(m) == m \in held \/ \E o \in OnMember(m) : state[o] \in Unfinished

\* reference_error finds nothing: the router may read this replica's outputs.
Referenceable(r) ==
    /\ Deployed(r)
    /\ \A t \in 1..MaxTeardowns : state[Destroy(t, r)] \notin Unfinished

\* The teardown whose destroy the replica's row names, 0 for its deploy.
LastDestroy(r) ==
    LET tried == {t \in 1..MaxTeardowns : state[Destroy(t, r)] # "none"}
    IN IF tried = {} THEN 0 ELSE CHOOSE t \in tried : \A u \in tried : u <= t

\* Saving the app row gives it a new updated_at.  A request that was validated
\* against the old row can only be refused from then on, so it is dropped here.
Saved == requests' = {}

AppInit ==
    /\ state = [o \in Op |-> "none"]
    /\ app = [error |-> FALSE, teardowns |-> 0, linked |-> FALSE, stopped |-> FALSE]
    /\ target = [k \in 1..MaxFailovers |-> None]
    /\ deployed = None
    /\ held = {}
    /\ requests = {}
    /\ outstanding = {}
    /\ workflow = [w \in Workflow |-> "none"]
    /\ dispatched = {}

Enqueue(ops) == state' = [o \in Op |-> IF o \in ops THEN "queued" ELSE state[o]]

-----------------------------------------------------------------------------
(* Requests of callers.                                                     *)

\* One transaction accepts every replica and the app, or nothing.
Submit ==
    /\ ~Accepted
    /\ Enqueue({Deploy(r) : r \in Replica})
    /\ UNCHANGED <<deployed, held, rowVars, requests, outstanding, workflow, dispatched>>

\* The API starts the plans still queued, then the workflow.  Any call may be
\* lost and ends the request; a retry of it dispatches again.
Dispatches(ops) == dispatched' = dispatched \cup ops

\* A workflow that died (it failed, or was terminated) just takes no more steps;
\* that it did shows only here, when a new run takes its place.
Starts(w, fresh) ==
    \/ workflow[w] \in fresh /\ workflow' = [workflow EXCEPT ![w] = "look"]
    \/ workflow[w] \notin fresh /\ UNCHANGED workflow
    \/ workflow[w] \notin {"none", "done"} /\ workflow' = [workflow EXCEPT ![w] = "look"]

DispatchApp ==
    /\ Accepted
    /\ \E ops \in SUBSET Queued :
           /\ Dispatches(ops)
           /\ \/ ops = Queued /\ Starts("rollout", {"none"})
              \/ UNCHANGED workflow
    /\ UNCHANGED <<memberVars, rowVars, requests, outstanding>>

\* A teardown workflow that still runs is reused, one that ended is not.
DispatchTeardown ==
    /\ app.teardowns > 0
    /\ \E ops \in SUBSET Queued :
           /\ Dispatches(ops)
           /\ \/ /\ ops = Queued
                 /\ IF derive_state \in {"destroyed", "failed"} THEN UNCHANGED workflow
                    ELSE Starts("teardown", {"none", "done"})
              \/ UNCHANGED workflow
    /\ UNCHANGED <<memberVars, rowVars, requests, outstanding>>

\* Only the failover request and its retries start the plan of a failover.
DispatchFailover(k) ==
    /\ state[RouterDeploy(k)] = "queued"
    /\ Dispatches({RouterDeploy(k)})
    /\ UNCHANGED <<memberVars, rowVars, requests, outstanding, workflow>>

ValidateFailover(r) ==
    /\ Cardinality(requests) < MaxRequests
    /\ Accepted /\ derive_state = "ready"
    /\ \A i \in Replica : Deployed(i)
    /\ r # primary_of
    /\ requests' = requests \cup {[for |-> "failover", primary |-> r]}
    /\ UNCHANGED <<memberVars, rowVars, outstanding, workflow, dispatched>>

AcceptFailover(q) ==
    /\ q \in requests /\ q.for = "failover"
    /\ ~Busy(Router) /\ \A i \in Replica : Referenceable(i)
    /\ \E k \in 1..MaxFailovers \ Failovers :
           /\ \A j \in 1..(k - 1) : j \in Failovers
           /\ Enqueue({RouterDeploy(k)})
           /\ target' = [target EXCEPT ![k] = q.primary]
    /\ Saved
    /\ UNCHANGED <<deployed, held, app, outstanding, workflow, dispatched>>

\* Faulty variant: only the operations that run now count.
NothingRunning == \A o \in AppOps : state[o] \notin {"planning", "applying"}

\* A destroy needs a ready or failed app whose operations have all finished.
NothingInFlight == \A o \in AppOps : state[o] \in Finished

ValidateDestroy ==
    /\ Cardinality(requests) < MaxRequests
    /\ Accepted /\ derive_state \in {"ready", "failed"}
    /\ NothingInFlight
    /\ requests' = requests \cup {[for |-> "destroy", router |-> Deployed(Router)]}
    /\ UNCHANGED <<memberVars, rowVars, outstanding, workflow, dispatched>>

\* A new teardown takes the place of the one before; the router's destroy is
\* part of it when there is a router to destroy.
AcceptTeardown(q) ==
    /\ q \in requests /\ q.for = "destroy"
    /\ app.teardowns < MaxTeardowns
    /\ q.router => ~Busy(Router)
    /\ app' = [app EXCEPT !.teardowns = @ + 1, !.linked = FALSE, !.stopped = FALSE]
    /\ Enqueue(IF q.router THEN {Destroy(app.teardowns + 1, Router)} ELSE {})
    /\ Saved
    /\ UNCHANGED <<deployed, held, target, outstanding, workflow, dispatched>>

\* A request that is refused, or whose process dies.
RefuseRequest(q) ==
    /\ q \in requests
    /\ requests' = requests \ {q}
    /\ UNCHANGED <<memberVars, rowVars, outstanding, workflow, dispatched>>

\* The operations that the approval of the present gate names.
gate ==
    CASE derive_state \in {"awaiting_replica_approval", "applying_replicas"} ->
             {Deploy(r) : r \in Replica}
      [] derive_state \in {"awaiting_router_approval", "applying_router"} -> {current_router}
      [] derive_state \in {"awaiting_router_destroy_approval", "destroying_router"} ->
             {Destroy(app.teardowns, Router)}
      [] derive_state \in {"awaiting_replica_destroy_approval", "destroying_replicas"} ->
             ReplicaDestroys
      [] OTHER -> {}

\* execute_many: all of them or none.  What already executes stays as it is.
Execute(ops) ==
    /\ \E o \in ops : state[o] = "planned"
    /\ \A o \in ops : state[o] = "planned" \/ state[o] \in ACTIVE
    /\ \A o \in ops : o[1] = "deploy" /\ Home(o) = Router /\ state[o] = "planned" =>
           \A i \in Replica : Referenceable(i)
    /\ state' = [o \in Op |-> IF o \in ops /\ state[o] = "planned" THEN "apply_queued"
                              ELSE state[o]]
    /\ UNCHANGED <<deployed, held, rowVars, requests, outstanding, workflow, dispatched>>

Approve == Accepted /\ Execute(gate)

\* A member is also an operation of its own, whatever the app's state: this is
\* an approval whose gate was read before the app changed, too.
ExecuteMember(o) == Execute({o})

\* Discarded, alone or with the other plans of a failed app, or expired.
Release(o) ==
    /\ state[o] = "planned"
    /\ state' = [state EXCEPT ![o] = "failed"]
    /\ UNCHANGED <<deployed, held, rowVars, requests, outstanding, workflow, dispatched>>

-----------------------------------------------------------------------------
(* The members' workers, operators and drift checks.                        *)

\* What happens to an accepted operation without a request of this module:
\* neither approvals and releases, nor the ways only a drift check ends.
\* Nothing happens before its plan phase is dispatched.
Edges == (Lifecycle!Moves \cup Lifecycle!Ends)
         \ {<<"planned", "apply_queued">>, <<"planned", "failed">>,
            <<"planning", "succeeded">>, <<"queued", "failed">>}

Works(o) ==
    /\ o \in dispatched
    /\ \E new \in Unfinished \cup Finished :
           /\ <<state[o], new>> \in Edges
           /\ state' = [state EXCEPT ![o] = new]
           /\ deployed' =
                IF Home(o) # Router \/ new # "succeeded" THEN deployed
                ELSE IF o[1] = "destroy" THEN None ELSE Primary(o[2])
    /\ UNCHANGED <<held, rowVars, requests, outstanding, workflow, dispatched>>

StartCheck(m) ==
    /\ Cardinality(held) < MaxChecks
    /\ Deployed(m) /\ ~Busy(m)
    /\ held' = held \cup {m}
    /\ UNCHANGED <<state, deployed, rowVars, requests, outstanding, workflow, dispatched>>

EndCheck(m) ==
    /\ m \in held
    /\ held' = held \ {m}
    /\ UNCHANGED <<state, deployed, rowVars, requests, outstanding, workflow, dispatched>>

-----------------------------------------------------------------------------
(* The workflows and their activities.                                      *)

Goto(w, pc) == workflow' = [workflow EXCEPT ![w] = pc]

\* A run has seen its last answer and is about to close.  A dispatch tells this
\* from a closed run for teardowns only: rollouts are not started again.
Ending(w) == IF w = "rollout" THEN "done" ELSE "ending"

\* One cycle: look at the app, then accept what comes next, end, or start the
\* plans whose dispatch was lost and wait.
Looks(w) ==
    /\ workflow[w] = "look"
    /\ \/ Check(w) \in {"router_needed", "replicas_needed"} /\ Goto(w, "accept")
          /\ UNCHANGED dispatched
       \/ Check(w) \in Over(w) /\ Goto(w, Ending(w)) /\ UNCHANGED dispatched
       \/ /\ Check(w) \in {"planning_replicas", "planning_router",
                           "planning_router_destroy", "planning_replica_destroy"}
          /\ Dispatches(Queued) /\ UNCHANGED workflow
    /\ UNCHANGED <<memberVars, rowVars, requests, outstanding>>

\* The week is over, whatever the last look found: it may have failed.
TimesOut(w) ==
    /\ workflow[w] = "look"
    /\ Goto(w, "failing")
    /\ UNCHANGED <<memberVars, rowVars, requests, outstanding, dispatched>>

\* An attempt of the activity starts.  The destroys are validated against the
\* rows of the replicas that are deployed now.  An element of `outstanding`
\* stands for one or more such attempts.
Attempt(w, call) ==
    [call |-> call, by |-> w,
     seen |-> IF w = "teardown" /\ call = "accept"
              THEN {<<r, LastDestroy(r)>> : r \in {i \in Replica : Deployed(i)}} ELSE {}]

Tries(w) ==
    /\ \/ workflow[w] = "accept" /\ outstanding' = outstanding \cup {Attempt(w, "accept")}
       \/ workflow[w] = "failing" /\ outstanding' = outstanding \cup {Attempt(w, "fail")}
    /\ Cardinality(outstanding') <= MaxAttempts
    /\ UNCHANGED <<memberVars, rowVars, requests, workflow, dispatched>>

\* Faulty variant: the workflow ends even when the failure was not recorded.
GivesUpSilently(w) ==
    /\ \/ workflow[w] = "accept" /\ Goto(w, "failing")
       \/ workflow[w] = "failing" /\ Goto(w, Ending(w))
    /\ UNCHANGED <<memberVars, rowVars, requests, outstanding, dispatched>>

\* Every attempt failed or timed out; some may still run.  What could not be
\* accepted is recorded as failed; what could not be recorded is looked at again.
GivesUp(w) ==
    /\ \/ workflow[w] = "accept" /\ Goto(w, "failing")
       \/ workflow[w] = "failing" /\ Goto(w, "look")
    /\ UNCHANGED <<memberVars, rowVars, requests, outstanding, dispatched>>

\* An attempt ends with its write, and its answer reaches the workflow if that
\* still waits for it and the answer is not lost.  Then the accepted plans are
\* started (`ops`), or the workflow ends with the failure it recorded.
Ends(a, ops) ==
    /\ a \in outstanding
    /\ outstanding' \in {outstanding, outstanding \ {a}}
    /\ \/ UNCHANGED <<workflow, dispatched>>
       \/ workflow[a.by] = "accept" /\ a.call = "accept" /\ Goto(a.by, "look") /\ Dispatches(ops)
       \/ workflow[a.by] = "failing" /\ a.call = "fail" /\ Goto(a.by, Ending(a.by)) /\ UNCHANGED dispatched
    /\ UNCHANGED <<deployed, held, target>>

\* Faulty variant: only a second router is prevented.
RolloutClosedOnce == RouterAccepted

\* No router is accepted twice, nor for a rollout that failed.
RolloutClosed == RouterAccepted \/ app.error

\* The router's operation, if it was accepted by this or another attempt.
RouterAnswer == {o \in {current_router} : state[o] # "none"}

AcceptRouter(a) ==
    /\ a.by = "rollout" /\ a.call = "accept"
    /\ IF RolloutClosed
       THEN /\ UNCHANGED <<state, requests>>
            /\ Ends(a, RouterAnswer)
       ELSE /\ \A r \in Replica : Referenceable(r)
            /\ Enqueue({RouterDeploy(0)}) /\ Saved
            /\ Ends(a, {RouterDeploy(0)})
    /\ UNCHANGED app

TeardownClosed == app.linked \/ app.stopped

AcceptReplicaDestroys(a) ==
    /\ a.by = "teardown" /\ a.call = "accept"
    /\ LET accepted == {Destroy(app.teardowns, p[1]) : p \in a.seen}
       IN IF TeardownClosed
          THEN Ends(a, ReplicaDestroys) /\ UNCHANGED <<state, app, requests>>
          ELSE /\ \A p \in a.seen : ~Busy(p[1]) /\ LastDestroy(p[1]) = p[2]
               /\ ~Deployed(Router)
               /\ Enqueue(accepted)
               /\ app' = [app EXCEPT !.linked = TRUE]
               /\ Saved
               /\ Ends(a, accepted)

\* Faulty variant: a rollout that reached its router can still time out.
FailAppIgnoredLess == app.error \/ app.teardowns > 0

\* The first reason stays, and a rollout that reached its router, or that a
\* teardown took over, is not failed any more.
FailAppIgnored == app.error \/ app.teardowns > 0 \/ state[RouterDeploy(0)] = "succeeded"

FailTeardownIgnored == app.teardowns = 0 \/ app.stopped

RecordFailure(w) ==
    IF w = "rollout"
    THEN IF FailAppIgnored THEN UNCHANGED <<app, requests>>
         ELSE app' = [app EXCEPT !.error = TRUE] /\ Saved
    ELSE IF FailTeardownIgnored THEN UNCHANGED <<app, requests>>
         ELSE app' = [app EXCEPT !.stopped = TRUE] /\ Saved

\* The failure is written: by its own activity, or by an attempt to accept that
\* was refused (budget, policy, access).
Fails(a) ==
    /\ RecordFailure(a.by)
    /\ Ends(a, {})
    /\ UNCHANGED state

\* Refused for the moment (a member is busy): nothing changes, look again later.
RefusedForNow(a) ==
    /\ a.call = "accept"
    /\ Ends(a, {})
    /\ UNCHANGED <<state, app, requests>>

\* The workflow closes.
WorkflowEnds(w) ==
    /\ workflow[w] = "ending"
    /\ Goto(w, "done")
    /\ UNCHANGED <<memberVars, rowVars, requests, outstanding, dispatched>>

-----------------------------------------------------------------------------
Requests ==
    \/ Submit \/ DispatchApp \/ DispatchTeardown \/ Approve \/ ValidateDestroy
    \/ \E k \in 1..MaxFailovers : DispatchFailover(k)
    \/ \E r \in Replica : ValidateFailover(r)
    \/ \E q \in requests : AcceptFailover(q) \/ AcceptTeardown(q) \/ RefuseRequest(q)

Members ==
    \/ \E o \in Op : ExecuteMember(o) \/ Release(o) \/ Works(o)
    \/ \E m \in Member : StartCheck(m) \/ EndCheck(m)

Workflows ==
    \/ \E w \in Workflow :
           Looks(w) \/ TimesOut(w) \/ Tries(w) \/ GivesUp(w) \/ WorkflowEnds(w)
    \/ \E a \in outstanding :
           AcceptRouter(a) \/ AcceptReplicaDestroys(a) \/ Fails(a) \/ RefusedForNow(a)

AppNext == Requests \/ Members \/ Workflows

AppSpec == AppInit /\ [][AppNext]_vars

-----------------------------------------------------------------------------
(* Properties.                                                              *)

\* A router that is deployed, or on its way to be, finds every replica it reads
\* from deployed and not being destroyed.  The router may be accepted, failed
\* over and destroyed by attempts and requests that were validated long before.
LiveRouterHasReplicas ==
    (deployed # None \/ \E k \in 0..MaxFailovers : state[RouterDeploy(k)] \in Unfinished) =>
        \A r \in Replica : Referenceable(r)

\* The primary the app reports is the one the deployed router was given, however
\* many failovers were requested, discarded or are still running.
PrimaryIsDeployed == deployed # None => primary_of = deployed

\* An app that reports "destroyed" leaves nothing deployed, also when teardowns
\* failed half way before and members were approved one by one.
DestroyedIsGone == Accepted /\ derive_state = "destroyed" => \A m \in Member : ~Deployed(m)

\* Nothing turns a ready app into a failed one: no rollout timeout decided on an
\* old look at it, no refused attempt to accept its router again
\* (fail_app: "must not turn a healthy app into a failed one").
HealthyAppStays == [][Accepted /\ derive_state = "ready" => derive_state' # "failed"]_vars

\* A teardown begins, or takes over from a failed one, only when no operation of
\* the app can still change anything; the state it was validated in is older.
TeardownStartsQuiet == 
    [][app'.teardowns # app.teardowns => \A o \in Op : state[o] \notin Unfinished]_vars

\* The rollout's workflow does not end while its app still depends on it: the
\* router is deployed, the failure is recorded, or a teardown took over.  An
\* operator may have to decide on another member of an app that failed.
RolloutEndsForReason ==
    workflow["rollout"] = "done" => check_app \in Over("rollout") \cup {"uncertain"}
=============================================================================
