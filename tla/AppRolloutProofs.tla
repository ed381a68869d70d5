--------------------------- MODULE AppRolloutProofs ---------------------------
(***************************************************************************)
(* Theorems about AppRollout, for any replicas, failovers, teardowns,      *)
(* requests, drift checks and activity attempts: a router finds its        *)
(* replicas, what an app reports of its primary and of its end is true,    *)
(* and a rollout neither ends without a reason nor fails a ready app.      *)
(***************************************************************************)
EXTENDS AppRollout, NumberLemmas, TLAPS

Ended == Finished \cup {"none"}
States == Unfinished \cup Ended
Requested == {"failover", "destroy"}

Typed ==
    /\ state \in [Op -> States]
    /\ app \in [error : BOOLEAN, teardowns : 0..MaxTeardowns, linked : BOOLEAN, stopped : BOOLEAN]
    /\ DOMAIN target = 1..MaxFailovers
    /\ DOMAIN workflow = Workflow
    /\ \A q \in requests : q.for \in Requested

\* The rollout: the router comes after its replicas, and the failovers after the
\* router, one at a time and in their order.
RouterFollows ==
    /\ Accepted => \A r \in Replica : state[Deploy(r)] # "none"
    /\ RouterAccepted => \A r \in Replica : state[Deploy(r)] = "succeeded"
    /\ \A k \in Failovers : /\ state[RouterDeploy(0)] = "succeeded"
                            /\ \A j \in 1..(k - 1) : j \in Failovers

OneRouter ==
    \A j, k \in 0..MaxFailovers :
        j < k /\ state[RouterDeploy(j)] \in Unfinished => state[RouterDeploy(k)] = "none"

\* The rollout will not accept its router any more: it is accepted, or cannot be.
RolloutClosedForGood ==
    RouterAccepted \/ app.error \/ \E r \in Replica : state[Deploy(r)] = "failed"

\* During a teardown nothing is deployed any more.
DeploysOver ==
    app.teardowns > 0 =>
        /\ Accepted /\ RolloutClosedForGood
        /\ \A r \in Replica : state[Deploy(r)] \in Finished
        /\ \A k \in 0..MaxFailovers : state[RouterDeploy(k)] \in Ended

\* Only the present teardown destroys; its replicas once they are recorded.
DestroysOfTeardown ==
    \A t \in 1..MaxTeardowns, m \in Member :
        /\ t < app.teardowns => state[Destroy(t, m)] \in Ended
        /\ t > app.teardowns => state[Destroy(t, m)] = "none"
        /\ t = app.teardowns /\ ~app.linked /\ m # Router => state[Destroy(t, m)] = "none"

\* Then the router is gone and every replica left has its destroy.
LinkedAll ==
    app.linked =>
        /\ app.teardowns > 0 /\ deployed = None
        /\ \A r \in Replica : Deployed(r) => state[Destroy(app.teardowns, r)] # "none"

\* An attempt comes after what it is for; a late one has seen every replica that
\* is still deployed.
AttemptSound(a) ==
    /\ a.by \in Workflow /\ a.call \in {"accept", "fail"}
    /\ a.by = "teardown" => app.teardowns > 0
    /\ a.by = "teardown" /\ a.call = "accept" =>
           /\ \A p \in a.seen : p[1] \in Replica
           /\ \A r \in Replica : Deployed(r) => \E p \in a.seen : p[1] = r

AttemptsSound ==
    /\ workflow["teardown"] # "none" => app.teardowns > 0
    /\ \A a \in outstanding : AttemptSound(a)

\* A request that can still be accepted was validated against this app.
RequestSound(q) ==
    /\ Accepted
    /\ q.for = "failover" => app.teardowns = 0 /\ state[RouterDeploy(0)] = "succeeded"
    /\ q.for = "destroy" => RolloutClosedForGood /\ NothingInFlight

RequestsSound == \A q \in requests : RequestSound(q)

\* The rollout's workflow is done for a reason that stays.
RolloutOver ==
    \/ app.teardowns > 0 \/ app.error
    \/ state[RouterDeploy(0)] \in Finished
    \/ \E r \in Replica : state[Deploy(r)] = "failed"

RolloutDone ==
    /\ workflow["rollout"] # "ending"
    /\ workflow["rollout"] = "done" => RolloutOver

RolloutInv ==
    /\ Typed /\ RouterFollows /\ OneRouter
    /\ DeploysOver /\ DestroysOfTeardown /\ LinkedAll
    /\ AttemptsSound /\ RequestsSound /\ RolloutDone
    /\ LiveRouterHasReplicas /\ PrimaryIsDeployed

-----------------------------------------------------------------------------
(* Names and states of operations.                                          *)

\* Operations are told apart by their kind, number and member.
LEMMA Names ==
  /\ Router \notin Replica /\ MaxFailovers \in Nat /\ MaxTeardowns \in Nat
  /\ "teardown" \in Workflow /\ "rollout" \in Workflow
  /\ \A r \in Replica : /\ r \in Member /\ Deploy(r) \in Op
                        /\ Home(Deploy(r)) = r /\ Deploy(r)[1] = "deploy"
  /\ \A k \in 0..MaxFailovers :
         /\ RouterDeploy(k) \in Op
         /\ Home(RouterDeploy(k)) = Router /\ RouterDeploy(k)[1] = "deploy"
         /\ RouterDeploy(k)[2] = k
  /\ \A t \in 1..MaxTeardowns, m \in Member :
         /\ Destroy(t, m) \in Op
         /\ Home(Destroy(t, m)) = m /\ Destroy(t, m)[1] = "destroy" /\ Destroy(t, m)[2] = t
BY ReplicaAssumption, BoundAssumption
   DEF Op, Home, Deploy, RouterDeploy, Destroy, Member, Workflow

LEMMA Kinds ==
  ASSUME NEW o \in Op
  PROVE  \/ \E r \in Replica : o = Deploy(r)
         \/ \E k \in 0..MaxFailovers : o = RouterDeploy(k)
         \/ \E t \in 1..MaxTeardowns, m \in Member : o = Destroy(t, m)
BY DEF Op

\* No state is of two kinds.
LEMMA Apart ==
  /\ "none" \notin Unfinished \cup Finished /\ Unfinished \cap Finished = {}
  /\ "queued" \in Unfinished /\ "succeeded" \in Finished /\ "failed" \in Finished
  /\ "uncertain" \in Unfinished
BY DEF Unfinished, Finished

\* The router operation that decides the app's state is the rollout's or the
\* newest failover that has not failed.
LEMMA CurrentRouter ==
  ASSUME Typed, RouterFollows
  PROVE  \/ current_router = RouterDeploy(0) /\ \A k \in Failovers : state[RouterDeploy(k)] = "failed"
         \/ \E k \in Failovers : /\ current_router = RouterDeploy(k)
                                 /\ state[RouterDeploy(k)] # "failed"
                                 /\ \A j \in Failovers : j <= k \/ state[RouterDeploy(j)] = "failed"
<1> DEFINE kept == {k \in Failovers : state[RouterDeploy(k)] # "failed"}
<1>1. CASE kept = {}
  BY <1>1 DEF current_router
<1>2. CASE kept # {}
  <2>1. kept \in SUBSET (0..MaxFailovers) /\ MaxFailovers \in Nat
    BY Names DEF Failovers
  <2>2. PICK m \in kept : \A j \in kept : j <= m
    BY <1>2, <2>1, GreatestNumber
  <2> DEFINE k == CHOOSE k \in kept : \A j \in kept : j <= k
  <2>3. k \in kept /\ \A j \in kept : j <= k
    BY <2>2
  <2>4. current_router = RouterDeploy(k)
    BY <1>2 DEF current_router
  <2> HIDE DEF k
  <2> QED
    BY <2>3, <2>4
<1> QED
  BY <1>1, <1>2

LEMMA GroupValue ==
  ASSUME NEW ops, NEW planning, NEW awaiting, NEW applying
  PROVE  GroupState(ops, planning, awaiting, applying) \in {planning, awaiting, applying}
BY DEF GroupState

\* A teardown never leaves the app ready; what its end means.
LEMMA TeardownValue ==
  /\ derive_teardown_state # "ready"
  /\ derive_teardown_state = "destroyed" =>
         app.linked /\ \A o \in ReplicaDestroys : state[o] = "succeeded"
BY GroupValue DEF derive_teardown_state

\* A ready app has its router, and every member of it that counts is done.
LEMMA ReadyApp ==
  ASSUME Typed, RouterFollows, derive_state = "ready"
  PROVE  /\ app.teardowns = 0 /\ ~app.error /\ RouterAccepted
         /\ state[RouterDeploy(0)] = "succeeded" /\ state[current_router] = "succeeded"
<1>1. app.teardowns = 0
  BY TeardownValue DEF derive_state, Typed
<1>2. ~app.error /\ RouterAccepted /\ state[current_router] = "succeeded"
  BY <1>1, GroupValue DEF derive_state, Typed
<1>3. state[RouterDeploy(0)] = "succeeded"
  BY <1>2, CurrentRouter DEF RouterFollows
<1> QED
  BY <1>1, <1>2, <1>3

\* An app that reports failed before any teardown recorded an error, or a member
\* that failed is its reason.
LEMMA FailedApp ==
  ASSUME Typed, RouterFollows, derive_state = "failed", ~(app.teardowns > 0)
  PROVE  \/ app.error \/ state[RouterDeploy(0)] = "failed"
         \/ \E r \in Replica : state[Deploy(r)] = "failed"
<1>1. \/ app.error \/ \E r \in Replica : state[Deploy(r)] = "failed"
      \/ state[current_router] = "failed"
  BY GroupValue DEF derive_state, Typed
<1>2. state[current_router] = "failed" => state[RouterDeploy(0)] = "failed"
  BY CurrentRouter
<1> QED
  BY <1>1, <1>2

\* A request for a teardown finds that the rollout cannot go on.
LEMMA ReadyOrFailed ==
  ASSUME Typed, RouterFollows, DeploysOver, derive_state \in {"ready", "failed"}
  PROVE  RolloutClosedForGood
<1>1. CASE app.teardowns > 0
  BY <1>1 DEF DeploysOver
<1>2. CASE ~(app.teardowns > 0)
  BY <1>2, ReadyApp, FailedApp, Apart DEF RolloutClosedForGood, RouterAccepted
<1> QED
  BY <1>1, <1>2

-----------------------------------------------------------------------------
(* Members that move: approvals, releases and the work of their workers.     *)

\* Unfinished operations go on or end; a router that is deployed is the one
\* whose operation succeeded.
OpsMove ==
    /\ UNCHANGED <<app, target, requests, outstanding, workflow>>
    /\ state' \in [Op -> States]
    /\ \A o \in Op : \/ state'[o] = state[o]
                     \/ state[o] \in Unfinished /\ state'[o] \in Unfinished \cup Finished
    /\ \/ /\ deployed' \in {deployed, None}
          /\ \A k \in 0..MaxFailovers :
                 state'[RouterDeploy(k)] = "succeeded" => state[RouterDeploy(k)] = "succeeded"
       \/ \E k \in 0..MaxFailovers :
              /\ state[RouterDeploy(k)] \in Unfinished
              /\ state'[RouterDeploy(k)] = "succeeded" /\ deployed' = Primary(k)
              /\ \A j \in (0..MaxFailovers) \ {k} : state'[RouterDeploy(j)] = state[RouterDeploy(j)]

LEMMA MoveKeeps ==
  ASSUME RolloutInv, OpsMove
  PROVE  /\ \A o \in Op : /\ state[o] \in Finished => state'[o] = state[o]
                          /\ state[o] = "none" <=> state'[o] = "none"
                          /\ state'[o] \in Unfinished => state[o] \in Unfinished
         /\ Accepted' = Accepted /\ Failovers' = Failovers /\ RouterAccepted' = RouterAccepted
<1>1. \A o \in Op : /\ state[o] \in Finished => state'[o] = state[o]
                    /\ state[o] = "none" <=> state'[o] = "none"
                    /\ state'[o] \in Unfinished => state[o] \in Unfinished
  BY Apart DEF OpsMove
<1> QED
  BY <1>1, Names DEF Accepted, Failovers, RouterAccepted

LEMMA MoveRollout ==
  ASSUME RolloutInv, OpsMove
  PROVE  RouterFollows' /\ OneRouter' /\ DeploysOver' /\ DestroysOfTeardown'
<1>1. RouterFollows'
  BY MoveKeeps, Names, Apart DEF RolloutInv, RouterFollows, Failovers
<1>2. OneRouter'
  BY MoveKeeps, Names DEF RolloutInv, OneRouter
<1>3. DeploysOver'
  <2>1. RolloutClosedForGood => RolloutClosedForGood'
    BY MoveKeeps, Names, Apart DEF RolloutClosedForGood, OpsMove
  <2> QED
    BY <2>1, MoveKeeps, Names, Apart DEF RolloutInv, DeploysOver, OpsMove, Ended
<1>4. DestroysOfTeardown'
  BY MoveKeeps, Names, Apart DEF RolloutInv, DestroysOfTeardown, OpsMove, Ended
<1> QED
  BY <1>1, <1>2, <1>3, <1>4

\* During a teardown no replica becomes deployed again.
LEMMA MoveDeployed ==
  ASSUME RolloutInv, OpsMove, app.teardowns > 0, NEW r \in Replica, Deployed(r)'
  PROVE  Deployed(r)
BY MoveKeeps, Names DEF Deployed, RolloutInv, DeploysOver

LEMMA MoveTeardown ==
  ASSUME RolloutInv, OpsMove
  PROVE  LinkedAll' /\ AttemptsSound' /\ RequestsSound' /\ RolloutDone'
<1>1. LinkedAll'
  <2> SUFFICES ASSUME app.linked PROVE LinkedAll'
    BY DEF LinkedAll, OpsMove
  <2>1. app.teardowns > 0 /\ deployed = None /\ app.teardowns \in 1..MaxTeardowns
    BY Names DEF RolloutInv, LinkedAll, Typed
  <2>2. deployed' = None
    BY <2>1, Apart DEF RolloutInv, DeploysOver, OpsMove, Ended
  <2>3. \A r \in Replica : Deployed(r)' => state'[Destroy(app.teardowns, r)] # "none"
    BY <2>1, MoveDeployed, MoveKeeps, Names DEF RolloutInv, LinkedAll
  <2> QED
    BY <2>1, <2>2, <2>3 DEF LinkedAll, OpsMove
<1>2. AttemptsSound'
  BY MoveDeployed DEF RolloutInv, AttemptsSound, AttemptSound, OpsMove
<1>3. RequestsSound'
  <2>1. AppOps' = AppOps
    BY MoveKeeps DEF AppOps, Destroys, OpsMove
  <2>2. NothingInFlight => NothingInFlight'
    BY <2>1, MoveKeeps DEF NothingInFlight, AppOps, Destroys
  <2>3. RolloutClosedForGood => RolloutClosedForGood'
    BY MoveKeeps, Names, Apart DEF RolloutClosedForGood, OpsMove
  <2> QED
    BY <2>2, <2>3, MoveKeeps, Names, Apart DEF RolloutInv, RequestsSound, RequestSound, OpsMove
<1>4. RolloutDone'
  BY MoveKeeps, Names, Apart DEF RolloutInv, RolloutDone, RolloutOver, OpsMove
<1> QED
  BY <1>1, <1>2, <1>3, <1>4

LEMMA MoveRouter ==
  ASSUME RolloutInv, OpsMove
  PROVE  LiveRouterHasReplicas' /\ PrimaryIsDeployed'
<1>1. LiveRouterHasReplicas'
  <2>1. deployed' # None \/ (\E k \in 0..MaxFailovers : state'[RouterDeploy(k)] \in Unfinished) =>
        deployed # None \/ \E k \in 0..MaxFailovers : state[RouterDeploy(k)] \in Unfinished
    BY MoveKeeps, Names DEF OpsMove
  <2>2. \A r \in Replica : Referenceable(r) => Referenceable(r)'
    BY MoveKeeps, Names, Apart, ReplicaAssumption DEF Referenceable, Deployed, OpsMove
  <2> QED
    BY <2>1, <2>2 DEF RolloutInv, LiveRouterHasReplicas
<1>2. PrimaryIsDeployed'
  <2> DEFINE done == {k \in Failovers : state[RouterDeploy(k)] = "succeeded"}
  <2>1. CASE /\ deployed' \in {deployed, None}
             /\ \A k \in 0..MaxFailovers :
                    state'[RouterDeploy(k)] = "succeeded" => state[RouterDeploy(k)] = "succeeded"
    <3>1. done' = done
      BY <2>1, MoveKeeps, Names, Apart DEF Failovers
    <3>2. primary_of = IF done = {} THEN First
                       ELSE target[CHOOSE k \in done : \A j \in done : j <= k]
      BY DEF primary_of
    <3>3. primary_of' = IF done' = {} THEN First
                        ELSE target'[CHOOSE k \in done' : \A j \in done' : j <= k]
      BY DEF primary_of
    <3>4. primary_of' = primary_of
      <4> HIDE DEF done
      <4> QED
        BY <3>1, <3>2, <3>3 DEF OpsMove
    <3> QED
      BY <2>1, <3>4 DEF RolloutInv, PrimaryIsDeployed
  <2>2. ASSUME NEW k \in 0..MaxFailovers,
               state[RouterDeploy(k)] \in Unfinished,
               state'[RouterDeploy(k)] = "succeeded", deployed' = Primary(k)
        PROVE  primary_of' = deployed'
    <3>1. CASE k = 0
      <4>1. Failovers' = {}
        BY <2>2, <3>1, MoveKeeps, Names, Apart DEF RolloutInv, RouterFollows
      <4> QED
        BY <2>2, <3>1, <4>1 DEF primary_of, Primary
    <3>2. CASE k # 0
      <4>1. k \in done'
        BY <2>2, <3>2, MoveKeeps, Names, Apart DEF Failovers
      <4>2. \A j \in done' : j \in 0..MaxFailovers /\ j <= k
        BY <2>2, MoveKeeps, Names, Apart DEF RolloutInv, OneRouter, Failovers
      <4>3. (CHOOSE i \in done' : \A j \in done' : j <= i) = k
        <5>1. \A i \in done' : (\A j \in done' : j <= i) => i = k
          BY <2>2, <4>1, <4>2
        <5> QED
          BY <4>1, <4>2, <5>1
      <4> QED
        BY <2>2, <3>2, <4>1, <4>3 DEF primary_of, Primary, OpsMove
    <3> QED
      BY <3>1, <3>2
  <2> QED
    BY <2>1, <2>2 DEF OpsMove, PrimaryIsDeployed
<1> QED
  BY <1>1, <1>2

LEMMA MoveInv ==
  ASSUME RolloutInv, OpsMove
  PROVE  RolloutInv'
<1>1. Typed'
  BY DEF RolloutInv, Typed, OpsMove
<1> QED
  BY <1>1, MoveRollout, MoveTeardown, MoveRouter DEF RolloutInv

LEMMA ExecuteMoves ==
  ASSUME RolloutInv, NEW ops, Execute(ops)
  PROVE  OpsMove
<1>1. /\ state' = [o \in Op |-> IF o \in ops /\ state[o] = "planned" THEN "apply_queued"
                               ELSE state[o]]
      /\ UNCHANGED <<deployed, app, target, requests, outstanding, workflow>>
  BY DEF Execute, rowVars
<1>2. \A o \in Op : state'[o] = state[o] \/ (state[o] = "planned" /\ state'[o] = "apply_queued")
  BY <1>1
<1>3. /\ "planned" \in Unfinished /\ "apply_queued" \in Unfinished
      /\ "planned" # "succeeded" /\ "apply_queued" # "succeeded"
  BY DEF Unfinished
<1>4. state' \in [Op -> States]
  BY <1>1, <1>3 DEF RolloutInv, Typed, States
<1>5. \A k \in 0..MaxFailovers :
          state'[RouterDeploy(k)] = "succeeded" => state[RouterDeploy(k)] = "succeeded"
  BY <1>2, <1>3, Names
<1> QED
  BY <1>1, <1>2, <1>3, <1>4, <1>5 DEF OpsMove

LEMMA ReleaseMoves ==
  ASSUME RolloutInv, NEW o \in Op, Release(o)
  PROVE  OpsMove
BY Apart DEF Release, OpsMove, RolloutInv, Typed, States, Unfinished, Finished, Ended, rowVars

LEMMA WorksMoves ==
  ASSUME RolloutInv, NEW o \in Op, Works(o)
  PROVE  OpsMove
<1>1. PICK new \in Unfinished \cup Finished :
          /\ <<state[o], new>> \in Edges /\ state' = [state EXCEPT ![o] = new]
          /\ deployed' = IF Home(o) # Router \/ new # "succeeded" THEN deployed
                         ELSE IF o[1] = "destroy" THEN None ELSE Primary(o[2])
  BY DEF Works
<1>2. state[o] \in Unfinished
  BY <1>1 DEF Edges, Lifecycle!Moves, Lifecycle!Ends, Unfinished
<1>3. /\ state' \in [Op -> States] /\ state'[o] = new
      /\ \A p \in Op : p # o => state'[p] = state[p]
  BY <1>1 DEF RolloutInv, Typed, States, Ended
<1>4. UNCHANGED <<app, target, requests, outstanding, workflow>>
  BY DEF Works, rowVars
<1>5. \A p \in Op : \/ state'[p] = state[p]
                    \/ state[p] \in Unfinished /\ state'[p] \in Unfinished \cup Finished
  BY <1>1, <1>2, <1>3
<1>6. CASE \E k \in 0..MaxFailovers : o = RouterDeploy(k) /\ new = "succeeded"
  <2>1. PICK k \in 0..MaxFailovers : o = RouterDeploy(k) /\ new = "succeeded"
    BY <1>6
  <2>2. deployed' = Primary(k)
    BY <1>1, <2>1, Names
  <2>3. \A j \in (0..MaxFailovers) \ {k} : state'[RouterDeploy(j)] = state[RouterDeploy(j)]
    BY <1>3, <2>1, Names
  <2> QED
    BY <1>2, <1>3, <1>4, <1>5, <2>1, <2>2, <2>3 DEF OpsMove
<1>7. CASE ~ \E k \in 0..MaxFailovers : o = RouterDeploy(k) /\ new = "succeeded"
  <2>1. \A k \in 0..MaxFailovers :
            state'[RouterDeploy(k)] = "succeeded" => state[RouterDeploy(k)] = "succeeded"
    BY <1>3, <1>7, Names
  <2>2. deployed' \in {deployed, None}
    BY <1>1, <1>7, Kinds, Names
  <2> QED
    BY <1>3, <1>4, <1>5, <2>1, <2>2 DEF OpsMove
<1> QED
  BY <1>6, <1>7

-----------------------------------------------------------------------------
(* Steps that move no operation.                                            *)

LEMMA QuietInv ==
  ASSUME RolloutInv, UNCHANGED <<state, target, deployed>>,
         app' \in [error : BOOLEAN, teardowns : 0..MaxTeardowns, linked : BOOLEAN, stopped : BOOLEAN],
         app'.teardowns = app.teardowns, app'.linked = app.linked, app.error => app'.error,
         DOMAIN workflow' = Workflow,
         \A q \in requests' \ requests : q.for \in Requested /\ RequestSound(q),
         \A a \in outstanding' \ outstanding : AttemptSound(a),
         workflow'["teardown"] # "none" => app.teardowns > 0,
         workflow'["rollout"] # "ending",
         workflow'["rollout"] = "done" => RolloutOver \/ app'.error
  PROVE  RolloutInv'
<1>1. Typed'
  BY DEF RolloutInv, Typed
<1>2. RouterFollows' /\ OneRouter' /\ DestroysOfTeardown'
  BY DEF RolloutInv, RouterFollows, OneRouter, DestroysOfTeardown, Accepted, Failovers, RouterAccepted
<1>3. RolloutClosedForGood => RolloutClosedForGood'
  BY DEF RolloutClosedForGood, RouterAccepted
<1>4. DeploysOver'
  BY <1>3 DEF RolloutInv, DeploysOver, Accepted
<1>5. \A r \in Replica : Deployed(r)' = Deployed(r) /\ Referenceable(r)' = Referenceable(r)
  BY DEF Deployed, Referenceable
<1>6. LinkedAll' /\ LiveRouterHasReplicas'
  BY <1>5 DEF RolloutInv, LinkedAll, LiveRouterHasReplicas
<1>7. AttemptsSound'
  BY <1>5 DEF RolloutInv, AttemptsSound, AttemptSound
<1>8. RequestsSound'
  <2>1. NothingInFlight' = NothingInFlight /\ Accepted' = Accepted
    BY DEF NothingInFlight, AppOps, Destroys, Accepted
  <2> QED
    BY <1>3, <2>1 DEF RolloutInv, RequestsSound, RequestSound
<1>9. RolloutDone'
  BY DEF RolloutInv, RolloutDone, RolloutOver
<1>10. PrimaryIsDeployed'
  BY DEF RolloutInv, PrimaryIsDeployed, primary_of, Failovers
<1> QED
  BY <1>1, <1>2, <1>4, <1>6, <1>7, <1>8, <1>9, <1>10 DEF RolloutInv

\* An answer can only move the workflow that waits for it, and ends the
\* rollout's only with a failure recorded.
LEMMA EndsKeeps ==
  ASSUME RolloutInv, NEW a \in outstanding, NEW ops, Ends(a, ops)
  PROVE  /\ outstanding' \subseteq outstanding /\ UNCHANGED <<deployed, held, target>>
         /\ DOMAIN workflow' = Workflow
         /\ workflow'["teardown"] # "none" => app.teardowns > 0
         /\ workflow'["rollout"] # "ending"
         /\ workflow'["rollout"] = "done" => RolloutOver \/ (a.by = "rollout" /\ a.call = "fail")
<1>1. a.by \in Workflow /\ DOMAIN workflow = Workflow /\ "rollout" # "teardown"
  BY DEF RolloutInv, AttemptsSound, AttemptSound, Typed
<1>2. \/ workflow' = workflow
      \/ workflow[a.by] = "accept" /\ workflow' = [workflow EXCEPT ![a.by] = "look"]
      \/ /\ workflow[a.by] = "failing" /\ a.call = "fail"
         /\ workflow' = [workflow EXCEPT ![a.by] = Ending(a.by)]
  BY DEF Ends, Goto
<1>3. DOMAIN workflow' = Workflow
  BY <1>1, <1>2
<1>4. workflow'["teardown"] # "none" => workflow["teardown"] # "none"
  BY <1>1, <1>2, Names
<1>5. \/ workflow'["rollout"] \in {workflow["rollout"], "look"}
      \/ workflow'["rollout"] = "done" /\ a.by = "rollout" /\ a.call = "fail"
  BY <1>1, <1>2, Names DEF Ending
<1>6. /\ workflow'["rollout"] # "ending"
      /\ workflow'["rollout"] = "done" => RolloutOver \/ (a.by = "rollout" /\ a.call = "fail")
  BY <1>5 DEF RolloutInv, RolloutDone
<1> QED
  BY <1>3, <1>4, <1>6 DEF Ends, RolloutInv, AttemptsSound

LEMMA DispatchInv ==
  ASSUME RolloutInv, DispatchApp \/ DispatchTeardown \/ \E k \in 1..MaxFailovers : DispatchFailover(k)
  PROVE  RolloutInv'
<1>1. UNCHANGED <<memberVars, rowVars, requests, outstanding>>
  BY DEF DispatchApp, DispatchTeardown, DispatchFailover
<1>2. /\ DOMAIN workflow = Workflow
      /\ \/ workflow' = workflow
         \/ workflow' = [workflow EXCEPT !["rollout"] = "look"]
         \/ workflow' = [workflow EXCEPT !["teardown"] = "look"] /\ app.teardowns > 0
  BY DEF DispatchApp, DispatchTeardown, DispatchFailover, Starts, RolloutInv, Typed
<1>3. /\ DOMAIN workflow' = Workflow
      /\ workflow'["teardown"] # "none" => workflow["teardown"] # "none" \/ app.teardowns > 0
      /\ workflow'["rollout"] \in {workflow["rollout"], "look"}
  BY <1>2, Names DEF Workflow
<1> QED
  BY <1>1, <1>3, QuietInv DEF memberVars, rowVars, RolloutInv, Typed, AttemptsSound, RolloutDone

LEMMA RequestInv ==
  ASSUME RolloutInv,
         \/ ValidateDestroy
         \/ \E r \in Replica : ValidateFailover(r)
         \/ \E q \in requests : RefuseRequest(q)
  PROVE  RolloutInv'
<1>1. UNCHANGED <<memberVars, rowVars, outstanding, workflow>>
  BY DEF ValidateDestroy, ValidateFailover, RefuseRequest
<1>2. \A q \in requests' \ requests : q.for \in Requested /\ RequestSound(q)
  <2>1. CASE ValidateDestroy
    BY <2>1, ReadyOrFailed DEF ValidateDestroy, RequestSound, Requested, RolloutInv
  <2>2. ASSUME NEW r \in Replica, ValidateFailover(r)
        PROVE  \A q \in requests' \ requests : q.for \in Requested /\ RequestSound(q)
    BY <2>2, ReadyApp DEF ValidateFailover, RequestSound, Requested, RolloutInv
  <2>3. CASE \E q \in requests : RefuseRequest(q)
    BY <2>3 DEF RefuseRequest
  <2> QED
    BY <2>1, <2>2, <2>3
<1> QED
  BY <1>1, <1>2, QuietInv DEF memberVars, rowVars, RolloutInv, Typed, RolloutDone, AttemptsSound

LEMMA CheckInv ==
  ASSUME RolloutInv, NEW m \in Member, StartCheck(m) \/ EndCheck(m)
  PROVE  RolloutInv'
<1>1. UNCHANGED <<state, deployed, rowVars, requests, outstanding, workflow>>
  BY DEF StartCheck, EndCheck
<1> QED
  BY <1>1, QuietInv DEF rowVars, RolloutInv, Typed, RolloutDone, AttemptsSound

\* What a look at the app that ends the rollout's workflow has seen.
LEMMA LookSees ==
  ASSUME RolloutInv, check_app \in {"ready", "failed", "superseded"}
  PROVE  RolloutOver
<1>1. CASE app.teardowns > 0
  BY <1>1 DEF RolloutOver
<1>2. CASE ~(app.teardowns > 0) /\ state[RouterDeploy(0)] = "succeeded"
  BY <1>2, Apart DEF RolloutOver
<1>3. CASE ~(app.teardowns > 0) /\ state[RouterDeploy(0)] # "succeeded"
  <2>1. derive_state \in {"ready", "failed", "superseded"}
    BY <1>3 DEF check_app
  <2>2. derive_state # "superseded"
    BY <1>3, GroupValue DEF derive_state, RolloutInv, Typed
  <2> QED
    BY <1>3, <2>1, <2>2, ReadyApp, FailedApp, Apart DEF RolloutInv, RolloutOver
<1> QED
  BY <1>1, <1>2, <1>3

LEMMA LoopInv ==
  ASSUME RolloutInv, NEW w \in Workflow, Looks(w) \/ TimesOut(w) \/ GivesUp(w) \/ WorkflowEnds(w)
  PROVE  RolloutInv'
<1>1. UNCHANGED <<memberVars, rowVars, requests, outstanding>>
  BY DEF Looks, TimesOut, GivesUp, WorkflowEnds
<1>2. /\ workflow[w] # "none" \/ workflow' = workflow
      /\ \/ workflow' = workflow
         \/ \E pc \in {"accept", "failing", "look"} : workflow' = [workflow EXCEPT ![w] = pc]
         \/ /\ Check(w) \in Over(w) \/ w = "teardown"
            /\ \E pc \in {Ending(w), "done"} : workflow' = [workflow EXCEPT ![w] = pc]
  BY DEF Looks, TimesOut, GivesUp, WorkflowEnds, Goto, RolloutInv, RolloutDone, Workflow
<1>3. DOMAIN workflow = Workflow /\ DOMAIN workflow' = Workflow
  BY <1>2 DEF RolloutInv, Typed
<1>4. workflow'["teardown"] # "none" => workflow["teardown"] # "none"
  BY <1>2, <1>3, Names
<1>5. workflow'["rollout"] # "ending" /\ (workflow'["rollout"] = "done" => RolloutOver)
  BY <1>2, <1>3, Names, LookSees DEF Ending, Check, Over, RolloutInv, RolloutDone
<1> QED
  BY <1>1, <1>3, <1>4, <1>5, QuietInv DEF memberVars, rowVars, RolloutInv, Typed, AttemptsSound

LEMMA TriesInv ==
  ASSUME RolloutInv, NEW w \in Workflow, Tries(w)
  PROVE  RolloutInv'
<1>1. UNCHANGED <<memberVars, rowVars, requests, workflow>> /\ workflow[w] # "none"
  BY DEF Tries
<1>2. \A a \in outstanding' \ outstanding : AttemptSound(a)
  <2> SUFFICES ASSUME NEW call \in {"accept", "fail"} PROVE AttemptSound(Attempt(w, call))
    BY DEF Tries
  <2>1. w = "teardown" => app.teardowns > 0
    BY <1>1 DEF RolloutInv, AttemptsSound
  <2> QED
    <3>1. Attempt(w, call).by = w /\ Attempt(w, call).call = call
      BY DEF Attempt
    <3>2. w = "teardown" /\ call = "accept" =>
              Attempt(w, call).seen = {<<r, LastDestroy(r)>> : r \in {i \in Replica : Deployed(i)}}
      BY DEF Attempt
    <3>3. /\ \A p \in {<<r, LastDestroy(r)>> : r \in {i \in Replica : Deployed(i)}} : p[1] \in Replica
          /\ \A r \in Replica : Deployed(r) =>
                 <<r, LastDestroy(r)>> \in {<<i, LastDestroy(i)>> : i \in {i \in Replica : Deployed(i)}}
      OBVIOUS
    <3>4. w = "teardown" /\ call = "accept" =>
              /\ \A p \in Attempt(w, call).seen : p[1] \in Replica
              /\ \A r \in Replica : Deployed(r) => <<r, LastDestroy(r)>> \in Attempt(w, call).seen
      BY <3>2, <3>3
    <3>5. \A r \in Replica : <<r, LastDestroy(r)>>[1] = r
      OBVIOUS
    <3> QED
      BY <2>1, <3>1, <3>4, <3>5 DEF AttemptSound
<1> QED
  BY <1>1, <1>2, QuietInv DEF memberVars, rowVars, RolloutInv, Typed, RolloutDone, AttemptsSound

LEMMA FailsInv ==
  ASSUME RolloutInv, NEW a \in outstanding, Fails(a) \/ RefusedForNow(a)
  PROVE  RolloutInv'
<1>1. Ends(a, {}) /\ UNCHANGED state
  BY DEF Fails, RefusedForNow
<1>2. /\ requests' \subseteq requests
      /\ \/ app' = app
         \/ app' = [app EXCEPT !.error = TRUE] /\ a.by = "rollout"
         \/ app' = [app EXCEPT !.stopped = TRUE]
      /\ a.by = "rollout" /\ a.call = "fail" =>
             app.error \/ app.teardowns > 0 \/ state[RouterDeploy(0)] = "succeeded" \/ app'.error
  BY DEF Fails, RefusedForNow, RecordFailure, FailAppIgnored, Saved, RolloutInv, Typed
<1>3. /\ app' \in [error : BOOLEAN, teardowns : 0..MaxTeardowns, linked : BOOLEAN, stopped : BOOLEAN]
      /\ app'.teardowns = app.teardowns /\ app'.linked = app.linked /\ (app.error => app'.error)
  BY <1>2 DEF RolloutInv, Typed
<1>4. workflow'["rollout"] = "done" => RolloutOver \/ app'.error
  BY <1>1, <1>2, EndsKeeps, Apart DEF RolloutOver
<1> QED
  BY <1>1, <1>2, <1>3, <1>4, EndsKeeps, QuietInv

-----------------------------------------------------------------------------
(* Steps that accept operations.                                            *)

LEMMA Enqueued ==
  ASSUME RolloutInv, NEW ops, Enqueue(ops)
  PROVE  /\ state' \in [Op -> States]
         /\ \A o \in Op : state'[o] = IF o \in ops THEN "queued" ELSE state[o]
BY Apart DEF Enqueue, RolloutInv, Typed, States

\* Operations of the router leave the replicas as they were.
LEMMA RouterEnqueued ==
  ASSUME RolloutInv, NEW ops, Enqueue(ops), \A o \in ops : Home(o) = Router
  PROVE  /\ \A r \in Replica : /\ state'[Deploy(r)] = state[Deploy(r)]
                               /\ Deployed(r)' = Deployed(r)
                               /\ Referenceable(r)' = Referenceable(r)
         /\ Accepted' = Accepted
<1>1. \A r \in Replica :
          /\ state'[Deploy(r)] = state[Deploy(r)]
          /\ \A t \in 1..MaxTeardowns : state'[Destroy(t, r)] = state[Destroy(t, r)]
  <2>1. \A o \in Op : Home(o) # Router => state'[o] = state[o]
    BY Enqueued
  <2>2. \A r \in Replica : /\ Deploy(r) \in Op /\ Home(Deploy(r)) # Router
                           /\ \A t \in 1..MaxTeardowns :
                                  Destroy(t, r) \in Op /\ Home(Destroy(t, r)) # Router
    BY Names
  <2> QED
    BY <2>1, <2>2
<1>2. \A r \in Replica : Deployed(r)' = Deployed(r)
  <2> TAKE r \in Replica
  <2>1. r # Router
    BY Names
  <2> QED
    BY <1>1, <2>1 DEF Deployed
<1> QED
  BY <1>1, <1>2 DEF Referenceable, Accepted

\* The primary is that of the newest router that succeeded.
LEMMA SamePrimary ==
  ASSUME \A k \in 1..MaxFailovers :
             /\ state'[RouterDeploy(k)] = "succeeded" <=> state[RouterDeploy(k)] = "succeeded"
             /\ state[RouterDeploy(k)] = "succeeded" => target'[k] = target[k]
  PROVE  primary_of' = primary_of
<1> DEFINE done == {k \in Failovers : state[RouterDeploy(k)] = "succeeded"}
           newest == CHOOSE k \in done : \A j \in done : j <= k
<1>1. done' = done
  BY DEF Failovers
<1>2. done # {} => newest \in done
  <2>1. done \in SUBSET (0..MaxFailovers) /\ MaxFailovers \in Nat
    BY Names DEF Failovers
  <2> QED
    BY <2>1, GreatestNumber
<1>3. newest \in done => target'[newest] = target[newest]
  BY DEF Failovers
<1>4. /\ primary_of = IF done = {} THEN First ELSE target[newest]
      /\ primary_of' = IF done' = {} THEN First
                       ELSE target'[CHOOSE k \in done' : \A j \in done' : j <= k]
  BY DEF primary_of
<1>5. (CHOOSE k \in done' : \A j \in done' : j <= k) = newest
  <2> HIDE DEF done
  <2> QED
    BY <1>1
<1> QED
  <2> HIDE DEF done, newest
  <2> QED
    BY <1>1, <1>2, <1>3, <1>4, <1>5

LEMMA SubmitInv ==
  ASSUME RolloutInv, Submit
  PROVE  RolloutInv'
<1>1. Enqueue({Deploy(r) : r \in Replica})
  BY DEF Submit
<1>2. UNCHANGED <<deployed, app, target, requests, outstanding, workflow>>
  BY DEF Submit, rowVars
<1>3. /\ \A r \in Replica : state[Deploy(r)] = "none" /\ state'[Deploy(r)] = "queued"
      /\ \A k \in 0..MaxFailovers : state'[RouterDeploy(k)] = state[RouterDeploy(k)]
      /\ \A t \in 1..MaxTeardowns, m \in Member : state'[Destroy(t, m)] = state[Destroy(t, m)]
  <2>1. \A r \in Replica : state[Deploy(r)] = "none"
    BY DEF Submit, Accepted
  <2>2. /\ \A k \in 0..MaxFailovers : RouterDeploy(k) \notin {Deploy(r) : r \in Replica}
        /\ \A t \in 1..MaxTeardowns, m \in Member : Destroy(t, m) \notin {Deploy(r) : r \in Replica}
    BY Names
  <2> QED
    BY <1>1, <2>1, <2>2, Enqueued, Names
<1>4. /\ app.teardowns = 0 /\ ~app.linked /\ requests = {} /\ Failovers = {} /\ deployed = None
      /\ \A k \in 0..MaxFailovers : state[RouterDeploy(k)] = "none"
  <2>1. ~Accepted
    BY DEF Submit
  <2>2. app.teardowns = 0 /\ ~app.linked
    BY <2>1 DEF RolloutInv, Typed, DeploysOver, LinkedAll
  <2>3. requests = {}
    BY <2>1 DEF RolloutInv, RequestsSound, RequestSound
  <2>4. ~RouterAccepted
    BY <1>3, ReplicaAssumption DEF RolloutInv, RouterFollows
  <2>5. Failovers = {}
    BY <2>4 DEF RolloutInv, RouterFollows, RouterAccepted
  <2>6. \A k \in 0..MaxFailovers : state[RouterDeploy(k)] = "none"
    BY <2>4, <2>5, Names DEF Failovers, RouterAccepted
  <2>7. deployed = None
    BY <1>3, ReplicaAssumption, Names DEF RolloutInv, LiveRouterHasReplicas, Referenceable, Deployed
  <2> QED
    BY <2>2, <2>3, <2>5, <2>6, <2>7
<1>5. Typed'
  BY <1>1, <1>2, Enqueued DEF RolloutInv, Typed
<1>6. RouterFollows' /\ OneRouter'
  BY <1>3, <1>4, Names, Apart DEF RouterFollows, OneRouter, RouterAccepted, Failovers
<1>7. DeploysOver' /\ DestroysOfTeardown' /\ LinkedAll'
  BY <1>2, <1>3, <1>4 DEF DeploysOver, DestroysOfTeardown, LinkedAll, RolloutInv
<1>8. AttemptsSound' /\ RequestsSound'
  BY <1>2, <1>4 DEF AttemptsSound, AttemptSound, RequestsSound, RolloutInv
<1>9. RolloutDone'
  BY <1>2, <1>3, <1>4, Names, Apart DEF RolloutDone, RolloutOver, RolloutInv
<1>10. LiveRouterHasReplicas' /\ PrimaryIsDeployed'
  BY <1>2, <1>3, <1>4, Apart DEF LiveRouterHasReplicas, PrimaryIsDeployed
<1> QED
  BY <1>5, <1>6, <1>7, <1>8, <1>9, <1>10 DEF RolloutInv

LEMMA AcceptFailoverInv ==
  ASSUME RolloutInv, NEW q \in requests, AcceptFailover(q)
  PROVE  RolloutInv'
<1>1. PICK k \in 1..MaxFailovers \ Failovers :
          /\ \A j \in 1..(k - 1) : j \in Failovers
          /\ Enqueue({RouterDeploy(k)}) /\ target' = [target EXCEPT ![k] = q.primary]
  BY DEF AcceptFailover
<1>2. UNCHANGED <<deployed, app, outstanding, workflow>> /\ requests' = {}
  BY DEF AcceptFailover, Saved
<1>3. app.teardowns = 0 /\ state[RouterDeploy(0)] = "succeeded"
  BY DEF AcceptFailover, RolloutInv, RequestsSound, RequestSound
<1>4. /\ state'[RouterDeploy(k)] = "queued" /\ state[RouterDeploy(k)] = "none"
      /\ \A o \in Op : o # RouterDeploy(k) => state'[o] = state[o]
  BY <1>1, Enqueued, Names DEF Failovers
<1>5. \A r \in Replica : /\ state'[Deploy(r)] = state[Deploy(r)]
                         /\ Deployed(r)' = Deployed(r) /\ Referenceable(r)' = Referenceable(r)
  BY <1>1, RouterEnqueued, Names
<1>6. /\ \A j \in 0..MaxFailovers : j # k => state'[RouterDeploy(j)] = state[RouterDeploy(j)]
      /\ \A t \in 1..MaxTeardowns, m \in Member : state'[Destroy(t, m)] = state[Destroy(t, m)]
      /\ Failovers' = Failovers \cup {k}
  <2>1. /\ \A j \in 0..MaxFailovers : j # k => RouterDeploy(j) # RouterDeploy(k)
        /\ \A t \in 1..MaxTeardowns, m \in Member : Destroy(t, m) # RouterDeploy(k)
    BY Names
  <2>2. /\ \A j \in 0..MaxFailovers : j # k => state'[RouterDeploy(j)] = state[RouterDeploy(j)]
        /\ \A t \in 1..MaxTeardowns, m \in Member : state'[Destroy(t, m)] = state[Destroy(t, m)]
    BY <1>4, <2>1, Names
  <2> QED
    BY <1>4, <2>2, Names DEF Failovers
<1>7. Typed'
  BY <1>1, <1>2, Enqueued DEF RolloutInv, Typed
<1>8. RouterFollows'
  <2>1. Accepted' => \A r \in Replica : state'[Deploy(r)] # "none"
    BY <1>5 DEF RolloutInv, RouterFollows, Accepted
  <2>2. state'[RouterDeploy(0)] = "succeeded" /\ \A r \in Replica : state'[Deploy(r)] = "succeeded"
    BY <1>3, <1>5, <1>6, Names, Apart DEF RolloutInv, RouterFollows, RouterAccepted
  <2>3. \A i \in Failovers' : \A j \in 1..(i - 1) : j \in Failovers'
    BY <1>1, <1>6 DEF RolloutInv, RouterFollows
  <2> QED
    BY <2>1, <2>2, <2>3 DEF RouterFollows
<1>9. OneRouter'
  <2>1. \A j \in 0..MaxFailovers : state[RouterDeploy(j)] \notin Unfinished
    BY Names DEF AcceptFailover, Busy, OnMember
  <2>2. \A j \in 0..MaxFailovers : k < j => state[RouterDeploy(j)] = "none"
    BY <1>1, Names DEF RolloutInv, RouterFollows, Failovers
  <2> QED
    BY <1>6, <2>1, <2>2 DEF OneRouter
<1>10. DeploysOver' /\ DestroysOfTeardown' /\ LinkedAll'
  BY <1>2, <1>3, <1>6 DEF DeploysOver, DestroysOfTeardown, LinkedAll, RolloutInv
<1>11. AttemptsSound' /\ RequestsSound'
  BY <1>2, <1>5 DEF AttemptsSound, AttemptSound, RequestsSound, RolloutInv
<1>12. RolloutDone'
  BY <1>2, <1>3, <1>6, Names, Apart DEF RolloutDone, RolloutOver, RolloutInv
<1>13. LiveRouterHasReplicas'
  BY <1>5 DEF AcceptFailover, LiveRouterHasReplicas
<1>14. PrimaryIsDeployed'
  <2>1. primary_of' = primary_of
    BY <1>1, <1>4, <1>6, SamePrimary, Apart DEF RolloutInv, Typed
  <2> QED
    BY <1>2, <2>1 DEF PrimaryIsDeployed, RolloutInv
<1> QED
  BY <1>7, <1>8, <1>9, <1>10, <1>11, <1>12, <1>13, <1>14 DEF RolloutInv

LEMMA AcceptTeardownInv ==
  ASSUME RolloutInv, NEW q \in requests, AcceptTeardown(q)
  PROVE  RolloutInv'
<1> DEFINE t == app.teardowns + 1
           ops == IF q.router THEN {Destroy(t, Router)} ELSE {}
<1>1. /\ app' = [app EXCEPT !.teardowns = @ + 1, !.linked = FALSE, !.stopped = FALSE]
      /\ Enqueue(ops) /\ requests' = {}
      /\ UNCHANGED <<deployed, target, outstanding, workflow>>
  BY DEF AcceptTeardown, Saved
<1>2. t \in 1..MaxTeardowns /\ app.teardowns \in 0..MaxTeardowns
  BY BoundAssumption DEF AcceptTeardown, RolloutInv, Typed
<1>3. /\ app' \in [error : BOOLEAN, teardowns : 0..MaxTeardowns, linked : BOOLEAN, stopped : BOOLEAN]
      /\ app'.teardowns = t /\ app'.error = app.error /\ ~app'.linked
  <2>1. /\ DOMAIN app' = {"error", "teardowns", "linked", "stopped"}
        /\ app'.error = app.error /\ app'.teardowns = t /\ app'.linked = FALSE /\ app'.stopped = FALSE
    BY <1>1 DEF RolloutInv, Typed
  <2>2. app' = [error |-> app.error, teardowns |-> t, linked |-> FALSE, stopped |-> FALSE]
    BY <1>1, <2>1 DEF RolloutInv, Typed
  <2>3. app.error \in BOOLEAN /\ t \in 0..MaxTeardowns
    BY <1>2 DEF RolloutInv, Typed
  <2> HIDE DEF t
  <2> QED
    BY <2>2, <2>3
<1>4. Accepted /\ RolloutClosedForGood /\ NothingInFlight
  BY DEF AcceptTeardown, RolloutInv, RequestsSound, RequestSound
<1>5. \A o \in ops : o = Destroy(t, Router) /\ Home(o) = Router
  BY <1>2, Names DEF Member
<1>6. \A r \in Replica : /\ state'[Deploy(r)] = state[Deploy(r)]
                         /\ Deployed(r)' = Deployed(r) /\ Referenceable(r)' = Referenceable(r)
  BY <1>1, <1>5, RouterEnqueued
<1>7. /\ \A k \in 0..MaxFailovers : state'[RouterDeploy(k)] = state[RouterDeploy(k)]
      /\ \A u \in 1..MaxTeardowns, m \in Member :
             u # t \/ m # Router => state'[Destroy(u, m)] = state[Destroy(u, m)]
  <2>1. /\ \A k \in 0..MaxFailovers : RouterDeploy(k) # Destroy(t, Router)
        /\ \A u \in 1..MaxTeardowns, m \in Member :
               u # t \/ m # Router => Destroy(u, m) # Destroy(t, Router)
    BY <1>2, Names DEF Member
  <2>2. \A o \in Op : o # Destroy(t, Router) => state'[o] = state[o]
    BY <1>1, <1>5, Enqueued
  <2> HIDE DEF t
  <2> QED
    BY <2>1, <2>2, Names
<1>8. Typed'
  <2> HIDE DEF t, ops
  <2> QED
    BY <1>1, <1>3, Enqueued DEF RolloutInv, Typed
<1>9. RouterFollows' /\ OneRouter'
  <2>1. Failovers' = Failovers
    BY <1>7, Names DEF Failovers
  <2>2. RouterFollows'
    BY <1>6, <1>7, <2>1, Names DEF RouterFollows, RouterAccepted, Accepted, RolloutInv
  <2>3. OneRouter'
    BY <1>7 DEF OneRouter, RolloutInv
  <2> QED
    BY <2>2, <2>3
<1>10. DeploysOver'
  <2>1. \A o \in Op : o[1] = "deploy" => state[o] \in Ended
    BY <1>4 DEF NothingInFlight, AppOps, Ended
  <2>2. \A r \in Replica : state[Deploy(r)] \in Finished
    BY <1>4, <2>1, Names DEF RolloutInv, RouterFollows, Ended
  <2>3. \A k \in 0..MaxFailovers : state[RouterDeploy(k)] \in Ended
    BY <2>1, Names
  <2>4. Accepted' /\ RolloutClosedForGood'
    BY <1>3, <1>4, <1>6, <1>7, Names DEF Accepted, RolloutClosedForGood, RouterAccepted
  <2> QED
    BY <1>6, <1>7, <2>2, <2>3, <2>4 DEF DeploysOver
<1>11. DestroysOfTeardown'
  <2>1. \A m \in Member : app.teardowns \in 1..MaxTeardowns => state[Destroy(app.teardowns, m)] \in Ended
    BY <1>4, Names DEF NothingInFlight, AppOps, Destroys, Ended
  <2>2. ASSUME NEW u \in 1..MaxTeardowns, NEW m \in Member
        PROVE  /\ u < t => state'[Destroy(u, m)] \in Ended
               /\ u > t => state'[Destroy(u, m)] = "none"
               /\ u = t /\ m # Router => state'[Destroy(u, m)] = "none"
    <3>1. u < t => state'[Destroy(u, m)] = state[Destroy(u, m)] /\ (u < app.teardowns \/ u = app.teardowns)
      BY <1>2, <1>7
    <3>2. u > t \/ (u = t /\ m # Router) =>
              u > app.teardowns /\ state'[Destroy(u, m)] = state[Destroy(u, m)]
      BY <1>2, <1>7
    <3> HIDE DEF t
    <3> QED
      BY <2>1, <3>1, <3>2 DEF RolloutInv, DestroysOfTeardown
  <2> HIDE DEF t
  <2> QED
    BY <1>3, <2>2 DEF DestroysOfTeardown
<1>12. LinkedAll' /\ RolloutDone'
  BY <1>1, <1>2, <1>3 DEF LinkedAll, RolloutDone, RolloutOver, RolloutInv
<1>13. AttemptsSound' /\ RequestsSound'
  BY <1>1, <1>2, <1>3, <1>6 DEF AttemptsSound, AttemptSound, RequestsSound, RolloutInv
<1>14. LiveRouterHasReplicas'
  <2> HIDE DEF t, ops
  <2> QED
    BY <1>1, <1>6, <1>7 DEF LiveRouterHasReplicas, RolloutInv
<1>15. PrimaryIsDeployed'
  <2>1. primary_of' = primary_of
    BY <1>1, <1>7, SamePrimary
  <2> QED
    BY <1>1, <2>1 DEF PrimaryIsDeployed, RolloutInv
<1> QED
  BY <1>8, <1>9, <1>10, <1>11, <1>12, <1>13, <1>14, <1>15 DEF RolloutInv

LEMMA AcceptRouterInv ==
  ASSUME RolloutInv, NEW a \in outstanding, AcceptRouter(a)
  PROVE  RolloutInv'
<1>1. a.call = "accept" /\ UNCHANGED app /\ \E ops : Ends(a, ops)
  BY DEF AcceptRouter
<1>2. CASE RolloutClosed
  <2>1. UNCHANGED <<state, requests>>
    BY <1>2 DEF AcceptRouter
  <2> QED
    BY <1>1, <2>1, EndsKeeps, QuietInv DEF RolloutInv, Typed
<1>3. CASE ~RolloutClosed
  <2>1. /\ \A r \in Replica : Referenceable(r)
        /\ Enqueue({RouterDeploy(0)}) /\ requests' = {}
    BY <1>3 DEF AcceptRouter, Saved
  <2>2. /\ outstanding' \subseteq outstanding /\ UNCHANGED <<deployed, target>>
        /\ DOMAIN workflow' = Workflow
        /\ workflow'["teardown"] # "none" => app.teardowns > 0
        /\ workflow'["rollout"] # "ending" /\ (workflow'["rollout"] = "done" => RolloutOver)
    BY <1>1, EndsKeeps
  <2>3. state[RouterDeploy(0)] = "none" /\ ~app.error /\ Failovers = {}
    BY <1>3, Apart DEF RolloutClosed, RouterAccepted, RolloutInv, RouterFollows
  <2>4. \A r \in Replica : state[Deploy(r)] = "succeeded"
    BY <2>1, Names DEF Referenceable, Deployed
  <2>5. app.teardowns = 0 /\ ~app.linked
    BY <2>3, <2>4 DEF RolloutInv, DeploysOver, RolloutClosedForGood, RouterAccepted, LinkedAll, Typed
  <2>6. \A r \in Replica : /\ state'[Deploy(r)] = state[Deploy(r)]
                           /\ Deployed(r)' = Deployed(r) /\ Referenceable(r)' = Referenceable(r)
    BY <2>1, RouterEnqueued, Names
  <2>7. /\ state'[RouterDeploy(0)] = "queued"
        /\ \A k \in 1..MaxFailovers : state'[RouterDeploy(k)] = state[RouterDeploy(k)]
        /\ \A t \in 1..MaxTeardowns, m \in Member : state'[Destroy(t, m)] = state[Destroy(t, m)]
    <3>1. /\ \A k \in 1..MaxFailovers : RouterDeploy(k) # RouterDeploy(0)
          /\ \A t \in 1..MaxTeardowns, m \in Member : Destroy(t, m) # RouterDeploy(0)
      BY Names
    <3> QED
      BY <2>1, <3>1, Enqueued, Names
  <2>8. Failovers' = {}
    BY <2>3, <2>7 DEF Failovers
  <2>9. Typed'
    BY <1>1, <2>1, <2>2, Enqueued DEF RolloutInv, Typed
  <2>10. RouterFollows'
    BY <2>4, <2>6, <2>8 DEF RouterFollows
  <2>11. OneRouter'
    BY <2>3, <2>7, Names DEF OneRouter, Failovers
  <2>12. DeploysOver' /\ DestroysOfTeardown' /\ LinkedAll'
    BY <1>1, <2>5, <2>7 DEF DeploysOver, DestroysOfTeardown, LinkedAll, RolloutInv
  <2>13. AttemptsSound' /\ RequestsSound'
    BY <1>1, <2>1, <2>2, <2>6 DEF AttemptsSound, AttemptSound, RequestsSound, RolloutInv
  <2>14. RolloutDone'
    BY <1>1, <2>2, <2>3, <2>6, Apart DEF RolloutDone, RolloutOver
  <2>15. LiveRouterHasReplicas'
    BY <2>1, <2>6 DEF LiveRouterHasReplicas
  <2>16. PrimaryIsDeployed'
    <3>1. primary_of' = primary_of
      BY <2>2, <2>7, SamePrimary
    <3> QED
      BY <2>2, <3>1 DEF PrimaryIsDeployed, RolloutInv
  <2> QED
    BY <2>9, <2>10, <2>11, <2>12, <2>13, <2>14, <2>15, <2>16 DEF RolloutInv
<1> QED
  BY <1>2, <1>3

LEMMA AcceptReplicaDestroysInv ==
  ASSUME RolloutInv, NEW a \in outstanding, AcceptReplicaDestroys(a)
  PROVE  RolloutInv'
<1> DEFINE t == app.teardowns
           accepted == {Destroy(t, p[1]) : p \in a.seen}
<1>1. a.by = "teardown" /\ a.call = "accept" /\ \E ops : Ends(a, ops)
  BY DEF AcceptReplicaDestroys
<1>2. CASE TeardownClosed
  <2>1. UNCHANGED <<state, app, requests>>
    BY <1>2 DEF AcceptReplicaDestroys
  <2> QED
    BY <1>1, <2>1, EndsKeeps, QuietInv DEF RolloutInv, Typed
<1>3. CASE ~TeardownClosed
  <2>1. /\ ~Deployed(Router) /\ Enqueue(accepted) /\ requests' = {}
        /\ app' = [app EXCEPT !.linked = TRUE]
    BY <1>3 DEF AcceptReplicaDestroys, Saved
  <2>2. /\ outstanding' \subseteq outstanding /\ UNCHANGED <<deployed, target>>
        /\ DOMAIN workflow' = Workflow
        /\ workflow'["teardown"] # "none" => app.teardowns > 0
        /\ workflow'["rollout"] # "ending"
    BY <1>1, EndsKeeps
  <2>3. /\ app.teardowns > 0 /\ t \in 1..MaxTeardowns /\ ~app.linked /\ deployed = None
        /\ \A p \in a.seen : p[1] \in Replica
        /\ \A r \in Replica : Deployed(r) => \E p \in a.seen : p[1] = r
    BY <1>1, <1>3, <2>1, Names DEF RolloutInv, AttemptsSound, AttemptSound, Typed, TeardownClosed, Deployed
  <2>4. /\ app' \in [error : BOOLEAN, teardowns : 0..MaxTeardowns, linked : BOOLEAN, stopped : BOOLEAN]
        /\ app'.teardowns = t /\ app'.linked /\ app'.error = app.error
    BY <2>1 DEF RolloutInv, Typed
  <2> HIDE DEF t
  <2>5. \A o \in accepted : o[1] = "destroy" /\ o[2] = t /\ Home(o) \in Replica
    BY <2>3, Names
  <2>6. /\ \A r \in Replica : state'[Deploy(r)] = state[Deploy(r)]
        /\ \A k \in 0..MaxFailovers : state'[RouterDeploy(k)] = state[RouterDeploy(k)]
        /\ \A u \in 1..MaxTeardowns, m \in Member :
               u # t \/ m = Router => state'[Destroy(u, m)] = state[Destroy(u, m)]
        /\ \A u \in 1..MaxTeardowns, m \in Member :
               state'[Destroy(u, m)] \in {state[Destroy(u, m)], "queued"}
    <3>1. /\ \A r \in Replica : Deploy(r) \notin accepted
          /\ \A k \in 0..MaxFailovers : RouterDeploy(k) \notin accepted
          /\ \A u \in 1..MaxTeardowns, m \in Member :
                 u # t \/ m = Router => Destroy(u, m) \notin accepted
      BY <2>5, Names
    <3> HIDE DEF accepted
    <3>2. \A o \in Op : state'[o] = IF o \in accepted THEN "queued" ELSE state[o]
      BY <2>1, Enqueued
    <3> QED
      BY <3>1, <3>2, Names
  <2>7. \A r \in Replica : Deployed(r)' => Deployed(r)
    <3> TAKE r \in Replica
    <3>1. r # Router /\ r \in Member
      BY Names
    <3>2. \A u \in 1..MaxTeardowns : state[Destroy(u, r)] = "succeeded" => state'[Destroy(u, r)] = "succeeded"
      <4>1. state[Destroy(t, r)] = "none"
        BY <2>3, <3>1 DEF RolloutInv, DestroysOfTeardown, t
      <4> QED
        BY <2>6, <3>1, <4>1
    <3> QED
      BY <2>6, <3>1, <3>2 DEF Deployed
  <2>8. \A r \in Replica : Deployed(r) => state'[Destroy(t, r)] = "queued"
    <3> TAKE r \in Replica
    <3> HAVE Deployed(r)
    <3>1. Destroy(t, r) \in accepted
      BY <2>3
    <3> HIDE DEF accepted
    <3> QED
      BY <2>1, <2>3, <3>1, Enqueued, Names
  <2>9. Typed'
    <3> HIDE DEF accepted
    <3> QED
      BY <2>1, <2>2, <2>4, Enqueued DEF RolloutInv, Typed
  <2>10. RouterFollows' /\ OneRouter'
    <3>1. Failovers' = Failovers /\ RouterAccepted' = RouterAccepted /\ Accepted' = Accepted
      BY <2>6, Names DEF Failovers, RouterAccepted, Accepted
    <3> QED
      BY <2>6, <3>1, Names DEF RouterFollows, OneRouter, RolloutInv
  <2>11. DeploysOver'
    <3>1. Accepted' = Accepted /\ RolloutClosedForGood' = RolloutClosedForGood
      BY <2>4, <2>6, Names DEF Accepted, RolloutClosedForGood, RouterAccepted
    <3> QED
      BY <2>3, <2>6, <3>1 DEF DeploysOver, RolloutInv
  <2>12. DestroysOfTeardown'
    <3>1. \A u \in 1..MaxTeardowns, m \in Member :
              /\ u < t => state[Destroy(u, m)] \in Ended
              /\ u > t => state[Destroy(u, m)] = "none"
      BY DEF DestroysOfTeardown, RolloutInv, t
    <3>2. \A u \in 1..MaxTeardowns : u < t \/ u > t => u # t
      BY <2>3
    <3> QED
      BY <2>4, <2>6, <3>1, <3>2 DEF DestroysOfTeardown
  <2>13. LinkedAll'
    BY <2>2, <2>3, <2>4, <2>7, <2>8 DEF LinkedAll, t
  <2>14. AttemptsSound' /\ RequestsSound'
    BY <2>1, <2>2, <2>3, <2>4, <2>7 DEF AttemptsSound, AttemptSound, RequestsSound, RolloutInv, t
  <2>15. RolloutDone'
    BY <2>2, <2>3, <2>4 DEF RolloutDone, RolloutOver, t
  <2>16. LiveRouterHasReplicas'
    BY <2>2, <2>3, <2>6, Apart DEF LiveRouterHasReplicas, RolloutInv, DeploysOver, Ended
  <2>17. PrimaryIsDeployed'
    BY <2>2, <2>3 DEF PrimaryIsDeployed
  <2> QED
    BY <2>9, <2>10, <2>11, <2>12, <2>13, <2>14, <2>15, <2>16, <2>17 DEF RolloutInv
<1> QED
  BY <1>2, <1>3

-----------------------------------------------------------------------------
(* The theorems.                                                            *)

LEMMA RolloutInit == AppInit => RolloutInv
<1> SUFFICES ASSUME AppInit PROVE RolloutInv
  OBVIOUS
<1>1. /\ \A o \in Op : state[o] = "none"
      /\ app = [error |-> FALSE, teardowns |-> 0, linked |-> FALSE, stopped |-> FALSE]
      /\ deployed = None /\ requests = {} /\ outstanding = {} /\ DOMAIN target = 1..MaxFailovers
      /\ DOMAIN workflow = Workflow /\ workflow["teardown"] = "none" /\ workflow["rollout"] = "none"
  BY Names DEF AppInit
<1>2. Typed
  BY <1>1, Names DEF AppInit, Typed, States, Ended
<1>3. ~Accepted /\ ~RouterAccepted /\ Failovers = {}
  BY <1>1, Names DEF Accepted, RouterAccepted, Failovers
<1>4. RouterFollows /\ OneRouter /\ LiveRouterHasReplicas
  <2>1. \A k \in 0..MaxFailovers : state[RouterDeploy(k)] = "none"
    BY <1>1, Names
  <2>2. RouterFollows
    BY <1>3 DEF RouterFollows
  <2>3. OneRouter /\ LiveRouterHasReplicas
    BY <1>1, <2>1, Apart DEF OneRouter, LiveRouterHasReplicas
  <2> QED
    BY <2>2, <2>3
<1>5. DeploysOver /\ DestroysOfTeardown /\ LinkedAll
  <2>1. \A t \in 1..MaxTeardowns, m \in Member : state[Destroy(t, m)] = "none"
    BY <1>1, Names
  <2>2. app.teardowns = 0 /\ ~app.linked
    BY <1>1
  <2> QED
    BY <2>1, <2>2 DEF DeploysOver, DestroysOfTeardown, LinkedAll, Ended
<1>6. AttemptsSound /\ RequestsSound /\ RolloutDone /\ PrimaryIsDeployed
  BY <1>1 DEF AttemptsSound, RequestsSound, RolloutDone, PrimaryIsDeployed
<1> QED
  BY <1>2, <1>4, <1>5, <1>6 DEF RolloutInv

LEMMA RolloutStep == RolloutInv /\ [AppNext]_vars => RolloutInv'
<1> SUFFICES ASSUME RolloutInv, [AppNext]_vars PROVE RolloutInv'
  OBVIOUS
<1>1. CASE Requests
  <2>1. CASE Submit
    BY <2>1, SubmitInv
  <2>2. CASE DispatchApp \/ DispatchTeardown \/ \E k \in 1..MaxFailovers : DispatchFailover(k)
    BY <2>2, DispatchInv
  <2>3. CASE Approve
    BY <2>3, ExecuteMoves, MoveInv DEF Approve
  <2>4. CASE \/ ValidateDestroy \/ \E r \in Replica : ValidateFailover(r)
             \/ \E q \in requests : RefuseRequest(q)
    BY <2>4, RequestInv
  <2>5. CASE \E q \in requests : AcceptFailover(q) \/ AcceptTeardown(q)
    BY <2>5, AcceptFailoverInv, AcceptTeardownInv
  <2> QED
    BY <1>1, <2>1, <2>2, <2>3, <2>4, <2>5 DEF Requests
<1>2. CASE Members
  <2>1. CASE \E o \in Op : ExecuteMember(o) \/ Release(o) \/ Works(o)
    BY <2>1, ExecuteMoves, ReleaseMoves, WorksMoves, MoveInv DEF ExecuteMember
  <2>2. CASE \E m \in Member : StartCheck(m) \/ EndCheck(m)
    BY <2>2, CheckInv
  <2> QED
    BY <1>2, <2>1, <2>2 DEF Members
<1>3. CASE Workflows
  BY <1>3, LoopInv, TriesInv, AcceptRouterInv, AcceptReplicaDestroysInv, FailsInv DEF Workflows
<1>4. CASE UNCHANGED vars
  BY <1>4, QuietInv DEF vars, memberVars, rowVars, RolloutInv, Typed, AttemptsSound, RolloutDone
<1> QED
  BY <1>1, <1>2, <1>3, <1>4 DEF AppNext

\* The invariant that the theorems below rest on.
THEOREM RolloutSound == AppSpec => []RolloutInv
BY RolloutInit, RolloutStep, PTL DEF AppSpec

\* A router that is deployed or on its way finds every replica that it reads
\* from, whenever its acceptance, a failover or a teardown was validated.
THEOREM RouterHasReplicas == AppSpec => []LiveRouterHasReplicas
BY RolloutSound, PTL DEF RolloutInv

\* The primary that an app reports is the one its deployed router was given.
THEOREM ReportedPrimary == AppSpec => []PrimaryIsDeployed
BY RolloutSound, PTL DEF RolloutInv

\* An app that reports "destroyed" has left nothing deployed.
THEOREM NothingLeftBehind == AppSpec => []DestroyedIsGone
<1>1. RolloutInv => DestroyedIsGone
  <2> SUFFICES ASSUME RolloutInv, derive_state = "destroyed", NEW m \in Member
               PROVE  ~Deployed(m)
    BY DEF DestroyedIsGone
  <2>1. app.teardowns > 0
    BY GroupValue DEF derive_state
  <2>2. app.linked /\ \A o \in ReplicaDestroys : state[o] = "succeeded"
    BY <2>1, TeardownValue DEF derive_state
  <2>3. app.teardowns \in 1..MaxTeardowns
    BY <2>1, Names DEF RolloutInv, Typed
  <2>4. CASE m = Router
    BY <2>2, <2>4 DEF RolloutInv, LinkedAll, Deployed
  <2>5. CASE m # Router
    <3>1. m \in Replica
      BY <2>5 DEF Member
    <3>2. state[Destroy(app.teardowns, m)] # "none" => Destroy(app.teardowns, m) \in ReplicaDestroys
      BY <2>3, <2>5, Names DEF ReplicaDestroys, Destroys
    <3> QED
      BY <2>2, <2>3, <2>5, <3>1, <3>2 DEF RolloutInv, LinkedAll, Deployed
  <2> QED
    BY <2>4, <2>5
<1> QED
  BY <1>1, RolloutSound, PTL

\* What the rollout's workflow ended for stays visible.
THEOREM RolloutNotAbandoned == AppSpec => []RolloutEndsForReason
<1>1. RolloutInv => RolloutEndsForReason
  <2> SUFFICES ASSUME RolloutInv, RolloutOver, ~(app.teardowns > 0),
                      state[RouterDeploy(0)] # "succeeded"
               PROVE  check_app \in {"failed", "uncertain"}
    BY DEF RolloutInv, RolloutDone, RolloutEndsForReason, check_app, Over
  <2>1. Failovers = {} /\ current_router = RouterDeploy(0)
    BY DEF RolloutInv, RouterFollows, current_router
  <2>2. \/ app.error
        \/ \E o \in {Deploy(r) : r \in Replica} \cup {i \in {current_router} : state[i] # "none"} :
               state[o] = "failed"
    BY <2>1, Names, Apart DEF RolloutOver, Finished
  <2>3. derive_state \in {"failed", "uncertain"}
    BY <2>2 DEF derive_state
  <2> QED
    BY <2>3 DEF check_app
<1> QED
  BY <1>1, RolloutSound, PTL

\* Only the acceptance of a teardown begins one.
LEMMA TeardownBegins ==
  ASSUME RolloutInv, [AppNext]_vars, app'.teardowns # app.teardowns
  PROVE  \E q \in requests : AcceptTeardown(q)
<1>1. \A a \in outstanding : Fails(a) => app'.teardowns = app.teardowns
  BY DEF Fails, RecordFailure, RolloutInv, Typed
<1>2. \A a \in outstanding : AcceptReplicaDestroys(a) => app'.teardowns = app.teardowns
  BY DEF AcceptReplicaDestroys, RolloutInv, Typed
<1>3. ~Workflows
  BY <1>1, <1>2 DEF Workflows, Looks, TimesOut, Tries, GivesUp, WorkflowEnds, AcceptRouter, RefusedForNow, rowVars
<1>4. ~Members
  BY DEF Members, ExecuteMember, Execute, Release, Works, StartCheck, EndCheck, rowVars
<1>5. Requests
  BY <1>3, <1>4 DEF AppNext, vars, rowVars
<1> QED
  BY <1>5 DEF Requests, Submit, DispatchApp, DispatchTeardown, DispatchFailover, Approve, Execute,
              ValidateDestroy, ValidateFailover, AcceptFailover, RefuseRequest, rowVars

\* A teardown begins only when no operation of the app can still change anything.
THEOREM QuietTeardown == AppSpec => TeardownStartsQuiet
<1>1. RolloutInv /\ [AppNext]_vars =>
          [app'.teardowns # app.teardowns => \A o \in Op : state[o] \notin Unfinished]_vars
  <2> SUFFICES ASSUME RolloutInv, NEW q \in requests, AcceptTeardown(q), NEW o \in Op
               PROVE  state[o] \notin Unfinished
    BY TeardownBegins
  <2>1. NothingInFlight
    BY DEF AcceptTeardown, RolloutInv, RequestsSound, RequestSound
  <2>2. CASE o \in AppOps
    BY <2>1, <2>2, Apart DEF NothingInFlight
  <2>3. CASE o \notin AppOps
    <3>1. o[1] = "deploy" => state[o] = "none"
      BY <2>3 DEF AppOps
    <3>2. ASSUME NEW t \in 1..MaxTeardowns, NEW m \in Member, o = Destroy(t, m)
          PROVE  state[o] \in Ended
      <4>1. t = app.teardowns => state[o] = "none"
        BY <2>3, <3>2, Names DEF AppOps, Destroys
      <4>2. t < app.teardowns \/ t > app.teardowns \/ t = app.teardowns
        BY DEF RolloutInv, Typed
      <4> QED
        BY <3>2, <4>1, <4>2 DEF RolloutInv, DestroysOfTeardown, Ended
    <3> QED
      BY <3>1, <3>2, Kinds, Names, Apart DEF Ended
  <2> QED
    BY <2>2, <2>3
<1> QED
  BY <1>1, RolloutSound, PTL DEF AppSpec, TeardownStartsQuiet

\* Without a teardown an app is only failed for an error, a failed member of the
\* rollout, or a failed router that no failover took the place of.
LEMMA NotFailed ==
  ASSUME Typed, RouterFollows, app.teardowns = 0, ~app.error, state[RouterDeploy(0)] = "succeeded"
  PROVE  derive_state # "failed"
<1>1. state[current_router] # "failed"
  BY CurrentRouter
<1>2. \A r \in Replica : state[Deploy(r)] # "failed"
  BY DEF RouterFollows, RouterAccepted
<1> QED
  BY <1>1, <1>2, GroupValue DEF derive_state

\* A failure is recorded only for a rollout that has no router, and the rollout's
\* router stays what it is.
LEMMA ReadyStep ==
  ASSUME RolloutInv, [AppNext]_vars, app.teardowns = 0, ~app.error, Accepted,
         state[RouterDeploy(0)] = "succeeded"
  PROVE  ~app'.error /\ state'[RouterDeploy(0)] = "succeeded"
<1>1. RouterDeploy(0) \in Op /\ "succeeded" \in Finished /\ RouterAccepted
  BY Names, Apart DEF RouterAccepted
<1>2. ASSUME OpsMove PROVE ~app'.error /\ state'[RouterDeploy(0)] = "succeeded"
  BY <1>1, <1>2, MoveKeeps DEF OpsMove
<1>3. ASSUME NEW ops, Enqueue(ops), RouterDeploy(0) \notin ops
      PROVE  state'[RouterDeploy(0)] = "succeeded"
  BY <1>1, <1>3 DEF Enqueue
<1>4. CASE Requests
  <2>1. CASE Approve
    BY <2>1, <1>2, ExecuteMoves DEF Approve
  <2>2. ASSUME NEW q \in requests, AcceptFailover(q)
        PROVE  ~app'.error /\ state'[RouterDeploy(0)] = "succeeded"
    <3>1. PICK k \in 1..MaxFailovers : Enqueue({RouterDeploy(k)})
      BY <2>2 DEF AcceptFailover
    <3>2. RouterDeploy(0) \notin {RouterDeploy(k)}
      BY Names
    <3> QED
      BY <2>2, <3>1, <3>2, <1>3 DEF AcceptFailover
  <2>3. ASSUME NEW q \in requests, AcceptTeardown(q)
        PROVE  ~app'.error /\ state'[RouterDeploy(0)] = "succeeded"
    <3>1. app'.error = app.error
      BY <2>3 DEF AcceptTeardown, RolloutInv, Typed
    <3>2. RouterDeploy(0) # Destroy(app.teardowns + 1, Router)
      BY DEF RouterDeploy, Destroy
    <3> QED
      BY <2>3, <3>1, <3>2, <1>3 DEF AcceptTeardown
  <2> QED
    BY <1>4, <2>1, <2>2, <2>3
       DEF Requests, Submit, DispatchApp, DispatchTeardown, DispatchFailover, ValidateDestroy,
           ValidateFailover, RefuseRequest, memberVars, rowVars
<1>5. CASE Members
  <2>1. CASE \E o \in Op : ExecuteMember(o) \/ Release(o) \/ Works(o)
    BY <2>1, <1>2, ExecuteMoves, ReleaseMoves, WorksMoves DEF ExecuteMember
  <2> QED
    BY <1>5, <2>1 DEF Members, StartCheck, EndCheck, rowVars
<1>6. CASE Workflows
  <2>1. \A a \in outstanding : AcceptRouter(a) => UNCHANGED <<state, app>>
    BY <1>1 DEF AcceptRouter, RolloutClosed
  <2>2. \A a \in outstanding : ~AcceptReplicaDestroys(a)
    BY DEF AcceptReplicaDestroys, RolloutInv, AttemptsSound, AttemptSound
  <2>3. \A a \in outstanding : Fails(a) => UNCHANGED <<state, app>>
    BY DEF Fails, RecordFailure, FailAppIgnored, FailTeardownIgnored
  <2> QED
    BY <1>6, <2>1, <2>2, <2>3
       DEF Workflows, Looks, TimesOut, Tries, GivesUp, WorkflowEnds, RefusedForNow, memberVars, rowVars
<1> QED
  BY <1>4, <1>5, <1>6 DEF AppNext, vars, memberVars, rowVars

\* Nothing turns a ready app into a failed one.
THEOREM ReadyNeverFails == AppSpec => HealthyAppStays
<1> DEFINE Kept == /\ Typed /\ RouterFollows /\ app.teardowns = 0 /\ ~app.error
                   /\ state[RouterDeploy(0)] = "succeeded"
           Begun == /\ app.teardowns > 0 /\ ~app.linked /\ ~app.stopped
                    /\ \A o \in Destroys : state[o] = "queued"
<1>1. Kept \/ Begun => derive_state # "failed"
  <2>1. Kept => derive_state # "failed"
    BY NotFailed
  <2>2. Begun => derive_teardown_state # "failed"
    BY GroupValue DEF derive_teardown_state
  <2> QED
    BY <2>1, <2>2 DEF derive_state
<1>2. (Kept \/ Begun => derive_state # "failed")'
  BY <1>1, PTL
<1>3. RolloutInv /\ RolloutInv' /\ [AppNext]_vars =>
          [Accepted /\ derive_state = "ready" => derive_state' # "failed"]_vars
  <2> SUFFICES ASSUME RolloutInv, RolloutInv', [AppNext]_vars, Accepted, derive_state = "ready"
               PROVE  derive_state' # "failed"
    OBVIOUS
  <2>1. /\ app.teardowns = 0 /\ ~app.error /\ state[RouterDeploy(0)] = "succeeded"
        /\ ~app'.error /\ state'[RouterDeploy(0)] = "succeeded"
    BY ReadyApp, ReadyStep DEF RolloutInv
  <2>2. CASE app'.teardowns = 0
    BY <1>2, <2>1, <2>2 DEF RolloutInv
  <2>3. CASE app'.teardowns # 0
    <3>1. PICK q \in requests : AcceptTeardown(q)
      BY <2>1, <2>3, TeardownBegins
    <3>2. app' = [app EXCEPT !.teardowns = @ + 1, !.linked = FALSE, !.stopped = FALSE]
      BY <3>1 DEF AcceptTeardown
    <3>3. app'.teardowns = 1 /\ ~app'.linked /\ ~app'.stopped
      BY <2>1, <3>2 DEF RolloutInv, Typed
    <3>4. \A o \in Op : state'[o] = state[o] \/ state'[o] = "queued"
      BY <3>1 DEF AcceptTeardown, Enqueue
    <3>5. \A o \in Destroys' : state'[o] = "queued"
      <4> SUFFICES ASSUME NEW o \in Op, o[1] = "destroy", o[2] = 1, state'[o] # "none"
                   PROVE  state'[o] = "queued"
        BY <3>3 DEF Destroys
      <4>1. PICK t \in 1..MaxTeardowns, m \in Member : o = Destroy(t, m)
        BY Kinds, Names
      <4>2. state[o] = "none"
        BY <2>1, <4>1, Names DEF RolloutInv, DestroysOfTeardown
      <4> QED
        BY <3>4, <4>2
    <3> QED
      BY <1>2, <3>3, <3>5
  <2> QED
    BY <2>2, <2>3
<1> QED
  BY <1>3, RolloutSound, PTL DEF AppSpec, HealthyAppStays
=============================================================================
