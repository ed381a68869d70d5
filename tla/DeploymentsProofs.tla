------------------------- MODULE DeploymentsProofs -------------------------
(***************************************************************************)
(* Theorems about Deployments, for any deployments, specs, costs, budget,  *)
(* workers, requests at a time and bounds, and for one API process: with   *)
(* two, both can pass the state check of the same record before either     *)
(* writes it.  The code is deployed with one (compose.yaml starts one      *)
(* uvicorn process; docs/agent-architecture.md: "independent stateless     *)
(* replicas are unsupported").                                             *)
(***************************************************************************)
EXTENDS Deployments, NumberLemmas

OneProcess == \A p, q \in Request : Server[p] = Server[q]

-----------------------------------------------------------------------------
(* Types                                                                    *)

Step == {"closed", "plan", "apply", "destroy", "mark"}
Working == {"loaded", "planning", "planned", "ready", "running", "applied"}
State == IN_FLIGHT \cup {"none", "succeeded", "failed", "destroyed"}

\* What a request holds a spec for.
Placing == Asked \ {"update"}

DiskRow == [plan : Spec \cup {None}, stamp : Spec \cup {None}]

RequestRow == [kind : Asked \cup {"idle", "start deploy", "start destroy"},
               home : Deployment \cup {None}, spec : Spec \cup {None}]

JobRow == [home : Deployment \cup {None}, step : Step,
           activity : Working \cup {"none", "done", "lost"},
           doing : {"none", "plan", "apply", "destroy"},
           spec : Spec \cup {None}, on : Worker \cup {None}]

\* A run that is not there is NoJob; an activity belongs to a run on a worker.
Placed(row) ==
    /\ row.home = None => row = NoJob
    /\ row.activity # "none" =>
           row.home # None /\ row.doing # "none" /\ row.spec # None /\ row.on # None

TypeOK ==
    /\ record \in [Deployment -> [state : State, spec : Spec]]
    /\ request \in [Request -> RequestRow]
    /\ agreed \in [Deployment -> Spec]
    /\ \A q \in Request : /\ request[q].kind # "idle" => request[q].home # None
                          /\ request[q].kind \in Placing => request[q].spec # None
    /\ job \in [Job -> JobRow]
    /\ \A j \in Job : Placed(job[j])
    /\ saved \in [Worker -> [Deployment -> DiskRow]]
    /\ infra \in [Deployment -> Spec \cup {None, "partial"}]
    /\ listed \subseteq Deployment
    /\ abandoned \subseteq Deployment

\* The row of a run that goes on.
Went(row, step, activity) ==
    IF activity # "none" THEN [row EXCEPT !.step = step, !.activity = activity]
    ELSE IF step = "closed" THEN NoJob
    ELSE [NoJob EXCEPT !.home = row.home, !.step = step]

LEMMA Tables ==
    /\ DOMAIN Doing = {"plan", "apply", "destroy"}
    /\ Doing["plan"] = "planning" /\ Doing["apply"] = "applying" /\ Doing["destroy"] = "destroying"
    /\ DOMAIN Next_step = {"plan", "apply", "destroy"}
    /\ Next_step["plan"] = "apply" /\ Next_step["apply"] = "closed"
    /\ Next_step["destroy"] = "closed"
    /\ \A s \in DOMAIN Doing : Doing[s] \in IN_FLIGHT
BY DEF Doing, Next_step, IN_FLIGHT

LEMMA NoJobTyped ==
    /\ NoJob \in JobRow /\ Placed(NoJob)
    /\ NoJob.home = None /\ NoJob.step = "closed" /\ NoJob.activity = "none"
    /\ None \notin Spec /\ None \notin Deployment /\ None \notin Worker
BY SpecAssumption DEF NoJob, JobRow, Placed, Step

LEMMA GoesWent ==
    ASSUME TypeOK, NEW j \in Job, NEW step, NEW activity, Goes(j, step, activity)
    PROVE  job' = [job EXCEPT ![j] = Went(job[j], step, activity)]
BY DEF Goes, Went, TypeOK

LEMMA WentTyped ==
    ASSUME NEW row \in JobRow, Placed(row), row.home # None, NEW step \in Step,
           NEW activity \in Working \cup {"none", "done", "lost"},
           activity # "none" => row.activity # "none"
    PROVE  LET went == Went(row, step, activity)
           IN  /\ went \in JobRow /\ Placed(went)
               /\ went.home = IF activity = "none" /\ step = "closed" THEN None ELSE row.home
               /\ went.step = step /\ went.activity = activity
               /\ activity # "none" => /\ went.doing = row.doing /\ went.spec = row.spec
                                       /\ went.on = row.on
<1>1. CASE activity # "none"
  BY <1>1, NoJobTyped DEF Went, JobRow, Placed
<1>2. CASE activity = "none" /\ step = "closed"
  BY <1>2, NoJobTyped DEF Went
<1>3. CASE activity = "none" /\ step # "closed"
  BY <1>3, NoJobTyped DEF Went, JobRow, Placed, NoJob
<1> QED
  BY <1>1, <1>2, <1>3

LEMMA RowTyped ==
    ASSUME TypeOK, NEW j \in Job, NEW row \in JobRow, Placed(row),
           job' = [job EXCEPT ![j] = row]
    PROVE  job' \in [Job -> JobRow] /\ \A k \in Job : Placed(job'[k])
BY DEF TypeOK

\* The row with other entries.
LEMMA EditTyped ==
    ASSUME NEW row \in JobRow, Placed(row), row.home # None,
           NEW activity \in Working \cup {"done", "lost"},
           NEW doing \in {"plan", "apply", "destroy"},
           NEW spec \in Spec, NEW w \in Worker
    PROVE  LET new == [row EXCEPT !.activity = activity, !.doing = doing, !.spec = spec, !.on = w]
           IN  /\ new \in JobRow /\ Placed(new)
BY NoJobTyped DEF JobRow, Placed

\* What a job has once its activity is loaded, and while its workflow is open.
LEMMA Employed ==
    ASSUME TypeOK, NEW j \in Job
    PROVE  /\ job[j] \in JobRow /\ Placed(job[j])
           /\ job[j].step # "closed" => job[j].home \in Deployment
           /\ job[j].activity # "none" => /\ job[j].home \in Deployment
                                          /\ job[j].on \in Worker /\ job[j].spec \in Spec
                                          /\ job[j].doing \in {"plan", "apply", "destroy"}
BY NoJobTyped DEF TypeOK, JobRow, Placed

\* The first field of a request, and the state of a record.
LEMMA Asks ==
    ASSUME TypeOK, NEW q \in Request
    PROVE  /\ request[q] \in RequestRow
           /\ request[q].kind # "idle" => request[q].home \in Deployment
           /\ request[q].kind \in Placing => request[q].spec \in Spec
BY DEF TypeOK, RequestRow

RequestsTyped(table) ==
    /\ table \in [Request -> RequestRow]
    /\ \A q \in Request : /\ table[q].kind # "idle" => table[q].home # None
                          /\ table[q].kind \in Placing => table[q].spec # None

LEMMA AskTyped ==
    ASSUME TypeOK, NEW q \in Request, NEW kind \in Asked \cup {"start deploy", "start destroy"},
           NEW d \in Deployment, NEW spec \in Spec \cup {None}, spec = None => kind \notin Placing
    PROVE  RequestsTyped([request EXCEPT ![q] = [kind |-> kind, home |-> d, spec |-> spec]])
BY NoJobTyped DEF TypeOK, RequestRow, RequestsTyped

\* A request that goes on is for the same deployment.
LEMMA ReachesTyped ==
    ASSUME TypeOK, NEW q \in Request, NEW kind \in Asked \cup {"start deploy", "start destroy"},
           NEW spec \in Spec \cup {None}, spec = None => kind \notin Placing,
           request[q].kind # "idle", Reaches(q, kind, spec)
    PROVE  /\ RequestsTyped(request')
           /\ request'[q] = [kind |-> kind, home |-> request[q].home, spec |-> spec]
           /\ \A p \in Request : p # q => request'[p] = request[p]
<1> DEFINE row == [kind |-> kind, home |-> request[q].home, spec |-> spec]
<1>1. request[q] \in RequestRow /\ request[q].home \in Deployment /\ request \in [Request -> RequestRow]
  BY Asks DEF TypeOK
<1>2. request' = [request EXCEPT ![q] = row]
  BY DEF Reaches
<1>3. RequestsTyped([request EXCEPT ![q] = row])
  BY <1>1, AskTyped
<1> QED
  BY <1>1, <1>2, <1>3

LEMMA AnsweredTyped ==
    ASSUME TypeOK, NEW q \in Request, Answered(q)
    PROVE  RequestsTyped(request')
BY NoJobTyped DEF TypeOK, RequestRow, RequestsTyped, Answered, Idle, Asked, Placing

LEMMA StoppedTyped ==
    ASSUME TypeOK, NEW q \in Request, ApiStops(q)
    PROVE  RequestsTyped(request')
<1>1. CASE Answered(q)
  BY <1>1, AnsweredTyped
<1>2. CASE request' = [p \in Request |-> IF Server[p] = Server[q] THEN Idle ELSE request[p]]
  BY <1>2, NoJobTyped DEF TypeOK, RequestRow, RequestsTyped, Idle, Asked, Placing
<1> QED
  BY <1>1, <1>2 DEF ApiStops

LEMMA WrittenTyped ==
    ASSUME TypeOK, NEW d \in Deployment, NEW state \in State
    PROVE  /\ Written(d, state) \in [Deployment -> [state : State, spec : Spec]]
           /\ Written(d, state)[d] = [state |-> state, spec |-> record[d].spec]
           /\ \A e \in Deployment : e # d => Written(d, state)[e] = record[e]
<1> DEFINE row == [state |-> state, spec |-> record[d].spec]
<1>1. record \in [Deployment -> [state : State, spec : Spec]]
  BY DEF TypeOK
<1>2. record[d] \in [state : State, spec : Spec]
  BY <1>1
<1>3. [record[d] EXCEPT !.state = state] = row /\ row \in [state : State, spec : Spec]
  BY <1>2
<1>4. Written(d, state) = [record EXCEPT ![d] = row]
  BY <1>1, <1>3 DEF Written
<1> HIDE DEF row
<1>5. Written(d, state)[d] = row /\ \A e \in Deployment : e # d => Written(d, state)[e] = record[e]
  BY <1>1, <1>4
<1>6. Written(d, state) \in [Deployment -> [state : State, spec : Spec]]
  BY <1>1, <1>3, <1>4
<1> QED
  BY <1>5, <1>6 DEF row

\* What a request stores: its spec, with the state the record has or gets.
LEMMA SpecWritten ==
    ASSUME TypeOK, NEW d \in Deployment, NEW spec \in Spec,
           NEW state \in State,
           \/ record' = [record EXCEPT ![d] = [state |-> state, spec |-> spec]]
           \/ state = record[d].state /\ record' = [record EXCEPT ![d].spec = spec]
    PROVE  /\ record' \in [Deployment -> [state : State, spec : Spec]]
           /\ record'[d] = [state |-> state, spec |-> spec]
           /\ \A e \in Deployment : e # d => record'[e] = record[e]
<1>1. record \in [Deployment -> [state : State, spec : Spec]]
  BY DEF TypeOK
<1>2. record[d] \in [state : State, spec : Spec]
  BY <1>1
<1>3. record' = [record EXCEPT ![d] = [state |-> state, spec |-> spec]]
  BY <1>1, <1>2
<1> QED
  BY <1>1, <1>3

\* A new run is in the first step of its workflow.
NewRun(d, kind) ==
    [NoJob EXCEPT !.home = d, !.step = IF kind = "start deploy" THEN "plan" ELSE "destroy"]

LEMMA StartsRun ==
    ASSUME TypeOK, NEW q \in Request, request[q].home \in Deployment, Start(q)
    PROVE  \E j \in Job : /\ job[j] = NoJob
                          /\ job' = [job EXCEPT ![j] = NewRun(request[q].home, request[q].kind)]
BY DEF Start, NewRun

LEMMA NewRunTyped ==
    ASSUME NEW d \in Deployment, NEW kind
    PROVE  LET run == NewRun(d, kind)
           IN  /\ run \in JobRow /\ Placed(run) /\ run.home = d /\ run.activity = "none"
               /\ run.step \in {"plan", "destroy"}
BY NoJobTyped DEF NewRun, JobRow, Placed, NoJob, Step

\* What an activity changes beside its own row and its record.
LEMMA DisksTyped ==
    ASSUME TypeOK, NEW w \in Worker, NEW d \in Deployment, NEW disk \in DiskRow,
           saved' = [saved EXCEPT ![w][d] = disk]
    PROVE  /\ saved' \in [Worker -> [Deployment -> DiskRow]]
           /\ saved'[w][d] = disk
           /\ \A v \in Worker : v # w => saved'[v] = saved[v]
           /\ \A e \in Deployment : e # d => saved'[w][e] = saved[w][e]
BY DEF TypeOK

LEMMA DiskTyped ==
    ASSUME TypeOK, NEW w \in Worker, NEW d \in Deployment
    PROVE  /\ saved[w][d] \in DiskRow /\ NoPlan \in DiskRow
           /\ NoPlan.plan = None /\ NoPlan.stamp = None
           /\ \A x \in Spec \cup {None} :
                  /\ [saved[w][d] EXCEPT !.plan = x] \in DiskRow
                  /\ [saved[w][d] EXCEPT !.plan = x].plan = x
                  /\ [saved[w][d] EXCEPT !.plan = x].stamp = saved[w][d].stamp
                  /\ [saved[w][d] EXCEPT !.stamp = x] \in DiskRow
                  /\ [saved[w][d] EXCEPT !.stamp = x].stamp = x
                  /\ [saved[w][d] EXCEPT !.stamp = x].plan = saved[w][d].plan
BY DEF TypeOK, DiskRow, NoPlan

\* Type correctness, one step per action.
LEMMA TypeStep ==
    ASSUME TypeOK, [Next]_vars
    PROVE  TypeOK'
<1>0. /\ record \in [Deployment -> [state : State, spec : Spec]]
      /\ agreed \in [Deployment -> Spec]
      /\ RequestsTyped(request)
      /\ job \in [Job -> JobRow] /\ \A j \in Job : Placed(job[j])
      /\ saved \in [Worker -> [Deployment -> DiskRow]]
      /\ infra \in [Deployment -> Spec \cup {None, "partial"}]
      /\ listed \subseteq Deployment /\ abandoned \subseteq Deployment
  BY DEF TypeOK, RequestsTyped
<1>u. SUFFICES /\ record' \in [Deployment -> [state : State, spec : Spec]]
               /\ agreed' \in [Deployment -> Spec]
               /\ RequestsTyped(request')
               /\ job' \in [Job -> JobRow] /\ \A j \in Job : Placed(job'[j])
               /\ saved' \in [Worker -> [Deployment -> DiskRow]]
               /\ infra' \in [Deployment -> Spec \cup {None, "partial"}]
               /\ listed' \subseteq Deployment /\ abandoned' \subseteq Deployment
  BY DEF TypeOK, RequestsTyped
<1>s. \A s \in {"accepted", "planning", "applying", "destroying", "none", "succeeded", "failed",
                "destroyed"} : s \in State
  BY DEF State, IN_FLIGHT
<1>a. \A d \in Deployment : \A k : Abandons(d, k) \in {abandoned, abandoned \cup {d}}
  BY DEF Abandons
<1>1. CASE UNCHANGED vars
  BY <1>0, <1>1 DEF vars
<1>2. ASSUME NEW q \in Request, NEW d \in Deployment,
             \/ create_deployment(q, d) \/ retry_deployment(q, d)
             \/ update_deployment(q, d) \/ destroy_deployment(q, d)
      PROVE  /\ RequestsTyped(request')
             /\ UNCHANGED <<record, agreed, job, saved, lock, infra, listed, abandoned>>
  <2>1. record[d].spec \in Spec
    BY <1>0
  <2>2. PICK kind \in Asked, spec \in Spec \cup {None} :
            Ask(q, kind, d, spec) /\ (spec = None => kind \notin Placing)
    BY <1>2, <2>1, NoJobTyped
       DEF create_deployment, retry_deployment, update_deployment, destroy_deployment, Asked, Placing
  <2> QED
    BY <2>2, AskTyped DEF Ask
<1>3. ASSUME NEW q \in Request, Create(q) \/ Respec(q) \/ Accept(q)
      PROVE  /\ record' \in [Deployment -> [state : State, spec : Spec]]
             /\ agreed' \in [Deployment -> Spec]
             /\ RequestsTyped(request')
             /\ UNCHANGED <<job, saved, lock, infra, listed, abandoned>>
  <2> DEFINE r == request[q]
  <2>1. r.kind \in Placing /\ r.kind # "idle" /\ r.home \in Deployment /\ r.spec \in Spec
    BY <1>3, Asks DEF Create, Respec, Accept, Asked, Placing
  <2>2. record[r.home].state \in State
    BY <1>0, <2>1
  <2>3. agreed' \in [Deployment -> Spec]
    BY <1>0, <1>3, <2>1 DEF Create, Respec, Accept
  <2>4. CASE Create(q)
    <3>1. record' \in [Deployment -> [state : State, spec : Spec]]
      BY <1>s, <2>1, <2>4, SpecWritten DEF Create
    <3>2. RequestsTyped(request')
      BY <2>1, <2>4, NoJobTyped, ReachesTyped DEF Create, Asked
    <3> QED
      BY <2>3, <2>4, <3>1, <3>2 DEF Create
  <2>5. CASE Respec(q)
    <3>1. record' \in [Deployment -> [state : State, spec : Spec]]
      BY <2>1, <2>2, <2>5, SpecWritten DEF Respec
    <3> DEFINE kind == IF r.kind = "retry" THEN "respecced" ELSE "updated"
    <3>2. Reaches(q, kind, r.spec) /\ kind \in Asked
      BY <2>5 DEF Respec, Asked
    <3> HIDE DEF kind
    <3>3. RequestsTyped(request')
      BY <2>1, <3>2, NoJobTyped, ReachesTyped
    <3> QED
      BY <2>3, <2>5, <3>1, <3>3 DEF Respec
  <2>6. CASE Accept(q)
    <3> DEFINE state == IF r.kind = "destroy" THEN "destroying" ELSE "accepted"
               kind == IF r.kind = "destroy" THEN "start destroy" ELSE "start deploy"
    <3>1. /\ record' = Written(r.home, state) /\ Reaches(q, kind, None)
          /\ state \in State /\ kind \in {"start deploy", "start destroy"} /\ kind \notin Placing
      BY <1>s, <2>6 DEF Accept, Asked, Placing
    <3> HIDE DEF state, kind
    <3>2. record' \in [Deployment -> [state : State, spec : Spec]]
      BY <2>1, <3>1, WrittenTyped
    <3>3. RequestsTyped(request')
      BY <2>1, <3>1, ReachesTyped
    <3> QED
      BY <2>3, <2>6, <3>2, <3>3 DEF Accept
  <2> QED
    BY <1>3, <2>4, <2>5, <2>6
<1>4. ASSUME NEW q \in Request, Revalidate(q) \/ Audited(q) \/ AuditUnavailable(q)
      PROVE  /\ record' \in [Deployment -> [state : State, spec : Spec]]
             /\ RequestsTyped(request')
             /\ UNCHANGED <<agreed, job, saved, lock, infra, listed, abandoned>>
  <2>1. request[q].kind # "idle" /\ request[q].home \in Deployment
    BY <1>4, Asks DEF Revalidate, Audited, AuditUnavailable
  <2>2. CASE Revalidate(q)
    <3>1. PICK spec \in Spec : Reaches(q, "respec", spec)
      BY <2>2 DEF Revalidate
    <3> QED
      BY <1>0, <2>1, <2>2, <3>1, NoJobTyped, ReachesTyped DEF Revalidate, Asked
  <2>3. CASE Audited(q)
    BY <1>0, <2>1, <2>3, ReachesTyped DEF Audited, Asked, Placing
  <2>4. CASE AuditUnavailable(q)
    <3>1. record' = record \/ record' = Written(request[q].home, "failed")
      BY <2>4 DEF AuditUnavailable
    <3>2. record' \in [Deployment -> [state : State, spec : Spec]]
      <4>1. "failed" \in State
        BY <1>s
      <4>2. Written(request[q].home, "failed") \in [Deployment -> [state : State, spec : Spec]]
        BY <2>1, <4>1, WrittenTyped
      <4>3. CASE record' = record
        BY <1>0, <4>3
      <4> QED
        BY <3>1, <4>2, <4>3
    <3> QED
      BY <2>4, <3>2, AnsweredTyped DEF AuditUnavailable
  <2> QED
    BY <1>4, <2>2, <2>3, <2>4
<1>5. ASSUME NEW q \in Request, Dispatch(q) \/ DispatchFails(q) \/ ApiStops(q)
      PROVE  /\ record' \in [Deployment -> [state : State, spec : Spec]]
             /\ RequestsTyped(request')
             /\ job' \in [Job -> JobRow] /\ \A j \in Job : Placed(job'[j])
             /\ abandoned' \subseteq Deployment
             /\ UNCHANGED <<agreed, saved, infra, listed>>
  <2>1. request[q].kind # "idle" => request[q].home \in Deployment
    BY Asks
  <2>2. ASSUME Start(q), request[q].home \in Deployment
        PROVE  job' \in [Job -> JobRow] /\ \A j \in Job : Placed(job'[j])
    BY <2>2, StartsRun, NewRunTyped, RowTyped
  <2>3. CASE Dispatch(q)
    BY <1>0, <2>1, <2>2, <2>3, AnsweredTyped DEF Dispatch, Starting
  <2>4. CASE DispatchFails(q)
    <3>1. record' = Written(request[q].home, "failed") /\ request[q].home \in Deployment
      BY <2>1, <2>4 DEF DispatchFails, Starting
    <3>2. record' \in [Deployment -> [state : State, spec : Spec]]
      BY <1>s, <3>1, WrittenTyped
    <3> QED
      BY <1>0, <2>2, <2>4, <3>1, <3>2, AnsweredTyped DEF DispatchFails
  <2>5. CASE ApiStops(q)
    BY <1>0, <2>5, StoppedTyped DEF ApiStops
  <2> QED
    BY <1>5, <2>3, <2>4, <2>5
<1>6. ASSUME NEW j \in Job, NEW w \in Worker, Load(j, w)
      PROVE  /\ record' \in [Deployment -> [state : State, spec : Spec]]
             /\ job' \in [Job -> JobRow] /\ \A k \in Job : Placed(job'[k])
             /\ UNCHANGED <<agreed, request, saved, infra, listed, abandoned>>
  <2> DEFINE d == job[j].home
             step == job[j].step
             row == [job[j] EXCEPT !.activity = "loaded", !.doing = step, !.spec = record[d].spec,
                                   !.on = w]
  <2>1. step \in {"plan", "apply", "destroy"} /\ d \in Deployment /\ Doing[step] \in State
    BY <1>6, Tables, Employed DEF Load, State
  <2>2. row \in JobRow /\ Placed(row)
    BY <1>0, <2>1, NoJobTyped, EditTyped DEF Working
  <2>3. job' = [job EXCEPT ![j] = row] /\ record' = Written(d, Doing[step])
    BY <1>0, <1>6 DEF Load
  <2>4. record' \in [Deployment -> [state : State, spec : Spec]]
    BY <2>1, <2>3, WrittenTyped
  <2> HIDE DEF row
  <2> QED
    BY <1>6, <2>2, <2>3, <2>4, RowTyped DEF Load
<1>7. ASSUME NEW j \in Job,
             \/ Plan(j) \/ Planned(j) \/ Stamp(j) \/ Apply(j) \/ Destroy(j) \/ Applied(j) \/ Report(j)
      PROVE  /\ record' \in [Deployment -> [state : State, spec : Spec]]
             /\ job' \in [Job -> JobRow] /\ \A k \in Job : Placed(job'[k])
             /\ saved' \in [Worker -> [Deployment -> DiskRow]]
             /\ infra' \in [Deployment -> Spec \cup {None, "partial"}]
             /\ abandoned' \subseteq Deployment
             /\ UNCHANGED <<agreed, request, listed>>
  <2>1. /\ job[j] \in JobRow /\ Placed(job[j]) /\ job[j].home \in Deployment
        /\ job[j].on \in Worker /\ job[j].spec \in Spec
        /\ job[j].doing \in {"plan", "apply", "destroy"}
    BY <1>7, Employed DEF Plan, Planned, Stamp, Apply, Destroy, Applied, Report
  <2>d. /\ Disk(j) \in DiskRow /\ NoPlan \in DiskRow
        /\ \A x \in Spec \cup {None} : /\ [Disk(j) EXCEPT !.plan = x] \in DiskRow
                                       /\ [Disk(j) EXCEPT !.stamp = x] \in DiskRow
        /\ \A disk \in DiskRow : Keeps(j, disk) => saved' \in [Worker -> [Deployment -> DiskRow]]
    BY <2>1, DiskTyped, DisksTyped DEF Disk, Keeps
  <2>2. ASSUME NEW activity \in Working \cup {"done", "lost"}, NEW spec \in Spec,
               job' = [job EXCEPT ![j] = [job[j] EXCEPT !.activity = activity, !.spec = spec]]
        PROVE  job' \in [Job -> JobRow] /\ \A k \in Job : Placed(job'[k])
    <3> DEFINE row == [job[j] EXCEPT !.activity = activity, !.spec = spec]
    <3>1. row = [job[j] EXCEPT !.activity = activity, !.doing = job[j].doing, !.spec = spec,
                               !.on = job[j].on]
      BY <2>1 DEF JobRow
    <3>2. job[j].home # None
      BY <2>1, NoJobTyped
    <3>3. LET new == [job[j] EXCEPT !.activity = activity, !.doing = job[j].doing, !.spec = spec,
                                    !.on = job[j].on]
          IN  new \in JobRow /\ Placed(new)
      BY <2>1, <3>2, EditTyped
    <3>4. row \in JobRow /\ Placed(row)
      BY <3>1, <3>3
    <3> HIDE DEF row
    <3>5. job' = [job EXCEPT ![j] = row]
      BY <2>2 DEF row
    <3> QED
      BY <3>4, <3>5, RowTyped
  <2>3. ASSUME NEW activity \in Working \cup {"done", "lost"},
               job' = [job EXCEPT ![j].activity = activity]
        PROVE  job' \in [Job -> JobRow] /\ \A k \in Job : Placed(job'[k])
    <3>1. [job[j] EXCEPT !.activity = activity]
             = [job[j] EXCEPT !.activity = activity, !.spec = job[j].spec]
      BY <2>1 DEF JobRow
    <3>2. job' = [job EXCEPT ![j] = [job[j] EXCEPT !.activity = activity, !.spec = job[j].spec]]
      BY <1>0, <2>3, <3>1
    <3> QED
      BY <2>1, <2>2, <3>2
  <2>4. CASE Plan(j)
    BY <1>0, <2>3, <2>4, <2>d DEF Plan, Prepares, Working
  <2>5. CASE Destroy(j)
    BY <1>0, <2>3, <2>5, <2>d DEF Destroy, Prepares, Working
  <2>6. CASE Planned(j)
    BY <1>0, <2>1, <2>3, <2>6, <2>d DEF Planned, Working
  <2>7. CASE Stamp(j)
    BY <1>0, <2>1, <2>3, <2>7, <2>d DEF Stamp, Working
  <2>8. CASE Apply(j)
    <3> DEFINE plan == Disk(j).plan
    <3>1. plan \in Spec
      BY <2>d, <2>8 DEF Apply, DiskRow
    <3>2. job' = [job EXCEPT ![j] = [job[j] EXCEPT !.activity = "running", !.spec = plan]]
      BY <1>0, <2>8 DEF Apply
    <3> HIDE DEF plan
    <3> QED
      BY <1>0, <2>2, <2>8, <3>1, <3>2 DEF Apply, Working
  <2>9. CASE Applied(j)
    <3>1. infra' \in [Deployment -> Spec \cup {None, "partial"}]
      BY <1>0, <2>1, <2>9 DEF Applied
    <3> QED
      BY <1>0, <2>3, <2>9, <3>1 DEF Applied, Working
  <2>10. CASE Report(j)
    <3>1. record' \in [Deployment -> [state : State, spec : Spec]]
      <4>1. PICK state \in State : record' = Written(job[j].home, state)
        BY <1>s, <2>10 DEF Report
      <4> QED
        BY <2>1, <4>1, WrittenTyped
    <3>2. saved' \in [Worker -> [Deployment -> DiskRow]] /\ abandoned' \subseteq Deployment
      <4>1. (UNCHANGED saved \/ Keeps(j, NoPlan)) /\ abandoned' = Abandons(job[j].home, j)
        BY <2>10 DEF Report
      <4>2. saved' \in [Worker -> [Deployment -> DiskRow]]
        BY <1>0, <2>d, <4>1
      <4>3. Abandons(job[j].home, j) \in {abandoned, abandoned \cup {job[j].home}}
        BY <1>a, <2>1
      <4>4. abandoned' \subseteq Deployment
        BY <1>0, <2>1, <4>1, <4>3
      <4> QED
        BY <4>2, <4>4
    <3> QED
      BY <1>0, <2>3, <2>10, <3>1, <3>2 DEF Report
  <2> QED
    BY <1>7, <2>4, <2>5, <2>6, <2>7, <2>8, <2>9, <2>10
<1>8. ASSUME NEW j \in Job, Fail(j) \/ WorkerStops(j) \/ Ack(j) \/ Timeout(j) \/ mark_failed(j)
      PROVE  /\ record' \in [Deployment -> [state : State, spec : Spec]]
             /\ job' \in [Job -> JobRow] /\ \A k \in Job : Placed(job'[k])
             /\ saved' \in [Worker -> [Deployment -> DiskRow]]
             /\ infra' \in [Deployment -> Spec \cup {None, "partial"}]
             /\ abandoned' \subseteq Deployment
             /\ UNCHANGED <<agreed, request, listed>>
  <2>1. job[j].home \in Deployment /\ job[j] \in JobRow /\ Placed(job[j])
    BY <1>8, Tables, Employed DEF Fail, WorkerStops, Ack, Timeout, mark_failed, AtWork
  <2>2. ASSUME NEW step \in Step, NEW activity \in Working \cup {"none", "done", "lost"},
               activity # "none" => job[j].activity # "none", Goes(j, step, activity)
        PROVE  job' \in [Job -> JobRow] /\ \A k \in Job : Placed(job'[k])
    <3> DEFINE row == Went(job[j], step, activity)
    <3>1. row \in JobRow /\ Placed(row) /\ job' = [job EXCEPT ![j] = row]
      BY <2>1, <2>2, NoJobTyped, GoesWent, WentTyped
    <3> HIDE DEF row
    <3> QED
      BY <3>1, RowTyped
  <2>3. Touched(j) => infra' \in [Deployment -> Spec \cup {None, "partial"}]
    BY <1>0, <2>1 DEF Touched
  <2>l. Leaves(j) => saved' \in [Worker -> [Deployment -> DiskRow]]
    <3>1. CASE UNCHANGED saved
      BY <1>0, <3>1
    <3>2. ASSUME job[j].activity = "applied", NEW disk \in {NoPlan, [Disk(j) EXCEPT !.plan = None]},
                 Keeps(j, disk)
          PROVE  saved' \in [Worker -> [Deployment -> DiskRow]]
      <4>1. job[j].on \in Worker
        BY <3>2, Employed
      <4>2. disk \in DiskRow
        <5>1. NoPlan \in DiskRow /\ [Disk(j) EXCEPT !.plan = None] \in DiskRow
          BY <2>1, <4>1, DiskTyped DEF Disk
        <5> QED
          BY <3>2, <5>1
      <4> QED
        BY <2>1, <3>2, <4>1, <4>2, DisksTyped DEF Keeps
    <3> QED
      BY <3>1, <3>2 DEF Leaves
  <2>4. job[j].activity \in Working \cup {"none", "done", "lost"} /\ job[j].step \in Step
    BY <2>1 DEF JobRow
  <2>5. CASE Fail(j)
    <3>1. PICK step \in Step : Goes(j, step, "none")
      BY <2>5 DEF Fail, Step
    <3> QED
      BY <1>0, <2>2, <2>3, <2>5, <2>l, <3>1 DEF Fail
  <2>6. CASE WorkerStops(j)
    BY <1>0, <2>1, <2>2, <2>3, <2>4, <2>6, <2>l DEF WorkerStops, AtWork
  <2>7. CASE Ack(j)
    <3>1. PICK step \in Step : Goes(j, step, "none")
      BY <2>4, <2>7, Tables DEF Ack, Step
    <3> QED
      BY <1>0, <2>2, <2>7, <3>1 DEF Ack
  <2>8. CASE Timeout(j)
    <3>1. PICK activity \in Working \cup {"none", "done", "lost"} :
              (activity # "none" => job[j].activity # "none") /\ Goes(j, "mark", activity)
      BY <2>4, <2>8 DEF Timeout, AtWork
    <3>2. job' \in [Job -> JobRow] /\ \A k \in Job : Placed(job'[k])
      BY <2>2, <3>1 DEF Step
    <3> QED
      BY <1>0, <2>1, <2>8, <3>2 DEF Timeout
  <2>9. CASE mark_failed(j)
    <3>1. job' \in [Job -> JobRow] /\ \A k \in Job : Placed(job'[k])
      BY <1>0, <2>2, <2>4, <2>9 DEF mark_failed, Step
    <3>2. record' \in [Deployment -> [state : State, spec : Spec]]
      BY <1>s, <2>1, <2>9, WrittenTyped DEF mark_failed, TypeOK
    <3>3. abandoned' \subseteq Deployment
      BY <1>0, <1>a, <2>1, <2>9 DEF mark_failed
    <3> QED
      BY <1>0, <2>9, <3>1, <3>2, <3>3 DEF mark_failed
  <2> QED
    BY <1>8, <2>5, <2>6, <2>7, <2>8, <2>9
<1>9. ASSUME NEW d \in Deployment, List(d) \/ sweep(d)
      PROVE  /\ record' \in [Deployment -> [state : State, spec : Spec]]
             /\ listed' \subseteq Deployment /\ abandoned' \subseteq Deployment
             /\ UNCHANGED <<agreed, request, job, saved, infra>>
  <2>1. ASSUME sweep(d) PROVE record' \in [Deployment -> [state : State, spec : Spec]]
    <3>1. record' = Written(d, "failed") /\ "failed" \in State
      BY <1>s, <2>1 DEF sweep
    <3> QED
      BY <3>1, WrittenTyped
  <2> QED
    BY <1>0, <1>9, <1>a, <2>1 DEF List, sweep
<1> QED
  BY <1>0, <1>1, <1>2, <1>3, <1>4, <1>5, <1>6, <1>7, <1>8, <1>9
     DEF Next, Api, Ask_any, Activity, Workflow, Recovery

-----------------------------------------------------------------------------
(* What is kept of a deployment that nobody abandoned                       *)

\* The request has read the record at rest, and has not put it in flight.
Pending(q, d) == request[q].home = d /\ request[q].kind \in Asked \ {"created"}
InFlight(d) == record[d].state \in IN_FLIGHT

\* A run that has nothing left to write but, again, that it failed.
Quiet(row) == \/ row.step = "mark" /\ row.activity = "none"
              \/ row.step \in {"apply", "destroy"} /\ row.activity = "done"

Live(j, d) == job[j].home = d /\ ~Quiet(job[j])

\* What is being worked on or dispatched is recorded as in flight.
LiveInFlight(d) ==
    /\ \A j \in Job : Live(j, d) => InFlight(d) /\ job[j].step \in DOMAIN Doing
    /\ \A q \in Request : Dispatching(q, d) => InFlight(d)

\* There is one live run, or one dispatch that has not started it.
OneLive(d) ==
    /\ \A j \in Job : Live(j, d) => /\ \A k \in Job : Live(k, d) => j = k
                                    /\ \A q \in Request : ~Dispatching(q, d)
    /\ \A p, q \in Request : Dispatching(p, d) /\ Dispatching(q, d) => p = q

\* What a request checked still holds when it writes.
PendingAtRest(d) ==
    \A q \in Request : Pending(q, d) =>
        IF request[q].kind = "create" THEN record[d].state = "none"
        ELSE record[d].state \in {"succeeded", "failed"}

\* An activity does what its workflow waits for.
Does(row) ==
    row.activity # "none" =>
        /\ row.doing = row.step
        /\ row.activity \in {"running", "applied"} => row.doing \in {"apply", "destroy"}

DoesItsStep(d) == \A j \in Job : job[j].home = d => Does(job[j])

\* What the sweep lists is dead.
ListedIsDead(d) ==
    d \in listed => /\ InFlight(d)
                    /\ \A j \in Job : job[j].home # d
                    /\ \A q \in Request : ~Dispatching(q, d)

\* A run that reports a failure reports it of a record that may fail.
MarkedMayFail(d) ==
    \A j \in Job : job[j].home = d /\ job[j].step = "mark" =>
        InFlight(d) \/ record[d].state = "failed"

Kept(d) == /\ LiveInFlight(d) /\ OneLive(d) /\ PendingAtRest(d) /\ DoesItsStep(d)
           /\ ListedIsDead(d) /\ MarkedMayFail(d)

\* The process that serves the requests has one that it has not let go.
OneAsked ==
    \A p, q \in Request : request[p].kind \in Asked /\ request[q].kind \in Asked => p = q

KeptInv == TypeOK /\ OneAsked /\ \A d \in Deployment \ abandoned : Kept(d)

LEMMA IdleFields == Idle.kind = "idle" /\ Idle.home = None /\ "idle" \notin Asked
BY DEF Idle, Asked

LEMMA KeptInit == ASSUME Init PROVE KeptInv
<1> DEFINE spec == CHOOSE s \in Spec : TRUE
<1>1. spec \in Spec
  BY SpecAssumption
<1> HIDE DEF spec
<1>2. TypeOK
  BY <1>1, NoJobTyped
     DEF Init, TypeOK, State, RequestRow, DiskRow, NoPlan, Idle, Asked, Placing, spec
<1>3. OneAsked
  BY DEF Init, OneAsked, Idle, Asked
<1>4. ASSUME NEW d \in Deployment PROVE Kept(d)
  <2>1. /\ \A j \in Job : job[j].home # d
        /\ \A q \in Request : ~Dispatching(q, d) /\ ~Pending(q, d)
        /\ d \notin listed
    BY <1>4, NoJobTyped, IdleFields DEF Init, Dispatching, Pending
  <2> QED
    BY <2>1 DEF Kept, LiveInFlight, OneLive, PendingAtRest, DoesItsStep, ListedIsDead,
                MarkedMayFail, Live
<1> QED
  BY <1>2, <1>3, <1>4 DEF KeptInv

\* A step elsewhere leaves a deployment alone.
Elsewhere(d) ==
    /\ record'[d] = record[d]
    /\ d \in listed' <=> d \in listed
    /\ \A q \in Request : request'[q].home = d => request'[q] = request[q]
    /\ \A j \in Job : job[j].home = d \/ job'[j].home = d => job'[j] = job[j]

LEMMA KeptElsewhere ==
    ASSUME NEW d \in Deployment, Kept(d), Elsewhere(d)
    PROVE  Kept(d)'
<1>1. /\ \A q \in Request : /\ Dispatching(q, d)' => Dispatching(q, d)
                            /\ Pending(q, d)' => Pending(q, d) /\ request'[q] = request[q]
      /\ \A j \in Job : /\ Live(j, d)' <=> Live(j, d)
                        /\ (job[j].home = d)' <=> job[j].home = d
                        /\ job[j].home = d => job'[j] = job[j]
      /\ InFlight(d)' <=> InFlight(d)
  BY DEF Elsewhere, Dispatching, Pending, Live, InFlight
<1>2. LiveInFlight(d)' /\ OneLive(d)'
  BY <1>1 DEF Kept, LiveInFlight, OneLive, Live
<1>3. PendingAtRest(d)' /\ DoesItsStep(d)'
  BY <1>1 DEF Kept, PendingAtRest, DoesItsStep, Elsewhere
<1>4. ListedIsDead(d)' /\ MarkedMayFail(d)'
  BY <1>1 DEF Kept, ListedIsDead, MarkedMayFail, Elsewhere
<1> QED
  BY <1>2, <1>3, <1>4 DEF Kept

\* A step of run j that writes no record: its row becomes row.
JobMoves(j, row) ==
    /\ row \in JobRow /\ Placed(row) /\ row.home \in {job[j].home, None}
    /\ job' = [job EXCEPT ![j] = row]
    /\ UNCHANGED <<record, request, listed>>

LEMMA KeptByMove ==
    ASSUME TypeOK, NEW j \in Job, job[j].home \in Deployment, NEW row, JobMoves(j, row),
           NEW d \in Deployment, Kept(d),
           d = job[j].home /\ row.home = d =>
               /\ Quiet(row) \/ (Live(j, d) /\ row.step \in DOMAIN Doing)
               /\ row.step = "mark" => job[j].step = "mark" \/ Live(j, d)
               /\ Does(row)
    PROVE  Kept(d)'
<1>1. job'[j] = row /\ \A k \in Job : k # j => job'[k] = job[k]
  BY DEF JobMoves, TypeOK
<1>2. CASE d # job[j].home
  <2>1. Elsewhere(d)
    BY <1>1, <1>2, NoJobTyped DEF JobMoves, Elsewhere
  <2> QED
    BY <2>1, KeptElsewhere
<1>3. CASE d = job[j].home
  <2>1. /\ \A q \in Request : /\ Dispatching(q, d)' <=> Dispatching(q, d)
                              /\ Pending(q, d)' <=> Pending(q, d)
        /\ InFlight(d)' <=> InFlight(d)
        /\ request' = request /\ record' = record /\ listed' = listed
    BY DEF JobMoves, Dispatching, Pending, InFlight
  <2>2. \A k \in Job : /\ Live(k, d)' => Live(k, d)
                       /\ (job[k].home = d)' => job[k].home = d
    BY <1>1, <1>3 DEF Live
  <2>3. LiveInFlight(d)' /\ OneLive(d)'
    BY <1>1, <1>3, <2>1, <2>2 DEF Kept, LiveInFlight, OneLive, Live
  <2>4. PendingAtRest(d)'
    BY <2>1 DEF Kept, PendingAtRest
  <2>5. DoesItsStep(d)'
    BY <1>1, <1>3 DEF Kept, DoesItsStep
  <2>6. ListedIsDead(d)' /\ MarkedMayFail(d)'
    BY <1>1, <1>3, <2>1, <2>2 DEF Kept, ListedIsDead, MarkedMayFail, LiveInFlight
  <2> QED
    BY <2>3, <2>4, <2>5, <2>6 DEF Kept
<1> QED
  BY <1>2, <1>3

\* The activities' steps that write no record.
LEMMA KeptByWork ==
    ASSUME KeptInv, TypeOK', NEW j \in Job,
           Plan(j) \/ Planned(j) \/ Stamp(j) \/ Apply(j) \/ Destroy(j) \/ Applied(j),
           NEW d \in Deployment \ abandoned
    PROVE  Kept(d)'
<1> DEFINE e == job[j].home
           row == job'[j]
<1>1. /\ TypeOK /\ job[j] \in JobRow /\ Placed(job[j]) /\ e \in Deployment
      /\ job[j].doing \in {"plan", "apply", "destroy"} /\ job[j].activity \in Working
  BY Employed DEF KeptInv, Plan, Planned, Stamp, Apply, Destroy, Applied, Working
<1>2. /\ job' = [job EXCEPT ![j] = row] /\ row \in JobRow /\ Placed(row)
      /\ row.home = e /\ row.step = job[j].step /\ row.doing = job[j].doing
      /\ row.activity \in Working \cup {"done"}
      /\ row.activity = "done" => row.doing = "plan"
      /\ row.activity \in {"running", "applied"} =>
             row.doing \in {"apply", "destroy"} \/ job[j].activity = "running"
  <2>1. job \in [Job -> JobRow] /\ job' \in [Job -> JobRow] /\ Placed(job'[j])
    BY DEF KeptInv, TypeOK
  <2>2. /\ job' = [job EXCEPT ![j] = job'[j]]
        /\ job'[j].home = e /\ job'[j].step = job[j].step /\ job'[j].doing = job[j].doing
    BY <2>1 DEF Plan, Planned, Stamp, Apply, Destroy, Applied, JobRow
  <2>3. /\ job'[j].activity \in Working \cup {"done"}
        /\ job'[j].activity = "done" => job[j].doing = "plan"
        /\ job'[j].activity \in {"running", "applied"} =>
               job[j].doing \in {"apply", "destroy"} \/ job[j].activity = "running"
    BY <2>1 DEF Plan, Planned, Stamp, Apply, Destroy, Applied, JobRow, Working
  <2> QED
    BY <2>1, <2>2, <2>3
<1> HIDE DEF row
<1>3. JobMoves(j, row)
  BY <1>1, <1>2 DEF JobMoves, Plan, Planned, Stamp, Apply, Destroy, Applied
<1>4. Kept(d)
  BY DEF KeptInv
<1>5. ASSUME d = e
      PROVE  /\ Live(j, d) /\ row.step \in DOMAIN Doing /\ Does(row)
  <2>1. Live(j, d)
    BY <1>1, <1>5 DEF Live, Quiet, Working
  <2>2. job[j].step \in DOMAIN Doing /\ Does(job[j])
    BY <1>4, <1>5, <2>1 DEF Kept, LiveInFlight, DoesItsStep
  <2>3. Does(row)
    BY <1>1, <1>2, <2>2 DEF Does, Working
  <2> QED
    BY <1>2, <2>1, <2>2, <2>3
<1> QED
  BY <1>1, <1>2, <1>3, <1>4, <1>5, KeptByMove

\* Failures, losses, timeouts and acknowledgements.
LEMMA KeptByEnd ==
    ASSUME KeptInv, NEW j \in Job, Fail(j) \/ WorkerStops(j) \/ Ack(j) \/ Timeout(j),
           NEW d \in Deployment \ abandoned'
    PROVE  Kept(d)'
<1> DEFINE e == job[j].home
<1>1. TypeOK /\ job[j] \in JobRow /\ Placed(job[j]) /\ e \in Deployment /\ e # None
  BY Tables, Employed, NoJobTyped DEF KeptInv, Fail, WorkerStops, Ack, Timeout, AtWork
<1>2. d \notin abandoned /\ Kept(d)
  BY DEF KeptInv, Fail, WorkerStops, Ack, Timeout
<1>3. UNCHANGED <<record, request, listed>>
  BY DEF Fail, WorkerStops, Ack, Timeout
<1>4. ASSUME NEW step \in Step, NEW activity \in {"none", "lost"}, activity # "none" => job[j].activity # "none",
             Goes(j, step, activity),
             d = e => /\ Live(j, d) \/ step \in {"closed", "mark"}
                      /\ step \in DOMAIN Doing \/ activity = "none"
                      /\ step = "mark" => Live(j, d)
                      /\ activity = "lost" => step = job[j].step
      PROVE  Kept(d)'
  <2> DEFINE row == Went(job[j], step, activity)
  <2>1. /\ job' = [job EXCEPT ![j] = row] /\ row \in JobRow /\ Placed(row)
        /\ row.home = IF activity = "none" /\ step = "closed" THEN None ELSE e
        /\ row.step = step /\ row.activity = activity
        /\ activity # "none" => row.doing = job[j].doing
    BY <1>1, <1>4, GoesWent, WentTyped
  <2> HIDE DEF row
  <2>2. JobMoves(j, row)
    BY <1>3, <2>1 DEF JobMoves
  <2>3. ASSUME d = e, row.home = d
        PROVE  /\ Quiet(row) \/ (Live(j, d) /\ row.step \in DOMAIN Doing)
               /\ row.step = "mark" => job[j].step = "mark" \/ Live(j, d)
               /\ Does(row)
    <3>1. Quiet(row) \/ (Live(j, d) /\ row.step \in DOMAIN Doing)
      BY <1>1, <1>4, <2>1, <2>3, Tables DEF Quiet, Step
    <3>2. Does(row)
      BY <1>2, <1>4, <2>1, <2>3 DEF Kept, DoesItsStep, Does
    <3> QED
      BY <1>4, <2>1, <2>3, <3>1, <3>2
  <2> QED
    BY <1>1, <1>2, <2>2, <2>3, KeptByMove
<1>5. d = e => /\ Does(job[j])
               /\ Live(j, d) => job[j].step \in DOMAIN Doing
  BY <1>2 DEF Kept, DoesItsStep, LiveInFlight
<1>6. job[j].activity \in Working \cup {"lost"} => (d = e => Live(j, d))
  BY DEF Live, Quiet, Working
<1>7. CASE Fail(j) /\ job[j].step # "closed"
  BY <1>4, <1>6, <1>7 DEF Fail, AtWork, Working, Step
<1>8. CASE Fail(j) /\ job[j].step = "closed"
  <2>1. d # e
    BY <1>5, <1>6, <1>8, Tables DEF Fail, AtWork, Working
  <2> QED
    BY <1>4, <1>8, <2>1 DEF Fail, Step
<1>9. CASE WorkerStops(j)
  <2>1. job[j].step \in Step
    BY <1>1 DEF JobRow
  <2>2. CASE job[j].step \in DOMAIN Doing
    <3>1. d = e => Live(j, d)
      BY <1>6, <1>9 DEF WorkerStops, AtWork, Working
    <3>2. Goes(j, job[j].step, "lost") /\ job[j].activity # "none"
      BY <1>9, <2>2 DEF WorkerStops, AtWork
    <3> QED
      BY <1>4, <2>1, <2>2, <3>1, <3>2, Tables
  <2>3. CASE job[j].step \notin DOMAIN Doing
    <3>1. d # e
      BY <1>5, <1>6, <1>9, <2>3 DEF WorkerStops, AtWork, Working
    <3> QED
      BY <1>4, <1>9, <2>1, <2>3, <3>1 DEF WorkerStops
  <2> QED
    BY <2>2, <2>3
<1>10. CASE Ack(j)
  <2>1. PICK step \in Step : /\ Goes(j, step, "none")
                             /\ job[j].step = "plan" => step = "apply"
                             /\ job[j].step \in {"apply", "destroy"} => step = "closed"
    BY <1>1, <1>10, Tables DEF Ack, Step, JobRow
  <2>2. d = e => job[j].step \in {"plan", "apply", "destroy"}
    BY <1>1, <1>5, <1>10 DEF Ack, Does, Placed, JobRow
  <2>3. d = e /\ job[j].step = "plan" => Live(j, d)
    BY <1>10 DEF Ack, Live, Quiet
  <2> QED
    BY <1>4, <2>1, <2>2, <2>3, Tables
<1>11. CASE Timeout(j) /\ AtWork(j)
  <2>1. d # e
    BY <1>11 DEF Timeout
  <2>2. job' = [job EXCEPT ![j] = Went(job[j], "mark", job[j].activity)]
    BY <1>1, <1>11, GoesWent DEF Timeout
  <2>3. job[j].activity \in Working /\ "mark" \in Step
    BY <1>11 DEF AtWork, Working, Step
  <2> DEFINE row == Went(job[j], "mark", job[j].activity)
  <2>4. row \in JobRow /\ Placed(row) /\ row.home = e
    BY <1>1, <2>3, WentTyped DEF Working
  <2> HIDE DEF row
  <2>5. JobMoves(j, row)
    BY <1>3, <2>2, <2>4 DEF JobMoves, row
  <2> QED
    BY <1>1, <1>2, <2>1, <2>5, KeptByMove
<1>12. CASE Timeout(j) /\ ~AtWork(j)
  BY <1>4, <1>6, <1>12 DEF Timeout, Step
<1> QED
  BY <1>7, <1>8, <1>9, <1>10, <1>11, <1>12

\* The steps that write a record.
LEMMA KeptByLoad ==
    ASSUME KeptInv, NEW j \in Job, NEW w \in Worker, Load(j, w), NEW d \in Deployment \ abandoned
    PROVE  Kept(d)'
<1> DEFINE e == job[j].home
           step == job[j].step
           row == [job[j] EXCEPT !.activity = "loaded", !.doing = step, !.spec = record[e].spec, !.on = w]
<1>1. /\ TypeOK /\ job[j] \in JobRow /\ e \in Deployment /\ Kept(d)
      /\ step \in DOMAIN Doing /\ Doing[step] \in IN_FLIGHT \cap State
      /\ record' = Written(e, Doing[step])
      /\ UNCHANGED <<request, listed, abandoned>>
  BY Tables, Employed DEF KeptInv, Load, State
<1>2. /\ job'[j] = row /\ \A k \in Job : k # j => job'[k] = job[k]
      /\ row.home = e /\ row.step = step /\ row.activity = "loaded" /\ row.doing = step
  BY <1>1 DEF TypeOK, Load, JobRow
<1>3. /\ record'[e] = [state |-> Doing[step], spec |-> record[e].spec]
      /\ \A f \in Deployment : f # e => record'[f] = record[f]
  BY <1>1, WrittenTyped
<1> HIDE DEF row
<1>4. CASE d # e
  <2>1. Elsewhere(d)
    BY <1>1, <1>2, <1>3, <1>4 DEF Elsewhere
  <2> QED
    BY <1>1, <2>1, KeptElsewhere
<1>5. CASE d = e
  <2>1. /\ Live(j, d) /\ InFlight(d) /\ InFlight(d)' /\ d \notin listed
        /\ \A k \in Job : (Live(k, d)' <=> Live(k, d)) /\ ((job[k].home = d)' <=> job[k].home = d)
        /\ \A q \in Request : /\ Dispatching(q, d)' <=> Dispatching(q, d)
                              /\ Pending(q, d)' <=> Pending(q, d)
    <3>1. job[j].activity = "none" /\ step # "mark"
      BY <1>1, Tables DEF Load
    <3>2. Live(j, d) /\ ~Quiet(row)
      BY <1>2, <1>5, <3>1 DEF Live, Quiet
    <3>3. InFlight(d) /\ d \notin listed
      BY <1>1, <1>5, <3>2 DEF Kept, LiveInFlight, ListedIsDead
    <3>4. InFlight(d)'
      BY <1>1, <1>3, <1>5 DEF InFlight
    <3>5. \A k \in Job : (Live(k, d)' <=> Live(k, d)) /\ ((job[k].home = d)' <=> job[k].home = d)
      BY <1>2, <1>5, <3>2 DEF Live
    <3> QED
      BY <1>1, <3>2, <3>3, <3>4, <3>5 DEF Dispatching, Pending
  <2>2. \A q \in Request : ~Pending(q, d)
    BY <1>1, <2>1 DEF Kept, PendingAtRest, InFlight, IN_FLIGHT
  <2>3. LiveInFlight(d)' /\ OneLive(d)'
    BY <1>1, <1>2, <2>1 DEF Kept, LiveInFlight, OneLive
  <2>4. PendingAtRest(d)' /\ ListedIsDead(d)' /\ MarkedMayFail(d)'
    BY <1>1, <2>1, <2>2 DEF PendingAtRest, ListedIsDead, MarkedMayFail
  <2>5. DoesItsStep(d)'
    BY <1>1, <1>2, <2>1 DEF Kept, DoesItsStep, Does
  <2> QED
    BY <2>3, <2>4, <2>5 DEF Kept
<1> QED
  BY <1>4, <1>5

\* A record that is ended, with nothing left at work on it.
LEMMA KeptAtRest ==
    ASSUME NEW d \in Deployment,
           record'[d].state \in {"succeeded", "failed", "destroyed"}, d \notin listed',
           \A q \in Request : /\ ~Dispatching(q, d)'
                              /\ Pending(q, d)' => /\ record'[d].state # "destroyed"
                                                   /\ request'[q].kind # "create",
           \A j \in Job : job'[j].home = d =>
               /\ Quiet(job'[j]) /\ Does(job'[j])
               /\ job'[j].step = "mark" => record'[d].state = "failed"
    PROVE  Kept(d)'
BY DEF Kept, LiveInFlight, OneLive, PendingAtRest, DoesItsStep, ListedIsDead, MarkedMayFail, Live

\* Nothing else is open on a record that its end does not abandon.
LEMMA EndsAlone ==
    ASSUME NEW d \in Deployment, NEW k, d \notin Abandons(d, k)
    PROVE  /\ d \notin abandoned
           /\ \A j \in Job : j # k => job[j].home # d
           /\ \A q \in Request : ~Dispatching(q, d)
BY DEF Abandons, Open

LEMMA KeptByReport ==
    ASSUME KeptInv, NEW j \in Job, Report(j), NEW d \in Deployment \ abandoned'
    PROVE  Kept(d)'
<1> DEFINE e == job[j].home
           state == IF job[j].doing = "destroy" THEN "destroyed" ELSE "succeeded"
<1>1. /\ TypeOK /\ job[j] \in JobRow /\ Placed(job[j]) /\ e \in Deployment
      /\ job[j].activity = "applied" /\ state \in State /\ record' = Written(e, state)
      /\ abandoned' = Abandons(e, j) /\ UNCHANGED <<request, listed>>
  BY Employed DEF KeptInv, Report, State
<1>2. d \notin abandoned /\ Kept(d)
  BY <1>1 DEF KeptInv, Abandons
<1>3. /\ job'[j] = [job[j] EXCEPT !.activity = "done"] /\ \A k \in Job : k # j => job'[k] = job[k]
      /\ job'[j].home = e /\ job'[j].step = job[j].step /\ job'[j].activity = "done"
      /\ job'[j].doing = job[j].doing
  BY <1>1 DEF TypeOK, Report, JobRow
<1>4. /\ record'[e] = [state |-> state, spec |-> record[e].spec]
      /\ \A f \in Deployment : f # e => record'[f] = record[f]
  BY <1>1, WrittenTyped
<1>5. CASE d # e
  <2>1. Elsewhere(d)
    BY <1>1, <1>3, <1>4, <1>5 DEF Elsewhere
  <2> QED
    BY <1>2, <2>1, KeptElsewhere
<1>6. CASE d = e
  <2>1. /\ \A k \in Job : k # j => job[k].home # d
        /\ \A q \in Request : ~Dispatching(q, d)
    BY <1>1, <1>6, EndsAlone
  <2>2. Live(j, d) /\ InFlight(d) /\ d \notin listed
    BY <1>1, <1>2, <1>6 DEF Live, Quiet, Kept, LiveInFlight, ListedIsDead
  <2>3. job[j].doing = job[j].step /\ job[j].doing \in {"apply", "destroy"}
    BY <1>1, <1>2, <1>6 DEF Kept, DoesItsStep, Does
  <2>4. \A q \in Request : ~Dispatching(q, d)' /\ ~Pending(q, d)'
    BY <1>1, <1>2, <2>1, <2>2 DEF Dispatching, Pending, Kept, PendingAtRest, InFlight, IN_FLIGHT
  <2>5. \A k \in Job : job'[k].home = d =>
            Quiet(job'[k]) /\ Does(job'[k]) /\ job'[k].step # "mark"
    BY <1>3, <2>1, <2>3 DEF Quiet, Does
  <2>6. record'[d].state \in {"succeeded", "failed", "destroyed"} /\ d \notin listed'
    BY <1>1, <1>4, <1>6, <2>2
  <2> QED
    BY <2>4, <2>5, <2>6, KeptAtRest
<1> QED
  BY <1>5, <1>6

LEMMA KeptByMark ==
    ASSUME KeptInv, NEW j \in Job, mark_failed(j), NEW d \in Deployment \ abandoned'
    PROVE  Kept(d)'
<1> DEFINE e == job[j].home
<1>1. /\ TypeOK /\ job[j] \in JobRow /\ Placed(job[j]) /\ e \in Deployment /\ e # None
      /\ job[j].step = "mark" /\ "failed" \in State /\ record' = Written(e, "failed")
      /\ abandoned' = Abandons(e, j) /\ UNCHANGED <<request, listed>>
      /\ job \in [Job -> JobRow]
  BY Employed, NoJobTyped DEF KeptInv, TypeOK, mark_failed, State
<1>2. d \notin abandoned /\ Kept(d)
  BY <1>1 DEF KeptInv, Abandons
<1>3. /\ record'[e] = [state |-> "failed", spec |-> record[e].spec]
      /\ \A f \in Deployment : f # e => record'[f] = record[f]
  BY <1>1, WrittenTyped
<1>4. \/ UNCHANGED job
      \/ /\ \A k \in Job : k # j => job'[k] = job[k]
         /\ job'[j].home \in {e, None}
         /\ job[j].activity = "none" => job'[j].home = None
  <2>1. CASE Goes(j, "closed", job[j].activity)
    <3> DEFINE row == Went(job[j], "closed", job[j].activity)
    <3>1. job' = [job EXCEPT ![j] = row]
      BY <1>1, <2>1, GoesWent
    <3>2. row.home = IF job[j].activity = "none" THEN None ELSE e
      BY <1>1, WentTyped DEF JobRow, Step
    <3> HIDE DEF row
    <3> QED
      BY <1>1, <3>1, <3>2
  <2> QED
    BY <2>1 DEF mark_failed
<1>5. CASE d # e
  <2>1. \A k \in Job : job[k].home = d \/ job'[k].home = d => job'[k] = job[k]
    BY <1>4, <1>5, NoJobTyped
  <2>2. Elsewhere(d)
    BY <1>1, <1>3, <1>5, <2>1 DEF Elsewhere
  <2> QED
    BY <1>2, <2>2, KeptElsewhere
<1>6. CASE d = e
  <2>1. /\ \A k \in Job : k # j => job[k].home # d
        /\ \A q \in Request : ~Dispatching(q, d)
    BY <1>1, <1>6, EndsAlone
  <2>2. Does(job[j]) /\ d \notin listed /\ (InFlight(d) \/ record[d].state = "failed")
    BY <1>1, <1>2, <1>6 DEF Kept, DoesItsStep, ListedIsDead, MarkedMayFail
  <2>3. job[j].activity = "none"
    BY <1>1, <2>2 DEF Does, Placed, JobRow
  <2>4. \A q \in Request : ~Dispatching(q, d)' /\ (Pending(q, d)' => request'[q].kind # "create")
    BY <1>1, <1>2, <2>1, <2>2 DEF Dispatching, Pending, Kept, PendingAtRest, InFlight, IN_FLIGHT
  <2>5. \A k \in Job : job'[k].home = d => Quiet(job'[k]) /\ Does(job'[k])
    BY <1>1, <1>4, <2>1, <2>3, NoJobTyped DEF Quiet, Does
  <2> QED
    BY <1>1, <1>3, <1>6, <2>2, <2>4, <2>5, KeptAtRest
<1> QED
  BY <1>5, <1>6

LEMMA KeptBySweep ==
    ASSUME KeptInv, NEW e \in Deployment, sweep(e) \/ List(e), NEW d \in Deployment \ abandoned'
    PROVE  Kept(d)'
<1>1. TypeOK /\ UNCHANGED <<request, job>> /\ abandoned' = Abandons(e, 0)
  BY DEF KeptInv, sweep, List
<1>2. d \notin abandoned /\ Kept(d)
  BY <1>1 DEF KeptInv, Abandons
<1>3. d = e => /\ \A j \in Job : job[j].home # d
               /\ \A q \in Request : ~Dispatching(q, d)
  <2>1. \A j \in Job : j # 0
    BY BoundAssumption DEF Job
  <2> QED
    BY <1>1, <2>1, EndsAlone
<1>4. ASSUME List(e), d = e PROVE Kept(d)'
  <2>1. /\ UNCHANGED record /\ InFlight(d)
        /\ \A q \in Request : (Dispatching(q, d)' <=> Dispatching(q, d))
                              /\ (Pending(q, d)' <=> Pending(q, d))
        /\ \A j \in Job : job'[j].home # d
    BY <1>1, <1>3, <1>4 DEF List, InFlight, Dispatching, Pending
  <2>2. LiveInFlight(d)' /\ OneLive(d)' /\ DoesItsStep(d)' /\ MarkedMayFail(d)'
    BY <1>3, <1>4, <2>1 DEF LiveInFlight, OneLive, DoesItsStep, MarkedMayFail, Live
  <2>3. ListedIsDead(d)'
    BY <1>3, <1>4, <2>1 DEF ListedIsDead, InFlight
  <2>4. PendingAtRest(d)'
    BY <1>1, <1>2, <2>1 DEF Kept, PendingAtRest
  <2> QED
    BY <2>2, <2>3, <2>4 DEF Kept
<1>5. ASSUME sweep(e), d = e PROVE Kept(d)'
  <2>1. record' = Written(d, "failed") /\ "failed" \in State /\ d \in listed /\ d \notin listed'
    BY <1>5 DEF sweep, State
  <2>2. record'[d] = [state |-> "failed", spec |-> record[d].spec]
    BY <1>1, <2>1, WrittenTyped
  <2>3. \A q \in Request : ~Dispatching(q, d)' /\ ~Pending(q, d)'
    BY <1>1, <1>2, <1>3, <1>5, <2>1
       DEF Dispatching, Pending, Kept, ListedIsDead, PendingAtRest, InFlight, IN_FLIGHT
  <2> QED
    BY <1>1, <1>3, <1>5, <2>1, <2>2, <2>3, KeptAtRest
<1>6. ASSUME d # e PROVE Kept(d)'
  <2>1. record'[d] = record[d]
    BY <1>1, <1>6 DEF sweep, List, Written, TypeOK
  <2>2. Elsewhere(d)
    BY <1>1, <1>6, <2>1 DEF Elsewhere, sweep, List
  <2> QED
    BY <1>2, <2>2, KeptElsewhere
<1> QED
  BY <1>4, <1>5, <1>6


-----------------------------------------------------------------------------
(* The API's steps                                                          *)

\* What other requests are at for d stays or is over.
RequestsGoOn(d) ==
    \A p \in Request :
        /\ Dispatching(p, d)' => Dispatching(p, d)
        /\ Pending(p, d)' => /\ Pending(p, d)
                             /\ request'[p].kind = "create" <=> request[p].kind = "create"

\* A request that goes on, or is over, with the record's state as it is.
LEMMA KeptByGoingOn ==
    ASSUME NEW d \in Deployment, Kept(d), UNCHANGED <<job, listed>>,
           record'[d].state = record[d].state, RequestsGoOn(d)
    PROVE  Kept(d)'
<1>1. /\ InFlight(d)' <=> InFlight(d)
      /\ \A j \in Job : Live(j, d)' <=> Live(j, d)
  BY DEF InFlight, Live
<1>2. LiveInFlight(d)' /\ OneLive(d)' /\ DoesItsStep(d)'
  BY <1>1 DEF Kept, LiveInFlight, OneLive, DoesItsStep, RequestsGoOn
<1>3. PendingAtRest(d)' /\ ListedIsDead(d)' /\ MarkedMayFail(d)'
  BY <1>1 DEF Kept, PendingAtRest, ListedIsDead, MarkedMayFail, RequestsGoOn
<1> QED
  BY <1>2, <1>3 DEF Kept

\* A request puts the record in flight.
LEMMA KeptByEntering ==
    ASSUME NEW d \in Deployment, Kept(d), UNCHANGED <<job, listed>>,
           NEW q \in Request, Pending(q, d), InFlight(d)',
           \A p \in Request : ~Pending(p, d)' /\ (p # q /\ Dispatching(p, d)' => Dispatching(p, d))
    PROVE  Kept(d)'
<1>1. ~InFlight(d)
  BY DEF Kept, PendingAtRest, InFlight, IN_FLIGHT
<1>2. /\ d \notin listed
      /\ \A j \in Job : ~Live(j, d) /\ ~Live(j, d)'
      /\ \A p \in Request : p # q => ~Dispatching(p, d)'
  BY <1>1 DEF Kept, LiveInFlight, ListedIsDead, Live
<1>3. LiveInFlight(d)' /\ OneLive(d)' /\ DoesItsStep(d)'
  BY <1>2 DEF Kept, LiveInFlight, OneLive, DoesItsStep
<1>4. PendingAtRest(d)' /\ ListedIsDead(d)' /\ MarkedMayFail(d)'
  BY <1>2 DEF PendingAtRest, ListedIsDead, MarkedMayFail
<1> QED
  BY <1>3, <1>4 DEF Kept

\* A record whose run was not started is failed.
LEMMA KeptByFailing ==
    ASSUME NEW d \in Deployment, Kept(d), UNCHANGED <<job, listed>>,
           NEW q \in Request, Dispatching(q, d), ~Dispatching(q, d)', RequestsGoOn(d),
           record'[d].state = "failed"
    PROVE  Kept(d)'
<1>1. /\ InFlight(d) /\ d \notin listed
      /\ \A j \in Job : job[j].home = d => Quiet(job[j]) /\ Does(job[j])
      /\ \A p \in Request : p # q => ~Dispatching(p, d)
  BY DEF Kept, LiveInFlight, OneLive, ListedIsDead, DoesItsStep, Live
<1>2. \A p \in Request : ~Dispatching(p, d)' /\ ~Pending(p, d)'
  BY <1>1 DEF RequestsGoOn, Kept, PendingAtRest, InFlight, IN_FLIGHT
<1> QED
  BY <1>1, <1>2, KeptAtRest

\* A request's run is started.
LEMMA KeptByStarting ==
    ASSUME TypeOK, NEW d \in Deployment, Kept(d), UNCHANGED <<record, listed>>,
           NEW q \in Request, Dispatching(q, d), ~Dispatching(q, d)', RequestsGoOn(d), Start(q)
    PROVE  Kept(d)'
<1> DEFINE run == NewRun(d, request[q].kind)
<1>0. request[q].home = d
  BY DEF Dispatching
<1>1. PICK j \in Job : job[j] = NoJob /\ job' = [job EXCEPT ![j] = run]
  BY <1>0, StartsRun
<1>2. /\ job'[j] = run /\ \A k \in Job : k # j => job'[k] = job[k]
      /\ run.activity = "none" /\ run.step \in {"plan", "destroy"} /\ run.home = d
  BY <1>1, NewRunTyped DEF TypeOK
<1> HIDE DEF run
<1>3. /\ InFlight(d) /\ InFlight(d)' /\ d \notin listed
      /\ \A k \in Job : ~Live(k, d)
      /\ \A p \in Request : ~Dispatching(p, d)'
  BY DEF Kept, LiveInFlight, OneLive, ListedIsDead, InFlight, RequestsGoOn
<1>4. \A p \in Request : ~Pending(p, d)'
  BY <1>3 DEF RequestsGoOn, Kept, PendingAtRest, InFlight, IN_FLIGHT
<1>5. \A k \in Job : Live(k, d)' => k = j
  BY <1>2, <1>3 DEF Live
<1>6. LiveInFlight(d)' /\ OneLive(d)'
  BY <1>2, <1>3, <1>5, Tables DEF LiveInFlight, OneLive
<1>7. DoesItsStep(d)'
  BY <1>2 DEF Kept, DoesItsStep, Does
<1>8. PendingAtRest(d)' /\ ListedIsDead(d)' /\ MarkedMayFail(d)'
  BY <1>3, <1>4 DEF PendingAtRest, ListedIsDead, MarkedMayFail
<1> QED
  BY <1>6, <1>7, <1>8 DEF Kept

LEMMA KeptByAsk ==
    ASSUME KeptInv, NEW q \in Request, NEW e \in Deployment,
           \/ create_deployment(q, e) \/ retry_deployment(q, e)
           \/ update_deployment(q, e) \/ destroy_deployment(q, e),
           NEW d \in Deployment \ abandoned'
    PROVE  Kept(d)'
<1>1. PICK kind \in Asked \ {"created"} :
          /\ \E spec : Ask(q, kind, e, spec)
          /\ IF kind = "create" THEN record[e].state = "none"
             ELSE record[e].state \in {"succeeded", "failed"}
  BY DEF create_deployment, retry_deployment, update_deployment, destroy_deployment, Asked
<1>2. PICK spec : Ask(q, kind, e, spec)
  BY <1>1
<1>3. UNCHANGED <<record, job, listed, abandoned>>
  BY <1>2 DEF Ask
<1>4. /\ request'[q] = [kind |-> kind, home |-> e, spec |-> spec]
      /\ \A p \in Request : p # q => request'[p] = request[p]
  BY <1>2 DEF Ask, KeptInv, TypeOK
<1>5. Kept(d)
  BY <1>3 DEF KeptInv
<1>6. \A p \in Request : Dispatching(p, d)' => Dispatching(p, d)
  <2>1. kind \notin {"created", "start deploy", "start destroy"}
    BY <1>1 DEF Asked
  <2>2. request'[q].kind = kind
    BY <1>4
  <2>3. ~Dispatching(q, d)'
    BY <2>1, <2>2 DEF Dispatching
  <2>4. \A p \in Request : p # q => (Dispatching(p, d)' <=> Dispatching(p, d))
    BY <1>4 DEF Dispatching
  <2> QED
    BY <2>3, <2>4
<1>7. PendingAtRest(d)'
  <2>1. ASSUME NEW p \in Request, Pending(p, d)', p # q
        PROVE  Pending(p, d) /\ request'[p] = request[p]
    BY <1>4, <2>1 DEF Pending
  <2>2. Pending(q, d)' => d = e
    BY <1>4 DEF Pending
  <2> QED
    BY <1>1, <1>3, <1>4, <1>5, <2>1, <2>2 DEF Kept, PendingAtRest
<1>8. /\ InFlight(d)' <=> InFlight(d)
      /\ \A j \in Job : Live(j, d)' <=> Live(j, d)
  BY <1>3 DEF InFlight, Live
<1>9. LiveInFlight(d)' /\ OneLive(d)' /\ DoesItsStep(d)'
  BY <1>3, <1>5, <1>6, <1>8 DEF Kept, LiveInFlight, OneLive, DoesItsStep
<1>10. ListedIsDead(d)' /\ MarkedMayFail(d)'
  BY <1>3, <1>5, <1>6, <1>8 DEF Kept, ListedIsDead, MarkedMayFail
<1> QED
  BY <1>7, <1>9, <1>10 DEF Kept

\* What a request's step does to the requests' table.
LEMMA RequestMoves ==
    ASSUME TypeOK, NEW q \in Request, request[q].kind # "idle",
           \/ Answered(q)
           \/ \E kind \in Asked \cup {"start deploy", "start destroy"} : \E spec : Reaches(q, kind, spec)
    PROVE  /\ \A p \in Request : p # q => request'[p] = request[p]
           /\ request'[q] = Idle \/ request'[q].home = request[q].home
           /\ \A kind, spec : Reaches(q, kind, spec) =>
                  request'[q].kind = kind /\ request'[q].home = request[q].home
                  /\ request'[q].spec = spec
<1>1. request \in [Request -> RequestRow]
  BY DEF TypeOK
<1>2. \A p \in Request : p # q => request'[p] = request[p]
  BY <1>1 DEF Answered, Reaches
<1>3. Answered(q) => request'[q] = Idle
  BY <1>1 DEF Answered
<1>4. ASSUME NEW kind, NEW spec, Reaches(q, kind, spec)
      PROVE  /\ request'[q].kind = kind /\ request'[q].home = request[q].home
             /\ request'[q].spec = spec
  BY <1>1, <1>4 DEF Reaches
<1> QED
  BY <1>2, <1>3, <1>4

\* Requests that are left, of a process or by themselves.
LEMMA LeavingGoesOn ==
    ASSUME TypeOK, NEW q \in Request, Answered(q) \/ ApiStops(q), NEW d \in Deployment
    PROVE  RequestsGoOn(d)
<1>1. \A p \in Request : request'[p] \in {request[p], Idle}
  BY DEF TypeOK, Answered, ApiStops
<1> QED
  BY <1>1, IdleFields, NoJobTyped DEF RequestsGoOn, Dispatching, Pending

LEMMA KeptByRequest ==
    ASSUME KeptInv, NEW q \in Request,
           \/ Create(q) \/ Revalidate(q) \/ Respec(q) \/ Audited(q) \/ Accept(q) \/ AuditUnavailable(q),
           NEW d \in Deployment \ abandoned'
    PROVE  Kept(d)'
<1> DEFINE r == request[q]
           e == r.home
<1>1. /\ TypeOK /\ r.kind \in Asked /\ r.kind # "idle" /\ e \in Deployment
      /\ r.kind \in Placing => r.spec \in Spec
      /\ UNCHANGED <<job, listed, abandoned>>
  <2>1. TypeOK /\ r.kind \in Asked /\ r.kind # "idle"
    BY DEF KeptInv, Create, Revalidate, Respec, Audited, Accept, AuditUnavailable, Asked
  <2> QED
    BY <2>1, Asks DEF Create, Revalidate, Respec, Audited, Accept, AuditUnavailable
<1>2. Kept(d) /\ d # None
  BY <1>1, NoJobTyped DEF KeptInv
<1>3. /\ \A p \in Request : p # q => request'[p] = request[p] /\ request[p].kind \notin Asked
      /\ request'[q] = Idle \/ request'[q].home = e
  <2>1. \A p \in Request : p # q => request[p].kind \notin Asked
    BY <1>1 DEF KeptInv, OneAsked
  <2>2. \/ Answered(q)
        \/ \E kind \in Asked \cup {"start deploy", "start destroy"} : \E spec : Reaches(q, kind, spec)
    BY DEF Create, Revalidate, Respec, Audited, Accept, AuditUnavailable, Asked
  <2> QED
    BY <1>1, <2>1, <2>2, RequestMoves
<1>o. \A p \in Request : p # q => /\ ~Pending(p, d)'
                                  /\ Dispatching(p, d)' => Dispatching(p, d)
  BY <1>3 DEF Pending, Dispatching
<1>4. ASSUME d # e PROVE Kept(d)'
  <2>1. RequestsGoOn(d)
    <3>1. ~Dispatching(q, d)' /\ ~Pending(q, d)'
      BY <1>2, <1>3, <1>4, IdleFields DEF Dispatching, Pending
    <3> QED
      BY <1>o, <3>1 DEF RequestsGoOn
  <2>2. record'[d].state = record[d].state
    <3>1. record \in [Deployment -> [state : State, spec : Spec]]
      BY <1>1 DEF TypeOK
    <3> QED
      BY <1>4, <3>1
         DEF Create, Revalidate, Respec, Audited, Accept, AuditUnavailable, Written
  <2> QED
    BY <1>1, <1>2, <2>1, <2>2, KeptByGoingOn
<1>5. ASSUME d = e, Create(q) \/ Accept(q) PROVE Kept(d)'
  <2>1. Pending(q, d)
    BY <1>1, <1>5 DEF Pending, Create, Accept
  <2>2. InFlight(d)'
    <3>1. CASE Create(q)
      <4>1. record'[e] = [state |-> "accepted", spec |-> r.spec]
        BY <1>1, <3>1 DEF Create, TypeOK
      <4> QED
        BY <1>5, <4>1 DEF InFlight, IN_FLIGHT
    <3>2. CASE Accept(q)
      <4>1. \E state \in IN_FLIGHT : record' = Written(e, state)
        BY <3>2 DEF Accept, IN_FLIGHT
      <4>2. IN_FLIGHT \subseteq State
        BY DEF State
      <4>3. PICK state \in IN_FLIGHT : record' = Written(e, state)
        BY <4>1
      <4>4. Written(e, state)[e] = [state |-> state, spec |-> record[e].spec]
        BY <1>1, <4>2, WrittenTyped
      <4> QED
        BY <1>5, <4>3, <4>4 DEF InFlight
    <3> QED
      BY <1>5, <3>1, <3>2
  <2>3. ~Pending(q, d)'
    <3>1. request'[q].kind \in {"created", "start deploy", "start destroy"}
      <4>1. PICK kind \in {"created", "start deploy", "start destroy"} :
                \E spec : Reaches(q, kind, spec)
        BY <1>5 DEF Create, Accept
      <4>2. kind \in Asked \cup {"start deploy", "start destroy"}
        BY <4>1 DEF Asked
      <4> QED
        BY <1>1, <4>1, <4>2, RequestMoves
    <3> QED
      BY <3>1 DEF Pending, Asked
  <2> QED
    BY <1>1, <1>2, <1>o, <2>1, <2>2, <2>3, KeptByEntering
<1>6. ASSUME d = e, Revalidate(q) \/ Respec(q) PROVE Kept(d)'
  <2>1. Pending(q, d) /\ r.kind # "create"
    BY <1>1, <1>6 DEF Pending, Revalidate, Respec
  <2>2. request'[q].kind \in {"respec", "respecced", "updated"}
    <3>1. PICK kind \in {"respec", "respecced", "updated"} : \E spec : Reaches(q, kind, spec)
      BY <1>6 DEF Revalidate, Respec
    <3>2. kind \in Asked \cup {"start deploy", "start destroy"}
      BY <3>1 DEF Asked
    <3> QED
      BY <1>1, <3>1, <3>2, RequestMoves
  <2>3. RequestsGoOn(d)
    BY <1>o, <2>1, <2>2 DEF RequestsGoOn, Dispatching
  <2>4. record'[d].state = record[d].state
    <3>1. record \in [Deployment -> [state : State, spec : Spec]]
      BY <1>1 DEF TypeOK
    <3> QED
      BY <1>1, <1>6, <3>1 DEF Revalidate, Respec
  <2> QED
    BY <1>1, <1>2, <2>3, <2>4, KeptByGoingOn
<1>7. ASSUME d = e, Audited(q) PROVE Kept(d)'
  <2>1. /\ Dispatching(q, d) /\ request'[q].kind = "start deploy"
        /\ record'[d].state = record[d].state
    BY <1>1, <1>7, RequestMoves DEF Audited, Dispatching
  <2>2. RequestsGoOn(d)
    BY <1>o, <2>1 DEF RequestsGoOn, Pending, Asked
  <2> QED
    BY <1>1, <1>2, <2>1, <2>2, KeptByGoingOn
<1>8. ASSUME d = e, AuditUnavailable(q) PROVE Kept(d)'
  <2>1. RequestsGoOn(d) /\ request'[q] = Idle
    BY <1>1, <1>8, LeavingGoesOn DEF AuditUnavailable, Answered, TypeOK
  <2>2. CASE r.kind = "created"
    <3>1. Dispatching(q, d) /\ ~Dispatching(q, d)'
      BY <1>8, <2>1, <2>2, IdleFields DEF Dispatching
    <3>2. record'[d].state = "failed"
      <4>1. record' = Written(e, "failed") /\ "failed" \in State
        BY <1>8, <2>2 DEF AuditUnavailable, State
      <4>2. Written(e, "failed")[e] = [state |-> "failed", spec |-> record[e].spec]
        BY <1>1, <4>1, WrittenTyped
      <4> QED
        BY <1>8, <4>1, <4>2
    <3> QED
      BY <1>1, <1>2, <2>1, <3>1, <3>2, KeptByFailing
  <2>3. CASE r.kind # "created"
    <3>1. record' = record
      BY <1>8, <2>3 DEF AuditUnavailable
    <3> QED
      BY <1>1, <1>2, <2>1, <3>1, KeptByGoingOn
  <2> QED
    BY <2>2, <2>3
<1> QED
  BY <1>4, <1>5, <1>6, <1>7, <1>8

LEMMA KeptByDispatch ==
    ASSUME KeptInv, NEW q \in Request, Dispatch(q) \/ DispatchFails(q) \/ ApiStops(q),
           NEW d \in Deployment \ abandoned'
    PROVE  Kept(d)'
<1> DEFINE e == request[q].home
<1>1. TypeOK /\ UNCHANGED listed /\ RequestsGoOn(d)
  BY LeavingGoesOn DEF KeptInv, Dispatch, DispatchFails, ApiStops
<1>2. Kept(d) /\ d # None
  BY NoJobTyped DEF KeptInv, Dispatch, DispatchFails, ApiStops
<1>3. CASE ApiStops(q)
  BY <1>1, <1>2, <1>3, KeptByGoingOn DEF ApiStops
<1>4. ASSUME Dispatch(q) \/ DispatchFails(q)
      PROVE  /\ Dispatching(q, e) /\ e \in Deployment /\ request'[q] = Idle
             /\ ~Dispatching(q, d)'
             /\ \A p \in Request : p # q => request'[p] = request[p]
  <2>1. Dispatching(q, e) /\ e \in Deployment /\ Answered(q)
    BY <1>1, <1>4, Asks DEF Dispatch, DispatchFails, Starting, Dispatching
  <2> QED
    BY <1>1, <2>1, IdleFields DEF Answered, TypeOK, Dispatching
<1>5. ASSUME Dispatch(q) \/ DispatchFails(q), d # e PROVE Kept(d)'
  <2>1. record'[d] = record[d]
    BY <1>1, <1>5 DEF Dispatch, DispatchFails, Written, TypeOK
  <2>2. \A j \in Job : job[j].home = d \/ job'[j].home = d => job'[j] = job[j]
    <3>1. \A j \in Job : \A run : job' = [job EXCEPT ![j] = run] =>
              job'[j] = run /\ \A k \in Job : k # j => job'[k] = job[k]
      BY <1>1 DEF TypeOK
    <3>2. NewRun(e, request[q].kind).home = e /\ NoJob.home = None
      BY <1>4, <1>5, NewRunTyped, NoJobTyped
    <3>3. CASE UNCHANGED job
      BY <3>3
    <3>4. CASE Start(q)
      BY <1>1, <1>2, <1>4, <1>5, <3>1, <3>2, <3>4, StartsRun
    <3> QED
      BY <1>5, <3>3, <3>4 DEF Dispatch, DispatchFails
  <2>3. Elsewhere(d)
    BY <1>1, <1>2, <1>4, <1>5, <2>1, <2>2, IdleFields DEF Elsewhere
  <2> QED
    BY <1>2, <2>3, KeptElsewhere
<1>6. ASSUME Dispatch(q), d = e PROVE Kept(d)'
  BY <1>1, <1>2, <1>4, <1>6, KeptByStarting DEF Dispatch
<1>7. ASSUME DispatchFails(q), d = e PROVE Kept(d)'
  <2>1. UNCHANGED job
    BY <1>1, <1>7 DEF DispatchFails, KeptInv, TypeOK
  <2>2. record'[d].state = "failed"
    <3>1. record' = Written(e, "failed") /\ "failed" \in State
      BY <1>7 DEF DispatchFails, State
    <3>2. Written(e, "failed")[e] = [state |-> "failed", spec |-> record[e].spec]
      BY <1>1, <1>4, <1>7, <3>1, WrittenTyped
    <3> QED
      BY <1>7, <3>1, <3>2
  <2> QED
    BY <1>1, <1>2, <1>4, <1>7, <2>1, <2>2, KeptByFailing
<1> QED
  BY <1>3, <1>5, <1>6, <1>7

\* A request is only read while no other is between reading and writing, and
\* what it reaches is its own.
LEMMA AskedStep ==
    ASSUME OneProcess, TypeOK, OneAsked, [Next]_vars
    PROVE  OneAsked'
<1>1. ASSUME \A q \in Request : request'[q].kind \in Asked => request[q].kind \in Asked
      PROVE  OneAsked'
  BY <1>1 DEF OneAsked
<1>2. CASE UNCHANGED request
  BY <1>1, <1>2
<1>3. ASSUME NEW q \in Request, NEW kind, NEW d, NEW spec, Ask(q, kind, d, spec)
      PROVE  OneAsked'
  <2>1. \A p \in Request : request[p].kind \notin Asked
    BY <1>3 DEF Ask, OneProcess
  <2>2. \A p \in Request : p # q => request'[p] = request[p]
    BY <1>3 DEF Ask, TypeOK
  <2> QED
    BY <2>1, <2>2 DEF OneAsked
<1>4. ASSUME NEW q \in Request, Api(q)
      PROVE  OneAsked'
  <2>1. CASE request[q].kind \in Asked /\ \A p \in Request : p # q => request'[p] = request[p]
    BY <1>1, <2>1
  <2>2. CASE \A p \in Request : request'[p] \in {request[p], Idle}
    BY <1>1, <2>2, IdleFields
  <2>3. CASE \/ Create(q) \/ Revalidate(q) \/ Respec(q) \/ Audited(q) \/ Accept(q)
             \/ AuditUnavailable(q)
    <3>1. request[q].kind \in Asked
      BY <2>3 DEF Create, Revalidate, Respec, Audited, Accept, AuditUnavailable, Asked
    <3>2. \A p \in Request : p # q => request'[p] = request[p]
      BY <2>3 DEF TypeOK, Create, Revalidate, Respec, Audited, Accept, AuditUnavailable, Answered,
                  Reaches
    <3> QED
      BY <2>1, <3>1, <3>2
  <2>4. CASE Dispatch(q) \/ DispatchFails(q) \/ ApiStops(q)
    BY <2>2, <2>4 DEF TypeOK, Dispatch, DispatchFails, ApiStops, Answered
  <2> QED
    BY <1>4, <2>3, <2>4 DEF Api
<1>5. ASSUME NEW j \in Job, Activity(j) \/ WorkerStops(j) \/ Workflow(j)
      PROVE  UNCHANGED request
  BY <1>5 DEF Activity, Workflow, Load, Plan, Planned, Stamp, Apply, Destroy, Applied, Report, Fail,
              WorkerStops, Ack, Timeout, mark_failed
<1>6. ASSUME NEW d \in Deployment, Recovery(d) PROVE UNCHANGED request
  BY <1>6 DEF Recovery, List, sweep
<1>7. ASSUME NEW q \in Request, Ask_any(q) PROVE OneAsked'
  BY <1>3, <1>7 DEF Ask_any, create_deployment, retry_deployment, update_deployment,
                    destroy_deployment
<1> QED
  BY <1>2, <1>4, <1>5, <1>6, <1>7 DEF Next, vars

LEMMA KeptStep ==
    ASSUME OneProcess, KeptInv, [Next]_vars
    PROVE  KeptInv'
<1>1. TypeOK' /\ OneAsked'
  BY TypeStep, AskedStep DEF KeptInv
<1>2. ASSUME NEW d \in Deployment \ abandoned' PROVE Kept(d)'
  <2>1. CASE UNCHANGED vars
    <3>1. d \in Deployment \ abandoned /\ Elsewhere(d)
      BY <2>1 DEF vars, Elsewhere
    <3> QED
      BY <3>1, KeptElsewhere DEF KeptInv
  <2>2. ASSUME NEW q \in Request, Ask_any(q) \/ Api(q) PROVE Kept(d)'
    BY <2>2, KeptByAsk, KeptByRequest, KeptByDispatch DEF Api, Ask_any
  <2>3. ASSUME NEW j \in Job, Activity(j) \/ WorkerStops(j) \/ Workflow(j) PROVE Kept(d)'
    <3>1. CASE \E w \in Worker : Load(j, w)
      BY <3>1, KeptByLoad DEF Load
    <3>2. CASE Plan(j) \/ Planned(j) \/ Stamp(j) \/ Apply(j) \/ Destroy(j) \/ Applied(j)
      <4>1. abandoned' = abandoned
        BY <3>2 DEF Plan, Planned, Stamp, Apply, Destroy, Applied
      <4> QED
        BY <1>1, <3>2, <4>1, KeptByWork
    <3> QED
      BY <2>3, <3>1, <3>2, KeptByReport, KeptByEnd, KeptByMark DEF Activity, Workflow
  <2>4. ASSUME NEW e \in Deployment, Recovery(e) PROVE Kept(d)'
    BY <2>4, KeptBySweep DEF Recovery
  <2> QED
    BY <2>1, <2>2, <2>3, <2>4 DEF Next
<1> QED
  BY <1>1, <1>2 DEF KeptInv

\* At most one run of a deployment that nobody abandoned is at work on it, for
\* any number of requests, runs, workers and faults.
THEOREM OneRun ==
    ASSUME OneProcess
    PROVE  DeploymentsSpec => []OneRunAtWork
<1>1. Init => KeptInv
  BY KeptInit
<1>2. KeptInv /\ [Next]_vars => KeptInv'
  BY KeptStep
<1>3. KeptInv => OneRunAtWork
  <2> SUFFICES ASSUME KeptInv, NEW d \in Deployment \ abandoned
               PROVE  Cardinality({j \in Job : job[j].home = d /\ AtWork(j)}) <= 1
    BY DEF OneRunAtWork
  <2> DEFINE S == {j \in Job : job[j].home = d /\ AtWork(j)}
  <2>1. \A j, k \in S : j = k
    BY DEF KeptInv, Kept, OneLive, Live, Quiet, AtWork
  <2> HIDE DEF S
  <2>2. ASSUME S = {} PROVE Cardinality(S) <= 1
    BY <2>2, FS_EmptySet
  <2>3. ASSUME S # {} PROVE Cardinality(S) <= 1
    <3>1. PICK j \in S : S = {j}
      BY <2>1, <2>3
    <3>2. Cardinality({j}) = 1
      BY FS_Singleton
    <3> QED
      BY <3>1, <3>2
  <2>4. Cardinality(S) <= 1
    BY <2>2, <2>3
  <2> QED
    BY <2>4 DEF S
<1> QED
  BY <1>1, <1>2, <1>3, PTL DEF DeploymentsSpec


-----------------------------------------------------------------------------
(* What exists: the specs that are agreed on, stored, planned and applied   *)

Stamped(disk) == disk.plan = None \/ disk.stamp \in {None, disk.plan}

\* What is in flight has the spec it was accepted with.
AgreedInFlight(d) == InFlight(d) => record[d].spec = agreed[d]

\* A request that is to be accepted has stored its spec, and nobody another.
SpecStored(d) ==
    \A q \in Request : request[q].home = d /\ request[q].kind \in {"respecced", "updated", "destroy"} =>
        record[d].spec = request[q].spec

\* A run works on the spec that was accepted.
WorksToAgreed(d) ==
    \A j \in Job : job[j].home = d =>
        /\ job[j].activity \in Working => job[j].spec = agreed[d]
        /\ job[j].activity \in {"planned", "ready"} => saved[job[j].on][d].plan = agreed[d]
        /\ job[j].activity = "applied" =>
               infra[d] = IF job[j].doing = "destroy" THEN None ELSE agreed[d]

\* No disk holds a plan under another's stamp, but while a run writes its own.
StampsTrue(d) ==
    \A w \in Worker : \/ Stamped(saved[w][d])
                      \/ \E j \in Job : /\ job[j].home = d /\ job[j].on = w
                                        /\ job[j].activity = "planned"

\* The outcome that the record tells.
Truth(d) ==
    /\ record[d].state = "succeeded" => infra[d] = agreed[d]
    /\ record[d].state \in {"none", "destroyed"} => infra[d] = None

Told(d) ==
    AgreedInFlight(d) /\ SpecStored(d) /\ WorksToAgreed(d) /\ StampsTrue(d) /\ Truth(d)

ToldInv == \A d \in Deployment \ (abandoned \cup mislabelled) : Told(d)

LEMMA ToldInit == ASSUME Init PROVE ToldInv
<1> SUFFICES ASSUME NEW d \in Deployment PROVE Told(d)
  BY DEF ToldInv
<1>1. /\ \A j \in Job : job[j].home # d
      /\ \A q \in Request : request[q].home # d
      /\ \A w \in Worker : saved[w][d] = NoPlan
      /\ record[d].state = "none" /\ infra[d] = None
  BY NoJobTyped, IdleFields DEF Init
<1> QED
  BY <1>1 DEF Told, AgreedInFlight, SpecStored, WorksToAgreed, StampsTrue, Truth, Stamped, NoPlan,
              InFlight, IN_FLIGHT

\* The work on d that goes on does so as it was, and a plan is still to be
\* stamped where it was.
SameWork(d) ==
    \A k \in Job :
        /\ job'[k].home = d /\ job'[k].activity \in Working =>
               /\ job[k].home = d /\ job'[k].activity = job[k].activity
               /\ job'[k].doing = job[k].doing /\ job'[k].spec = job[k].spec /\ job'[k].on = job[k].on
        /\ job[k].home = d /\ job[k].activity = "planned" =>
               job'[k].home = d /\ job'[k].activity = "planned" /\ job'[k].on = job[k].on

\* A step that may fail the record, and changes nothing else of it.
LEMMA ToldOn ==
    ASSUME NEW d \in Deployment, Told(d),
           agreed'[d] = agreed[d], infra'[d] = infra[d],
           \A w \in Worker : saved'[w][d] = saved[w][d],
           record'[d].spec = record[d].spec, record'[d].state \in {record[d].state, "failed"},
           \A q \in Request : request'[q].home = d => request'[q] = request[q],
           SameWork(d), \A j \in Job : job[j].activity # "none" => job[j].on \in Worker
    PROVE  Told(d)'
<1>1. AgreedInFlight(d)' /\ SpecStored(d)'
  BY DEF Told, AgreedInFlight, SpecStored, InFlight, IN_FLIGHT
<1>2. WorksToAgreed(d)'
  BY DEF Told, WorksToAgreed, SameWork, Working
<1>3. StampsTrue(d)'
  <2>1. ASSUME NEW w \in Worker
        PROVE  \/ Stamped(saved'[w][d])
               \/ \E j \in Job : /\ job'[j].home = d /\ job'[j].on = w
                                 /\ job'[j].activity = "planned"
    BY <2>1 DEF Told, StampsTrue, SameWork
  <2> QED
    BY <2>1 DEF StampsTrue, Stamped
<1>4. Truth(d)'
  BY DEF Told, Truth
<1> QED
  BY <1>1, <1>2, <1>3, <1>4 DEF Told

\* A step of the one run that is at work on d: what it has to establish.
LEMMA ToldByRun ==
    ASSUME NEW d \in Deployment, Told(d), NEW j \in Job,
           record'[d].spec = record[d].spec, InFlight(d), InFlight(d)',
           UNCHANGED <<agreed, request>>,
           \A k \in Job : k # j => /\ job'[k] = job[k]
                                   /\ job[k].home = d => job[k].activity \notin Working,
           job'[j].home = d =>
               /\ job'[j].activity \in Working => job'[j].spec = agreed[d]
               /\ job'[j].activity \in {"planned", "ready"} => saved'[job'[j].on][d].plan = agreed[d]
               /\ job'[j].activity = "applied" =>
                      infra'[d] = IF job'[j].doing = "destroy" THEN None ELSE agreed[d],
           \A w \in Worker : \/ Stamped(saved'[w][d])
                             \/ job'[j].home = d /\ job'[j].on = w /\ job'[j].activity = "planned"
    PROVE  Told(d)'
<1>1. AgreedInFlight(d)' /\ SpecStored(d)'
  BY DEF Told, AgreedInFlight, SpecStored
<1>2. WorksToAgreed(d)'
  BY DEF WorksToAgreed, Working
<1>3. StampsTrue(d)'
  BY DEF StampsTrue, Stamped
<1>4. Truth(d)'
  BY DEF Truth, InFlight, IN_FLIGHT
<1> QED
  BY <1>1, <1>2, <1>3, <1>4 DEF Told

\* Nobody else works on what a run of an unabandoned record works on.
LEMMA OnlyAtWork ==
    ASSUME TypeOK, NEW j \in Job, NEW d \in Deployment, Kept(d), Live(j, d)
    PROVE  /\ InFlight(d)
           /\ \A k \in Job : k # j => (job[k].home = d => job[k].activity \notin Working)
BY DEF Kept, LiveInFlight, OneLive, Live, Quiet, Working

\* Where no plan is still to be stamped, all are.
LEMMA AllStamped ==
    ASSUME NEW d \in Deployment, Told(d), NEW j \in Job,
           \A k \in Job : k # j => (job[k].home = d => job[k].activity \notin Working),
           NEW w \in Worker, job[j].activity # "planned" \/ job[j].on # w
    PROVE  Stamped(saved[w][d])
BY DEF Told, StampsTrue, Working

\* A step of run j leaves other deployments alone.
LEMMA ToldElsewhere ==
    ASSUME TypeOK, TypeOK', NEW j \in Job,
           Activity(j) \/ WorkerStops(j) \/ Workflow(j),
           NEW d \in Deployment, d # job[j].home, Told(d)
    PROVE  Told(d)'
<1> DEFINE e == job[j].home
<1>1. /\ UNCHANGED <<agreed, request>>
      /\ \A k \in Job : k # j => job'[k] = job[k]
      /\ job'[j].home \in {e, None}
  <2>1. job \in [Job -> JobRow]
    BY DEF TypeOK
  <2>2. UNCHANGED <<agreed, request>>
    BY DEF Activity, Workflow, Load, Plan, Planned, Stamp, Apply, Destroy, Applied, Report, Fail,
           WorkerStops, Ack, Timeout, mark_failed
  <2>3. CASE UNCHANGED job
    BY <2>2, <2>3
  <2>4. ASSUME NEW row, job' = [job EXCEPT ![j] = row], row.home \in {e, None}
        PROVE  /\ \A k \in Job : k # j => job'[k] = job[k]
               /\ job'[j].home \in {e, None}
    BY <2>1, <2>4
  <2>5. CASE \/ \E w \in Worker : Load(j, w)
             \/ Plan(j) \/ Planned(j) \/ Stamp(j) \/ Apply(j) \/ Destroy(j) \/ Applied(j) \/ Report(j)
    <3>1. job[j] \in JobRow
      BY <2>1
    <3>2. CASE \E w \in Worker : Load(j, w)
      BY <2>1, <3>1, <3>2 DEF Load, JobRow
    <3>3. CASE Apply(j)
      BY <2>1, <3>1, <3>3 DEF Apply, JobRow
    <3>4. ASSUME NEW activity, job' = [job EXCEPT ![j].activity = activity]
          PROVE  /\ \A k \in Job : k # j => job'[k] = job[k]
                 /\ job'[j].home \in {e, None}
      BY <2>1, <3>1, <3>4 DEF JobRow
    <3> QED
      BY <2>2, <2>5, <3>2, <3>3, <3>4 DEF Plan, Planned, Stamp, Destroy, Applied, Report
  <2>6. CASE Fail(j) \/ WorkerStops(j) \/ Workflow(j)
    <3>1. UNCHANGED job \/ \E step, activity : Goes(j, step, activity)
      BY <2>6 DEF Fail, WorkerStops, Workflow, Ack, Timeout, mark_failed
    <3>2. ASSUME NEW step, NEW activity, Goes(j, step, activity)
          PROVE  \E row : job' = [job EXCEPT ![j] = row] /\ row.home \in {e, None}
      <4>1. Went(job[j], step, activity).home \in {e, None}
        <5>1. job[j] \in JobRow
          BY <2>1
        <5> QED
          BY <5>1, NoJobTyped DEF Went, JobRow, NoJob
      <4> QED
        BY <3>2, <4>1, GoesWent
    <3> QED
      BY <2>2, <2>3, <2>4, <3>1, <3>2
  <2> QED
    BY <2>2, <2>5, <2>6 DEF Activity
<1>2. /\ record'[d] = record[d] /\ infra'[d] = infra[d]
      /\ \A w \in Worker : saved'[w][d] = saved[w][d]
  <2>1. /\ record \in [Deployment -> [state : State, spec : Spec]]
        /\ infra \in [Deployment -> Spec \cup {None, "partial"}]
        /\ saved \in [Worker -> [Deployment -> DiskRow]]
    BY DEF TypeOK
  <2>2. record' = record \/ \E state : record' = Written(e, state)
    BY DEF Activity, Workflow, Load, Plan, Planned, Stamp, Apply, Destroy, Applied, Report, Fail,
           WorkerStops, Ack, Timeout, mark_failed
  <2>3. infra' = infra \/ \E x : infra' = [infra EXCEPT ![e] = x]
    BY DEF Activity, Workflow, Load, Plan, Planned, Stamp, Apply, Destroy, Applied, Report, Fail,
           WorkerStops, Ack, Timeout, mark_failed, Touched
  <2>4. saved' = saved \/ \E disk : Keeps(j, disk)
    BY DEF Activity, Workflow, Load, Plan, Planned, Stamp, Apply, Destroy, Applied, Report, Fail,
           WorkerStops, Ack, Timeout, mark_failed, Leaves, Prepares
  <2>5. \A w \in Worker : saved'[w][d] = saved[w][d]
    <3>1. ASSUME NEW disk, Keeps(j, disk), NEW w \in Worker PROVE saved'[w][d] = saved[w][d]
      <4>1. saved'[w] = IF w = job[j].on THEN [saved[w] EXCEPT ![e] = disk] ELSE saved[w]
        BY <2>1, <3>1 DEF Keeps
      <4> QED
        BY <2>1, <4>1
    <3> QED
      BY <2>4, <3>1
  <2>6. record'[d] = record[d]
    <3>1. \A state : Written(e, state)[d] = record[d]
      BY <2>1 DEF Written
    <3> QED
      BY <2>2, <3>1
  <2>7. infra'[d] = infra[d]
    BY <2>1, <2>3
  <2> QED
    BY <2>5, <2>6, <2>7
<1>3. SameWork(d)
  BY <1>1, NoJobTyped DEF SameWork
<1>4. \A k \in Job : job[k].activity # "none" => job[k].on \in Worker
  BY Employed
<1> QED
  BY <1>1, <1>2, <1>3, <1>4, ToldOn

\* Requests' steps.
LEMMA ToldByAsk ==
    ASSUME TypeOK, NEW q \in Request, NEW e \in Deployment,
           \/ create_deployment(q, e) \/ retry_deployment(q, e)
           \/ update_deployment(q, e) \/ destroy_deployment(q, e),
           NEW d \in Deployment, Told(d)
    PROVE  Told(d)'
<1>1. PICK kind \in Asked \ {"respecced", "updated"} :
          \E spec : Ask(q, kind, e, spec) /\ (kind = "destroy" => spec = record[e].spec)
  BY DEF create_deployment, retry_deployment, update_deployment, destroy_deployment, Asked
<1>2. PICK spec : Ask(q, kind, e, spec) /\ (kind = "destroy" => spec = record[e].spec)
  BY <1>1
<1>3. /\ UNCHANGED <<record, agreed, job, saved, infra>>
      /\ request'[q] = [kind |-> kind, home |-> e, spec |-> spec]
      /\ \A p \in Request : p # q => request'[p] = request[p]
  BY <1>2 DEF Ask, TypeOK
<1>4. SpecStored(d)'
  BY <1>1, <1>2, <1>3 DEF Told, SpecStored
<1>5. AgreedInFlight(d)' /\ WorksToAgreed(d)' /\ StampsTrue(d)' /\ Truth(d)'
  BY <1>3 DEF Told, AgreedInFlight, WorksToAgreed, StampsTrue, Truth, InFlight
<1> QED
  BY <1>4, <1>5 DEF Told

LEMMA ToldByRequest ==
    ASSUME KeptInv, NEW q \in Request,
           \/ Create(q) \/ Revalidate(q) \/ Respec(q) \/ Audited(q) \/ Accept(q) \/ AuditUnavailable(q),
           NEW d \in Deployment \ abandoned, Told(d)
    PROVE  Told(d)'
<1> DEFINE r == request[q]
           e == r.home
<1>1. /\ TypeOK /\ r.kind \in Asked /\ r.kind # "idle" /\ e \in Deployment /\ Kept(d)
      /\ r.kind \in Placing => r.spec \in Spec
      /\ UNCHANGED <<job, saved, infra>>
  <2>1. TypeOK /\ r.kind \in Asked /\ r.kind # "idle" /\ Kept(d)
    BY DEF KeptInv, Create, Revalidate, Respec, Audited, Accept, AuditUnavailable, Asked
  <2> QED
    BY <2>1, Asks DEF Create, Revalidate, Respec, Audited, Accept, AuditUnavailable
<1>2. /\ \A p \in Request : p # q => request'[p] = request[p] /\ request[p].kind \notin Asked
      /\ \/ request'[q] = Idle
         \/ Create(q) /\ request'[q].kind = "created"
         \/ Revalidate(q) /\ request'[q].kind = "respec"
         \/ Respec(q) /\ request'[q].home = e /\ request'[q].spec = r.spec
         \/ (Audited(q) \/ Accept(q)) /\ request'[q].kind \in {"start deploy", "start destroy"}
  <2>1. \A p \in Request : p # q => request[p].kind \notin Asked
    BY <1>1 DEF KeptInv, OneAsked
  <2>2. request \in [Request -> RequestRow]
    BY <1>1 DEF TypeOK
  <2>3. \A p \in Request : p # q => request'[p] = request[p]
    BY <2>2 DEF Create, Revalidate, Respec, Audited, Accept, AuditUnavailable, Answered, Reaches
  <2>4. AuditUnavailable(q) => request'[q] = Idle
    BY <2>2 DEF AuditUnavailable, Answered
  <2>6. Create(q) => request'[q].kind = "created"
    BY <2>2 DEF Create, Reaches
  <2>7. Revalidate(q) => request'[q].kind = "respec"
    BY <2>2 DEF Revalidate, Reaches
  <2>8. Respec(q) => request'[q].home = e /\ request'[q].spec = r.spec
    BY <2>2 DEF Respec, Reaches
  <2>9. Audited(q) \/ Accept(q) => request'[q].kind \in {"start deploy", "start destroy"}
    <3>1. ASSUME NEW kind \in {"start deploy", "start destroy"}, Reaches(q, kind, None)
          PROVE  request'[q].kind = kind
      BY <2>2, <3>1 DEF Reaches
    <3>2. Audited(q) \/ Accept(q) =>
              \E kind \in {"start deploy", "start destroy"} : Reaches(q, kind, None)
      BY DEF Audited, Accept
    <3> QED
      BY <3>1, <3>2
  <2> QED
    BY <2>1, <2>3, <2>4, <2>6, <2>7, <2>8, <2>9
<1>3. CASE d # e
  <2>1. record'[d] = record[d] /\ agreed'[d] = agreed[d]
    BY <1>1, <1>3
       DEF TypeOK, Create, Revalidate, Respec, Audited, Accept, AuditUnavailable, Written
  <2>2. SpecStored(d)'
    BY <1>2, <1>3, <2>1, IdleFields DEF SpecStored, Asked
  <2>3. AgreedInFlight(d)' /\ WorksToAgreed(d)' /\ StampsTrue(d)' /\ Truth(d)'
    BY <1>1, <2>1 DEF Told, AgreedInFlight, WorksToAgreed, StampsTrue, Truth, InFlight
  <2> QED
    BY <2>2, <2>3 DEF Told
<1>4. CASE d = e
  <2>1. record[d] \in [state : State, spec : Spec] /\ record \in [Deployment -> [state : State, spec : Spec]]
    BY <1>1 DEF TypeOK
  <2>2. StampsTrue(d)'
    BY <1>1 DEF Told, StampsTrue
  <2>3. ASSUME Create(q) \/ Accept(q) PROVE Told(d)'
    <3>1. /\ record'[d].state \in IN_FLIGHT /\ record'[d].spec = r.spec /\ agreed'[d] = r.spec
      <4>1. agreed'[d] = r.spec
        BY <1>1, <1>4, <2>3 DEF Create, Accept, TypeOK
      <4>2. CASE Create(q)
        BY <1>4, <2>1, <4>1, <4>2 DEF Create, IN_FLIGHT
      <4>3. CASE Accept(q)
        <5>1. record[d].spec = r.spec
          BY <1>4, <4>3 DEF Accept, Told, SpecStored
        <5>2. PICK state \in IN_FLIGHT : record' = Written(d, state)
          BY <1>4, <4>3 DEF Accept, IN_FLIGHT
        <5>3. record'[d] = [state |-> state, spec |-> record[d].spec]
          BY <2>1, <5>2 DEF Written
        <5> QED
          BY <4>1, <5>1, <5>3
      <4> QED
        BY <2>3, <4>2, <4>3
    <3>2. AgreedInFlight(d)' /\ Truth(d)'
      BY <3>1 DEF AgreedInFlight, Truth, IN_FLIGHT
    <3>3. SpecStored(d)'
      BY <1>2, <2>3, IdleFields DEF SpecStored, Asked, Create, Accept, Respec, Revalidate
    <3>4. WorksToAgreed(d)'
      <4>1. ~InFlight(d)
        BY <1>1, <1>4, <2>3
           DEF Create, Accept, Kept, PendingAtRest, Pending, Asked, InFlight, IN_FLIGHT
      <4>2. \A j \in Job : job[j].home = d => job[j].activity \notin Working
        BY <1>1, <4>1 DEF Kept, LiveInFlight, Live, Quiet, Working
      <4> QED
        BY <1>1, <4>2 DEF WorksToAgreed, Working
    <3> QED
      BY <2>2, <3>2, <3>3, <3>4 DEF Told
  <2>4. ASSUME ~Create(q), ~Accept(q) PROVE Told(d)'
    <3>1. agreed' = agreed /\ WorksToAgreed(d)'
      BY <1>1, <2>4
         DEF Revalidate, Respec, Audited, AuditUnavailable, Told, WorksToAgreed
    <3>2. CASE Respec(q)
      <4>1. record'[d] = [state |-> record[d].state, spec |-> r.spec]
        BY <1>4, <2>1, <3>2 DEF Respec
      <4>2. ~InFlight(d)
        BY <1>1, <1>4, <3>2
           DEF Respec, Kept, PendingAtRest, Pending, Asked, InFlight, IN_FLIGHT
      <4>3. AgreedInFlight(d)' /\ Truth(d)'
        BY <1>1, <3>1, <4>1, <4>2 DEF AgreedInFlight, Truth, InFlight, Told
      <4>4. SpecStored(d)'
        <5>1. request'[q].spec = r.spec
          <6>1. request \in [Request -> RequestRow]
            BY <1>1 DEF TypeOK
          <6> QED
            BY <1>1, <3>2, <6>1 DEF Respec, Reaches
        <5>2. \A p \in Request : p # q => request'[p].kind \notin Asked
          BY <1>2
        <5>3. record'[d].spec = r.spec
          BY <4>1
        <5> HIDE DEF r
        <5> QED
          BY <5>1, <5>2, <5>3 DEF SpecStored, Asked
      <4> QED
        BY <2>2, <3>1, <4>3, <4>4 DEF Told
    <3>3. CASE ~Respec(q)
      <4>1. record' = record \/ record' = Written(d, "failed")
        BY <1>4, <2>4, <3>3 DEF Revalidate, Audited, AuditUnavailable
      <4>2. record'[d].state \in {record[d].state, "failed"} /\ record'[d].spec = record[d].spec
        BY <2>1, <4>1 DEF Written
      <4>3. AgreedInFlight(d)' /\ Truth(d)'
        BY <1>1, <3>1, <4>2 DEF AgreedInFlight, Truth, InFlight, IN_FLIGHT, Told
      <4>4. SpecStored(d)'
        BY <1>2, <2>4, <3>3, IdleFields DEF SpecStored, Asked
      <4> QED
        BY <2>2, <3>1, <4>3, <4>4 DEF Told
    <3> QED
      BY <3>2, <3>3
  <2> QED
    BY <2>3, <2>4
<1> QED
  BY <1>3, <1>4

LEMMA ToldByDispatch ==
    ASSUME TypeOK, NEW q \in Request, Dispatch(q) \/ DispatchFails(q) \/ ApiStops(q),
           NEW d \in Deployment, Told(d)
    PROVE  Told(d)'
<1>1. UNCHANGED <<agreed, saved, infra>> /\ \A p \in Request : request'[p] \in {request[p], Idle}
  BY DEF TypeOK, Dispatch, DispatchFails, ApiStops, Answered
<1>2. record'[d].spec = record[d].spec /\ record'[d].state \in {record[d].state, "failed"}
  <2>1. record \in [Deployment -> [state : State, spec : Spec]]
    BY DEF TypeOK
  <2>2. record' = record \/ \E e : record' = Written(e, "failed")
    BY DEF Dispatch, DispatchFails, ApiStops
  <2> QED
    BY <2>1, <2>2 DEF Written
<1>3. SameWork(d)
  <2>1. CASE UNCHANGED job
    BY <2>1 DEF SameWork
  <2>2. CASE Start(q) /\ request[q].home \in Deployment
    <3>1. PICK j \in Job : job[j] = NoJob /\ job' = [job EXCEPT ![j] = NewRun(request[q].home, request[q].kind)]
      BY <2>2, StartsRun
    <3>2. NewRun(request[q].home, request[q].kind).activity = "none"
      BY <2>2, NewRunTyped
    <3>3. /\ job'[j].activity = "none" /\ job[j].home = None
          /\ \A k \in Job : k # j => job'[k] = job[k]
      BY <3>1, <3>2, NoJobTyped DEF TypeOK
    <3> QED
      BY <3>3, NoJobTyped DEF SameWork, Working
  <2> QED
    BY <2>1, <2>2, Asks DEF Dispatch, DispatchFails, ApiStops, Starting
<1>4. \A j \in Job : job[j].activity # "none" => job[j].on \in Worker
  BY Employed
<1>5. \A p \in Request : request'[p].home = d => request'[p] = request[p]
  BY <1>1, IdleFields, NoJobTyped
<1> QED
  BY <1>1, <1>2, <1>3, <1>4, <1>5, ToldOn

\* The steps of a run at work on d.
LEMMA ToldByWork ==
    ASSUME KeptInv, TypeOK', NEW j \in Job,
           \/ \E w \in Worker : Load(j, w)
           \/ Plan(j) \/ Planned(j) \/ Stamp(j) \/ Apply(j) \/ Destroy(j) \/ Applied(j)
           \/ Fail(j) \/ (WorkerStops(j) /\ AtWork(j)),
           NEW d \in Deployment, d = job[j].home, d \notin abandoned', Told(d),
           d \notin mislabelled'
    PROVE  Told(d)'
<1> DEFINE old == job[j]
           new == job'[j]
<1>1. /\ TypeOK /\ UNCHANGED <<agreed, request>> /\ d \notin abandoned
      /\ job \in [Job -> JobRow] /\ job' \in [Job -> JobRow]
      /\ old \in JobRow /\ new \in JobRow
  BY DEF KeptInv, TypeOK, Load, Plan, Planned, Stamp, Apply, Destroy, Applied, Fail, WorkerStops
<1>3. Kept(d) /\ Live(j, d)
  <2>1. Kept(d)
    BY <1>1 DEF KeptInv
  <2>2. CASE old.activity \in Working
    BY <2>1, <2>2 DEF Live, Quiet, Working
  <2>3. CASE \E w \in Worker : Load(j, w)
    BY <2>1, <2>3, Tables DEF Load, Live, Quiet
  <2> QED
    BY <2>2, <2>3
       DEF Plan, Planned, Stamp, Apply, Destroy, Applied, Fail, WorkerStops, AtWork, Working
<1>4. InFlight(d) /\ \A k \in Job : k # j => (job[k].home = d => job[k].activity \notin Working)
  BY <1>1, <1>3, OnlyAtWork
<1>5. /\ record'[d].spec = record[d].spec /\ InFlight(d)'
      /\ \A k \in Job : k # j => job'[k] = job[k]
  <2>1. CASE \E w \in Worker : Load(j, w)
    <3>1. PICK step \in DOMAIN Doing : record' = Written(d, Doing[step])
      BY <2>1 DEF Load
    <3>2. Doing[step] \in IN_FLIGHT /\ Doing[step] \in State
      BY Tables DEF State
    <3>3. record'[d] = [state |-> Doing[step], spec |-> record[d].spec]
      BY <1>1, <3>1, <3>2, WrittenTyped
    <3>4. \A k \in Job : k # j => job'[k] = job[k]
      BY <1>1, <2>1 DEF Load
    <3> QED
      BY <3>2, <3>3, <3>4 DEF InFlight
  <2>2. CASE ~\E w \in Worker : Load(j, w)
    <3>1. record' = record
      BY <2>2 DEF Plan, Planned, Stamp, Apply, Destroy, Applied, Fail, WorkerStops
    <3>2. \A k \in Job : k # j => job'[k] = job[k]
      BY <1>1, <2>2 DEF Plan, Planned, Stamp, Apply, Destroy, Applied, Fail, WorkerStops, Goes
    <3> QED
      BY <1>4, <3>1, <3>2 DEF InFlight
  <2> QED
    BY <2>1, <2>2
<1>6. ASSUME \/ new.activity \notin Working
             \/ /\ new.activity \in Working /\ new.spec = agreed[d]
                /\ new.activity \in {"planned", "ready"} => saved'[new.on][d].plan = agreed[d]
                /\ new.activity = "applied" =>
                       infra'[d] = IF new.doing = "destroy" THEN None ELSE agreed[d],
             \A w \in Worker : \/ Stamped(saved'[w][d])
                               \/ new.home = d /\ new.on = w /\ new.activity = "planned"
      PROVE  Told(d)'
  BY <1>1, <1>4, <1>5, <1>6, ToldByRun DEF Working
<1>7. /\ old.activity \in Working => old.spec = agreed[d] /\ old.on \in Worker
      /\ old.activity \in {"planned", "ready"} => saved[old.on][d].plan = agreed[d]
      /\ record[d].spec = agreed[d] /\ agreed[d] \in Spec /\ agreed[d] # None
      /\ saved \in [Worker -> [Deployment -> DiskRow]]
  <2>1. old.activity \in Working => old.on \in Worker
    BY <1>1, Employed DEF Working
  <2>2. agreed[d] \in Spec /\ agreed[d] # None /\ saved \in [Worker -> [Deployment -> DiskRow]]
    BY <1>1, NoJobTyped DEF TypeOK
  <2> QED
    BY <1>4, <2>1, <2>2 DEF Told, WorksToAgreed, AgreedInFlight
<1>8. \A w \in Worker : old.activity # "planned" \/ old.on # w => Stamped(saved[w][d])
  BY <1>4, AllStamped
<1>9. \A disk \in DiskRow : Keeps(j, disk) /\ old.on \in Worker =>
          /\ saved'[old.on][d] = disk
          /\ \A w \in Worker : w # old.on => saved'[w][d] = saved[w][d]
  BY <1>7 DEF Keeps
<1>10. NoPlan \in DiskRow /\ Stamped(NoPlan)
  BY DEF NoPlan, DiskRow, Stamped
<1>11. CASE \E w \in Worker : Load(j, w)
  <2>1. /\ new.activity = "loaded" /\ new.spec = record[d].spec /\ saved' = saved
        /\ old.activity = "none"
    <3>1. PICK w \in Worker : Load(j, w)
      BY <1>11
    <3> DEFINE row == [old EXCEPT !.activity = "loaded", !.doing = old.step, !.spec = record[d].spec,
                                  !.on = w]
    <3>2. job' = [job EXCEPT ![j] = row]
      BY <1>1, <3>1 DEF Load
    <3>3. row.activity = "loaded" /\ row.spec = record[d].spec
      BY <1>1 DEF JobRow
    <3> HIDE DEF row
    <3> QED
      BY <1>1, <3>1, <3>2, <3>3 DEF Load
  <2> QED
    BY <1>6, <1>7, <1>8, <2>1 DEF Working
<1>p. ASSUME Prepares(j), old.activity = "loaded"
      PROVE  \A w \in Worker : Stamped(saved'[w][d])
  <2>1. CASE UNCHANGED saved
    BY <1>8, <1>p, <2>1
  <2>2. CASE Keeps(j, NoPlan)
    BY <1>7, <1>8, <1>9, <1>10, <1>p, <2>2 DEF Working
  <2> QED
    BY <1>p, <2>1, <2>2 DEF Prepares
<1>12. CASE Plan(j)
  <2>1. /\ new.activity = "planning" /\ new.spec = old.spec /\ old.activity = "loaded"
        /\ Prepares(j)
    BY <1>1, <1>12 DEF Plan, JobRow
  <2> QED
    BY <1>6, <1>7, <1>p, <2>1 DEF Working
<1>13. CASE Planned(j)
  <2> DEFINE disk == [Disk(j) EXCEPT !.plan = old.spec]
  <2>1. /\ new.activity = "planned" /\ new.spec = old.spec /\ old.activity = "planning"
        /\ new.on = old.on /\ new.home = d /\ Keeps(j, disk)
    BY <1>1, <1>13 DEF Planned, JobRow
  <2>2. disk \in DiskRow /\ disk.plan = old.spec
    <3>1. Disk(j) \in DiskRow /\ old.spec \in Spec
      BY <1>7, <2>1 DEF Disk, Working
    <3> QED
      BY <3>1 DEF DiskRow
  <2> HIDE DEF disk
  <2>3. /\ saved'[old.on][d] = disk
        /\ \A w \in Worker : w # old.on => saved'[w][d] = saved[w][d]
    BY <1>7, <1>9, <2>1, <2>2 DEF Working
  <2>4. \A w \in Worker : w # old.on => Stamped(saved'[w][d])
    BY <1>8, <2>3
  <2>5. saved'[new.on][d].plan = agreed[d] /\ new.spec = agreed[d]
    BY <1>7, <2>1, <2>2, <2>3 DEF Working
  <2> HIDE DEF old, new
  <2> QED
    BY <1>6, <2>1, <2>4, <2>5 DEF Working
<1>14. CASE Stamp(j)
  <2> DEFINE disk == [Disk(j) EXCEPT !.stamp = old.spec]
  <2>1. /\ new.activity \in {"done", "ready"} /\ new.spec = old.spec /\ old.activity = "planned"
        /\ new.on = old.on /\ new.home = d /\ Keeps(j, disk)
    BY <1>1, <1>14 DEF Stamp, JobRow
  <2>2. disk \in DiskRow /\ disk.stamp = old.spec /\ disk.plan = agreed[d]
    <3>1. Disk(j) \in DiskRow /\ Disk(j).plan = agreed[d] /\ old.spec \in Spec
      BY <1>7, <2>1 DEF Disk, Working
    <3> QED
      BY <3>1 DEF DiskRow
  <2> HIDE DEF disk
  <2>3. /\ saved'[old.on][d] = disk
        /\ \A w \in Worker : w # old.on => saved'[w][d] = saved[w][d]
    BY <1>7, <1>9, <2>1, <2>2 DEF Working
  <2>4. new.spec = agreed[d] /\ Stamped(disk)
    BY <1>7, <2>1, <2>2 DEF Working, Stamped
  <2>5. \A w \in Worker : Stamped(saved'[w][d])
    BY <1>8, <2>3, <2>4
  <2>6. saved'[new.on][d].plan = agreed[d]
    BY <2>1, <2>2, <2>3
  <2> HIDE DEF old, new
  <2> QED
    BY <1>6, <2>1, <2>4, <2>5, <2>6 DEF Working
<1>15. CASE Apply(j)
  <2> DEFINE plan == Disk(j).plan
  <2>1. /\ new.activity = "running" /\ new.spec = plan /\ saved' = saved
        /\ old.activity = "ready" \/ (old.activity = "loaded" /\ is_saved(j))
    BY <1>1, <1>15 DEF Apply, JobRow
  <2>2. Stamped(Disk(j)) /\ \A w \in Worker : Stamped(saved'[w][d])
    BY <1>7, <1>8, <2>1 DEF Disk, Working
  <2>3. plan = agreed[d]
    <3>1. CASE old.activity = "ready"
      BY <1>7, <3>1 DEF Disk
    <3>2. CASE old.activity = "loaded" /\ is_saved(j)
      BY <1>7, <2>2, <3>2 DEF is_saved, Stamped, Working
    <3> QED
      BY <2>1, <3>1, <3>2
  <2> HIDE DEF plan
  <2> QED
    BY <1>6, <2>1, <2>2, <2>3 DEF Working
<1>16. CASE Destroy(j)
  <2>1. /\ new.activity = "running" /\ new.spec = old.spec /\ old.activity = "loaded"
        /\ Prepares(j)
    BY <1>1, <1>16 DEF Destroy, JobRow
  <2> QED
    BY <1>6, <1>7, <1>p, <2>1 DEF Working
<1>17. CASE Applied(j)
  <2>1. /\ new.activity = "applied" /\ new.spec = old.spec /\ old.activity = "running"
        /\ new.doing = old.doing /\ saved' = saved
    BY <1>1, <1>17 DEF Applied, JobRow
  <2>2. infra'[d] = IF new.doing = "destroy" THEN None ELSE agreed[d]
    BY <1>1, <1>7, <1>17, <2>1 DEF Applied, TypeOK, Working
  <2>3. \A w \in Worker : Stamped(saved'[w][d])
    BY <1>8, <2>1
  <2>4. new.spec = agreed[d]
    BY <1>7, <2>1 DEF Working
  <2> HIDE DEF old, new
  <2> QED
    BY <1>6, <2>1, <2>2, <2>3, <2>4 DEF Working
<1>18. CASE Fail(j) \/ (WorkerStops(j) /\ AtWork(j))
  <2>1. new.activity \notin Working /\ old.activity \in Working
    <3>1. PICK step, activity : Goes(j, step, activity) /\ activity \in {"none", "lost"}
      BY <1>18 DEF Fail, WorkerStops
    <3>2. job' = [job EXCEPT ![j] = Went(old, step, activity)]
      BY <1>1, <3>1, GoesWent
    <3>3. Went(old, step, activity).activity \notin Working
      BY <1>1, <3>1, NoJobTyped DEF Went, JobRow, Working, NoJob
    <3> QED
      BY <1>1, <1>18, <3>2, <3>3 DEF Fail, WorkerStops, AtWork, Working
  <2>2. \A w \in Worker : Stamped(saved'[w][d])
    <3>1. CASE UNCHANGED saved
      <4>1. old.activity = "planned" => Disk(j).stamp \in {None, old.spec}
        <5>1. Mislabels(j)
          BY <1>18 DEF Fail, WorkerStops
        <5> QED
          BY <5>1 DEF Mislabels
      <4>2. old.activity = "planned" => Stamped(saved[old.on][d])
        BY <1>7, <4>1 DEF Disk, Stamped, Working
      <4> QED
        BY <1>8, <3>1, <4>2
    <3>2. ASSUME old.activity = "applied",
                 NEW disk \in {NoPlan, [Disk(j) EXCEPT !.plan = None]}, Keeps(j, disk)
          PROVE  \A w \in Worker : Stamped(saved'[w][d])
      <4>1. disk \in DiskRow /\ Stamped(disk)
        <5>1. Disk(j) \in DiskRow
          BY <1>7, <3>2 DEF Disk, Working
        <5>2. [Disk(j) EXCEPT !.plan = None] \in DiskRow /\ [Disk(j) EXCEPT !.plan = None].plan = None
          BY <5>1 DEF DiskRow
        <5> QED
          BY <1>10, <3>2, <5>2 DEF Stamped
      <4> QED
        BY <1>7, <1>8, <1>9, <3>2, <4>1 DEF Working
    <3> QED
      BY <1>18, <3>1, <3>2 DEF Fail, WorkerStops, Leaves
  <2> QED
    BY <1>6, <2>1, <2>2
<1> QED
  BY <1>11, <1>12, <1>13, <1>14, <1>15, <1>16, <1>17, <1>18

LEMMA ToldByReport ==
    ASSUME KeptInv, NEW j \in Job, Report(j), NEW d \in Deployment, d = job[j].home,
           d \notin abandoned, Told(d)
    PROVE  Told(d)'
<1> DEFINE destroyed == job[j].doing = "destroy"
<1>1. /\ TypeOK /\ Kept(d) /\ job[j].activity = "applied" /\ job[j].on \in Worker /\ job[j] \in JobRow
      /\ UNCHANGED <<agreed, request, infra>>
  BY Employed DEF KeptInv, Report
<1>2. Live(j, d)
  BY <1>1 DEF Live, Quiet
<1>3. \A k \in Job : k # j => job'[k] = job[k] /\ (job[k].home = d => job[k].activity \notin Working)
  BY <1>1, <1>2, OnlyAtWork DEF Report, TypeOK
<1>4. job'[j].activity = "done"
  BY <1>1 DEF Report, TypeOK
<1>5. record'[d] = [state |-> IF destroyed THEN "destroyed" ELSE "succeeded", spec |-> record[d].spec]
  <2>1. PICK state \in State : /\ record' = Written(d, state)
                               /\ state = IF destroyed THEN "destroyed" ELSE "succeeded"
    BY DEF Report, State
  <2> QED
    BY <1>1, <2>1, WrittenTyped
<1>6. AgreedInFlight(d)' /\ SpecStored(d)'
  BY <1>1, <1>5 DEF Told, AgreedInFlight, SpecStored, InFlight, IN_FLIGHT
<1>7. WorksToAgreed(d)'
  BY <1>3, <1>4 DEF WorksToAgreed, Working
<1>8. StampsTrue(d)'
  <2>1. \A w \in Worker : Stamped(saved[w][d])
    BY <1>1, <1>3, AllStamped
  <2>2. CASE UNCHANGED saved
    BY <2>1, <2>2 DEF StampsTrue
  <2>3. CASE Keeps(j, NoPlan)
    <3>1. \A w \in Worker : saved'[w][d] \in {saved[w][d], NoPlan}
      BY <1>1, <2>3 DEF Keeps, TypeOK
    <3>2. \A w \in Worker : Stamped(saved'[w][d])
      BY <2>1, <3>1 DEF Stamped, NoPlan
    <3> QED
      BY <3>2 DEF StampsTrue, Stamped
  <2> QED
    BY <2>2, <2>3 DEF Report
<1>9. Truth(d)'
  BY <1>1, <1>5 DEF Told, WorksToAgreed, Truth
<1> QED
  BY <1>6, <1>7, <1>8, <1>9 DEF Told

\* What ends or loses a run that is at work on nothing.
LEMMA ToldByEnd ==
    ASSUME KeptInv, NEW j \in Job,
           (WorkerStops(j) /\ ~AtWork(j)) \/ Ack(j) \/ Timeout(j) \/ mark_failed(j),
           NEW d \in Deployment, d = job[j].home, d \notin abandoned', Told(d)
    PROVE  Told(d)'
<1>1. /\ TypeOK /\ d \notin abandoned /\ UNCHANGED <<agreed, request, infra, saved>>
  BY DEF KeptInv, WorkerStops, Ack, Timeout, mark_failed, Abandons, Touched, Leaves, AtWork
<1>2. record'[d].spec = record[d].spec /\ record'[d].state \in {record[d].state, "failed"}
  <2>1. record' = record \/ record' = Written(d, "failed")
    BY DEF WorkerStops, Ack, Timeout, mark_failed
  <2>2. "failed" \in State
    BY DEF State
  <2>3. Written(d, "failed")[d] = [state |-> "failed", spec |-> record[d].spec]
    BY <1>1, <2>2, WrittenTyped
  <2> QED
    BY <2>1, <2>3
<1>3. job[j].activity \notin Working
  <2>1. CASE mark_failed(j)
    <3>1. Does(job[j]) /\ job[j].step = "mark"
      BY <1>1, <2>1 DEF KeptInv, Kept, DoesItsStep, mark_failed
    <3>2. job[j] \in JobRow
      BY <1>1 DEF TypeOK
    <3> QED
      BY <3>1, <3>2 DEF Does, JobRow, Working
  <2>2. CASE Timeout(j)
    BY <2>2 DEF Timeout, AtWork, Working
  <2> QED
    BY <2>1, <2>2 DEF WorkerStops, Ack, AtWork, Working
<1>4. SameWork(d)
  <2>1. UNCHANGED job \/ /\ \A k \in Job : k # j => job'[k] = job[k]
                         /\ job'[j].activity \notin Working
    <3>1. UNCHANGED job \/ \E step, activity : Goes(j, step, activity) /\ activity \notin Working
      <4>1. \A s \in {"none", "lost"} : s \notin Working
        BY DEF Working
      <4> QED
        BY <1>3, <4>1 DEF WorkerStops, Ack, Timeout, mark_failed, AtWork, Working
    <3>2. ASSUME NEW step, NEW activity, Goes(j, step, activity), activity \notin Working
          PROVE  /\ \A k \in Job : k # j => job'[k] = job[k]
                 /\ job'[j].activity \notin Working
      <4>1. job' = [job EXCEPT ![j] = Went(job[j], step, activity)]
        BY <1>1, <3>2, GoesWent
      <4>2. Went(job[j], step, activity).activity \notin Working
        <5>1. job[j] \in JobRow
          BY <1>1 DEF TypeOK
        <5> QED
          BY <3>2, <5>1, NoJobTyped DEF Went, JobRow, NoJob, Working
      <4> QED
        BY <1>1, <4>1, <4>2 DEF TypeOK
    <3> QED
      BY <3>1, <3>2
  <2> QED
    BY <1>3, <2>1 DEF SameWork, Working
<1>5. \A k \in Job : job[k].activity # "none" => job[k].on \in Worker
  BY <1>1, Employed
<1> QED
  BY <1>1, <1>2, <1>4, <1>5, ToldOn

LEMMA ToldBySweep ==
    ASSUME TypeOK, NEW e \in Deployment, List(e) \/ sweep(e), NEW d \in Deployment, Told(d)
    PROVE  Told(d)'
<1>1. UNCHANGED <<agreed, request, job, saved, infra>>
  BY DEF List, sweep
<1>2. record'[d].spec = record[d].spec /\ record'[d].state \in {record[d].state, "failed"}
  <2>1. record \in [Deployment -> [state : State, spec : Spec]]
    BY DEF TypeOK
  <2> QED
    BY <2>1 DEF List, sweep, Written
<1>3. SameWork(d) /\ \A k \in Job : job[k].activity # "none" => job[k].on \in Worker
  BY <1>1, Employed DEF SameWork
<1> QED
  BY <1>1, <1>2, <1>3, ToldOn

LEMMA ToldStep ==
    ASSUME KeptInv, KeptInv', ToldInv, [Next]_vars
    PROVE  ToldInv'
<1> SUFFICES ASSUME NEW d \in Deployment, d \notin abandoned', d \notin mislabelled'
             PROVE  Told(d)'
  BY DEF ToldInv
<1>1. TypeOK /\ TypeOK'
  BY DEF KeptInv
<1>2. d \notin abandoned /\ d \notin mislabelled
  BY DEF Next, vars, Api, Ask_any, Activity, Workflow, Recovery, Abandons, Ask, Mislabels,
         create_deployment, retry_deployment, update_deployment, destroy_deployment, Create,
         Revalidate, Respec, Audited, Accept, AuditUnavailable, Dispatch, DispatchFails, ApiStops,
         Load, Plan, Planned, Stamp, Apply, Destroy, Applied, Report, Fail, WorkerStops, Ack, Timeout,
         mark_failed, List, sweep
<1>3. Told(d)
  BY <1>2 DEF ToldInv
<1>4. CASE UNCHANGED vars
  BY <1>3, <1>4 DEF vars, Told, AgreedInFlight, SpecStored, WorksToAgreed, StampsTrue, Truth, InFlight
<1>5. ASSUME NEW q \in Request, Ask_any(q) \/ Api(q) PROVE Told(d)'
  BY <1>1, <1>2, <1>3, <1>5, ToldByAsk, ToldByRequest, ToldByDispatch DEF Api, Ask_any
<1>6. ASSUME NEW j \in Job, Activity(j) \/ WorkerStops(j) \/ Workflow(j) PROVE Told(d)'
  <2>1. CASE d # job[j].home
    BY <1>1, <1>3, <1>6, <2>1, ToldElsewhere
  <2>2. CASE d = job[j].home
    <3>1. CASE \/ \E w \in Worker : Load(j, w)
               \/ Plan(j) \/ Planned(j) \/ Stamp(j) \/ Apply(j) \/ Destroy(j) \/ Applied(j)
               \/ Fail(j) \/ (WorkerStops(j) /\ AtWork(j))
      BY <1>1, <1>3, <2>2, <3>1, ToldByWork
    <3>2. CASE Report(j)
      BY <1>2, <1>3, <2>2, <3>2, ToldByReport
    <3>3. CASE (WorkerStops(j) /\ ~AtWork(j)) \/ Ack(j) \/ Timeout(j) \/ mark_failed(j)
      BY <1>3, <2>2, <3>3, ToldByEnd
    <3> QED
      BY <1>6, <3>1, <3>2, <3>3 DEF Activity, Workflow
  <2> QED
    BY <2>1, <2>2
<1>7. ASSUME NEW e \in Deployment, Recovery(e) PROVE Told(d)'
  BY <1>1, <1>3, <1>7, ToldBySweep DEF Recovery
<1> QED
  BY <1>4, <1>5, <1>6, <1>7 DEF Next

\* Of a deployment that nobody abandoned and no plan of which was left under
\* another's stamp, the record says what exists: what it was last accepted
\* with, or nothing.
THEOREM RecordsTrue ==
    ASSUME OneProcess
    PROVE  DeploymentsSpec => []RecordIsTrue
<1>1. Init => KeptInv /\ ToldInv
  BY KeptInit, ToldInit
<1>2. KeptInv /\ ToldInv /\ [Next]_vars => (KeptInv /\ ToldInv)'
  BY KeptStep, ToldStep
<1>3. ToldInv => RecordIsTrue
  BY DEF ToldInv, Told, Truth, RecordIsTrue
<1> QED
  BY <1>1, <1>2, <1>3, PTL DEF DeploymentsSpec

-----------------------------------------------------------------------------
(* The budget                                                               *)

Uncounted == {"none", "destroyed"}
RecordRow == [state : State, spec : Spec]
Records == [Deployment -> RecordRow]

Amount(row) == IF row.state \in Uncounted THEN 0 ELSE Cost[row.spec]

CommittedOf(table, S) ==
    SumFunctionOnSet([d \in Deployment |-> Cost[table[d].spec]],
                     {d \in S : table[d].state \notin Uncounted})

LEMMA CommittedIs == committed = CommittedOf(record, Deployment)
BY DEF committed, CommittedOf, Uncounted

\* The total is what one record counts for and what the others do.
LEMMA CommittedSplit ==
    ASSUME NEW table \in Records, NEW e \in Deployment
    PROVE  /\ CommittedOf(table, Deployment) = Amount(table[e]) + CommittedOf(table, Deployment \ {e})
           /\ CommittedOf(table, Deployment) \in Nat /\ CommittedOf(table, Deployment \ {e}) \in Nat
           /\ Amount(table[e]) \in Nat
<1> DEFINE f == [d \in Deployment |-> Cost[table[d].spec]]
           all == {d \in Deployment : table[d].state \notin Uncounted}
           others == {d \in Deployment \ {e} : table[d].state \notin Uncounted}
<1>1. \A d \in Deployment : Cost[table[d].spec] \in Nat /\ f[d] = Cost[table[d].spec]
  BY SpecAssumption DEF Records, RecordRow
<1>2. IsFiniteSet(all) /\ IsFiniteSet(others)
  BY DeploymentAssumption, FS_Subset
<1>3. SumFunctionOnSet(f, all) \in Nat /\ SumFunctionOnSet(f, others) \in Nat
  <2>1. \A d \in all : f[d] \in Nat
    BY <1>1
  <2>2. \A d \in others : f[d] \in Nat
    BY <1>1
  <2> HIDE DEF f, all, others
  <2> QED
    BY <1>2, <2>1, <2>2, SumNat
<1>4. CASE table[e].state \in Uncounted
  <2>1. all = others /\ Amount(table[e]) = 0
    BY <1>4 DEF Amount
  <2>2. /\ CommittedOf(table, Deployment) = SumFunctionOnSet(f, all)
        /\ CommittedOf(table, Deployment \ {e}) = SumFunctionOnSet(f, all)
    BY <2>1, Zenon DEF CommittedOf
  <2> HIDE DEF f, all
  <2> QED
    BY <1>3, <2>1, <2>2
<1>5. CASE table[e].state \notin Uncounted
  <2>1. e \in all /\ all \ {e} = others /\ Amount(table[e]) = f[e]
    BY <1>1, <1>5 DEF Amount
  <2>2. SumFunctionOnSet(f, all) = f[e] + SumFunctionOnSet(f, all \ {e})
    <3>1. \A d \in all : f[d] \in Nat
      BY <1>1
    <3> HIDE DEF f, all
    <3> QED
      BY <1>2, <2>1, <3>1, SumSplit
  <2> QED
    BY <1>1, <1>3, <2>1, <2>2 DEF CommittedOf
<1> QED
  BY <1>4, <1>5

\* One record that changes changes the total by as much.
LEMMA CommittedMoves ==
    ASSUME NEW table \in Records, NEW new \in Records, NEW e \in Deployment,
           \A d \in Deployment : d # e => new[d] = table[d]
    PROVE  /\ CommittedOf(new, Deployment) + Amount(table[e])
                = CommittedOf(table, Deployment) + Amount(new[e])
           /\ CommittedOf(new, Deployment) \in Nat /\ CommittedOf(table, Deployment) \in Nat
           /\ Amount(table[e]) \in Nat /\ Amount(new[e]) \in Nat
<1> DEFINE S == {d \in Deployment \ {e} : table[d].state \notin Uncounted}
           f == [d \in Deployment |-> Cost[table[d].spec]]
           g == [d \in Deployment |-> Cost[new[d].spec]]
<1>1. S = {d \in Deployment \ {e} : new[d].state \notin Uncounted} /\ IsFiniteSet(S)
  BY DeploymentAssumption, FS_Subset
<1>2. \A d \in S : g[d] = f[d]
  OBVIOUS
<1>3. SumFunctionOnSet(g, S) = SumFunctionOnSet(f, S)
  <2> HIDE DEF S, f, g
  <2> QED
    BY <1>1, <1>2, SumSame
<1>4. CommittedOf(new, Deployment \ {e}) = CommittedOf(table, Deployment \ {e})
  BY <1>1, <1>3 DEF CommittedOf
<1> HIDE DEF S, f, g
<1> QED
  BY <1>4, CommittedSplit

\* A request that passed the budget check still passes it when it stores its
\* spec.
Checked == {"create", "retry", "respec"}
Allowed(q) == fits(request[q].home, request[q].spec)

BudgetInv ==
    abandoned = {} =>
        /\ committed <= Limit
        /\ \A q \in Request : request[q].kind \in Checked => Allowed(q)

LEMMA CheckedFields == Checked \subseteq Asked /\ Checked \subseteq Placing /\ "idle" \notin Checked
BY DEF Checked, Asked, Placing

\* The steps that store no spec write at most a state, over one that counted
\* already.
WritesCounted ==
    \/ record' = record
    \/ \E e \in Deployment : /\ record[e].state \notin Uncounted
                             /\ \E state \in State : record' = Written(e, state)

LEMMA CountedBefore ==
    ASSUME KeptInv, [Next]_vars, abandoned' = {}
    PROVE  \/ \E q \in Request, e \in Deployment :
                  \/ create_deployment(q, e) \/ retry_deployment(q, e)
                  \/ update_deployment(q, e) \/ destroy_deployment(q, e)
           \/ \E q \in Request : Create(q) \/ Respec(q)
           \/ \E q \in Request : Revalidate(q)
           \/ /\ \A q \in Request : request'[q].kind \in Checked => request'[q] = request[q]
              /\ WritesCounted
<1>0. /\ TypeOK /\ abandoned = {} /\ \A d \in Deployment : Kept(d)
  <2>1. abandoned \subseteq abandoned'
    BY DEF Next, vars, Api, Ask_any, Activity, Workflow, Recovery, Abandons, Ask, create_deployment,
           retry_deployment, update_deployment, destroy_deployment, Create, Revalidate, Respec, Audited,
           Accept, AuditUnavailable, Dispatch, DispatchFails, ApiStops, Load, Plan, Planned, Stamp,
           Apply, Destroy, Applied, Report, Fail, WorkerStops, Ack, Timeout, mark_failed, List, sweep
  <2> QED
    BY <2>1 DEF KeptInv
<1>s. \A s \in {"accepted", "planning", "applying", "destroying", "succeeded", "failed", "destroyed"} :
          s \in State
  BY DEF State, IN_FLIGHT
<1>c. \A d \in Deployment : InFlight(d) => record[d].state \notin Uncounted
  BY DEF InFlight, IN_FLIGHT, Uncounted
<1>1. CASE UNCHANGED vars
  BY <1>1 DEF vars, WritesCounted
<1>2. ASSUME NEW q \in Request,
             \/ Audited(q) \/ Accept(q) \/ AuditUnavailable(q) \/ Dispatch(q) \/ DispatchFails(q)
             \/ ApiStops(q)
      PROVE  /\ \A p \in Request : request'[p].kind \in Checked => request'[p] = request[p]
             /\ WritesCounted
  <2> DEFINE e == request[q].home
  <2>1. \A p \in Request : request'[p].kind \in Checked => request'[p] = request[p]
    <3>1. request \in [Request -> RequestRow]
      BY <1>0 DEF TypeOK
    <3>2. CASE Audited(q) \/ Accept(q)
      <4>1. PICK kind \in {"start deploy", "start destroy"} : Reaches(q, kind, None)
        BY <3>2 DEF Audited, Accept
      <4>2. /\ request'[q].kind = kind
            /\ \A p \in Request : p # q => request'[p] = request[p]
        BY <3>1, <4>1 DEF Reaches
      <4> QED
        BY <4>1, <4>2 DEF Checked
    <3>3. CASE ~(Audited(q) \/ Accept(q))
      <4>1. \A p \in Request : request'[p] \in {request[p], Idle}
        BY <1>2, <3>1, <3>3 DEF AuditUnavailable, Dispatch, DispatchFails, ApiStops, Answered
      <4> QED
        BY <4>1, IdleFields, CheckedFields
    <3> QED
      BY <3>2, <3>3
  <2>2. \/ record' = record
        \/ /\ \E state \in State : record' = Written(e, state)
           /\ request[q].kind \in {"created", "start deploy", "start destroy",
                                   "respecced", "updated", "destroy"}
    <3>1. CASE Audited(q) \/ Dispatch(q) \/ ApiStops(q)
      BY <3>1 DEF Audited, Dispatch, ApiStops
    <3>2. CASE DispatchFails(q)
      BY <1>s, <3>2 DEF DispatchFails, Starting
    <3>3. CASE Accept(q)
      BY <1>s, <3>3 DEF Accept
    <3>4. CASE AuditUnavailable(q)
      BY <1>s, <3>4 DEF AuditUnavailable
    <3> QED
      BY <1>2, <3>1, <3>2, <3>3, <3>4
  <2>3. request[q].kind \in {"created", "start deploy", "start destroy",
                             "respecced", "updated", "destroy"} =>
            e \in Deployment /\ record[e].state \notin Uncounted
    <3>1. request[q].kind # "idle" => e \in Deployment
      BY <1>0, Asks
    <3>2. e \in Deployment /\ Dispatching(q, e) => InFlight(e)
      BY <1>0 DEF Kept, LiveInFlight
    <3>3. e \in Deployment /\ Pending(q, e) /\ request[q].kind # "create" =>
              record[e].state \in {"succeeded", "failed"}
      BY <1>0 DEF Kept, PendingAtRest
    <3> QED
      BY <1>c, <3>1, <3>2, <3>3 DEF Dispatching, Pending, Asked, Uncounted
  <2> QED
    BY <2>1, <2>2, <2>3 DEF WritesCounted
<1>3. ASSUME NEW j \in Job, Activity(j) \/ WorkerStops(j) \/ Workflow(j)
      PROVE  request' = request /\ WritesCounted
  <2> DEFINE e == job[j].home
  <2>1. /\ job[j].step # "closed" \/ job[j].activity # "none" => e \in Deployment
        /\ Live(j, e) /\ e \in Deployment => record[e].state \notin Uncounted
    BY <1>0, <1>c, Employed DEF Kept, LiveInFlight
  <2>2. CASE \E w \in Worker : Load(j, w)
    <3>1. /\ job[j].step \in {"plan", "apply", "destroy"} /\ job[j].activity = "none"
          /\ record' = Written(e, Doing[job[j].step]) /\ request' = request
      BY <2>2, Tables DEF Load
    <3>2. Live(j, e)
      BY <3>1 DEF Live, Quiet
    <3>3. Doing[job[j].step] \in State
      BY <1>s, <3>1, Tables
    <3> QED
      BY <2>1, <3>1, <3>2, <3>3 DEF WritesCounted
  <2>3. CASE Report(j)
    <3>1. /\ job[j].activity = "applied" /\ request' = request
          /\ record' = Written(e, IF job[j].doing = "destroy" THEN "destroyed" ELSE "succeeded")
      BY <2>3 DEF Report
    <3>2. Live(j, e)
      BY <3>1 DEF Live, Quiet
    <3> QED
      BY <1>s, <2>1, <3>1, <3>2 DEF WritesCounted
  <2>4. CASE mark_failed(j)
    <3>1. /\ job[j].step = "mark" /\ request' = request /\ record' = Written(e, "failed")
      BY <2>4 DEF mark_failed
    <3>2. e \in Deployment /\ record[e].state \notin Uncounted
      BY <1>0, <1>c, <2>1, <3>1 DEF Kept, MarkedMayFail, Uncounted
    <3> QED
      BY <1>s, <3>1, <3>2 DEF WritesCounted
  <2> QED
    BY <1>3, <2>2, <2>3, <2>4
       DEF Activity, Workflow, Plan, Planned, Stamp, Apply, Destroy, Applied, Fail, WorkerStops, Ack,
           Timeout, WritesCounted
<1>4. ASSUME NEW d \in Deployment, Recovery(d)
      PROVE  request' = request /\ WritesCounted
  <2>1. d \in listed => record[d].state \notin Uncounted
    BY <1>0, <1>c DEF Kept, ListedIsDead
  <2> QED
    BY <1>s, <1>4, <2>1 DEF Recovery, List, sweep, WritesCounted
<1> QED
  BY <1>1, <1>2, <1>3, <1>4 DEF Next, Api, Ask_any

LEMMA BudgetInit == ASSUME Init PROVE BudgetInv
<1>1. {d \in Deployment : record[d].state \notin Uncounted} = {}
  BY DEF Init, Uncounted
<1>2. committed = SumFunctionOnSet([d \in Deployment |-> Cost[record[d].spec]], {})
  BY <1>1, CommittedIs, Zenon DEF CommittedOf
<1>3. committed = 0
  <2> DEFINE f == [d \in Deployment |-> Cost[record[d].spec]]
  <2> HIDE DEF f
  <2>1. SumFunctionOnSet(f, {}) = 0
    BY SumChosen, FS_EmptySet, Zenon
  <2> QED
    BY <1>2, <2>1 DEF f
<1> QED
  BY <1>3, SpecAssumption, IdleFields, CheckedFields DEF BudgetInv, Init

\* The check is worth what the record counts for.
LEMMA AllowedIs ==
    ASSUME KeptInv, abandoned = {}, NEW q \in Request, request[q].kind \in Checked, Allowed(q)
    PROVE  /\ record \in Records /\ request[q].home \in Deployment /\ request[q].spec \in Spec
           /\ committed + Cost[request[q].spec] <= Limit + Amount(record[request[q].home])
<1> DEFINE r == request[q]
           d == r.home
<1>1. TypeOK /\ d \in Deployment /\ r.spec \in Spec /\ record \in Records
  BY Asks, CheckedFields DEF KeptInv, TypeOK, Records, RecordRow
<1>2. IF r.kind = "create" THEN record[d].state = "none"
      ELSE record[d].state \in {"succeeded", "failed"}
  BY <1>1 DEF KeptInv, Kept, PendingAtRest, Pending, Asked, Checked
<1> QED
  BY <1>1, <1>2 DEF Allowed, fits, Amount, Uncounted

LEMMA BudgetStep ==
    ASSUME KeptInv, KeptInv', BudgetInv, [Next]_vars
    PROVE  BudgetInv'
<1> SUFFICES ASSUME abandoned' = {}
             PROVE  /\ committed' <= Limit
                    /\ \A q \in Request : request'[q].kind \in Checked => Allowed(q)'
  BY DEF BudgetInv
<1>0. /\ TypeOK /\ TypeOK' /\ record \in Records /\ record' \in Records
      /\ request \in [Request -> RequestRow]
  BY DEF KeptInv, TypeOK, Records, RecordRow
<1>o. OneAsked /\ OneAsked'
  BY DEF KeptInv
<1>a. abandoned = {}
  BY DEF Next, vars, Api, Ask_any, Activity, Workflow, Recovery, Abandons, Ask, create_deployment,
         retry_deployment, update_deployment, destroy_deployment, Create, Revalidate, Respec, Audited,
         Accept, AuditUnavailable, Dispatch, DispatchFails, ApiStops, Load, Plan, Planned, Stamp,
         Apply, Destroy, Applied, Report, Fail, WorkerStops, Ack, Timeout, mark_failed, List, sweep
<1>b. /\ committed <= Limit /\ Limit \in Nat
      /\ \A q \in Request : request[q].kind \in Checked => Allowed(q)
  BY <1>a, SpecAssumption DEF BudgetInv
<1>n. committed \in Nat /\ committed' \in Nat
  <2>1. committed' = CommittedOf(record', Deployment)
    BY DEF committed, CommittedOf, Uncounted
  <2>2. CASE Deployment = {}
    <3>1. committed = SumFunctionOnSet([d \in Deployment |-> Cost[record[d].spec]], {})
          /\ committed' = SumFunctionOnSet([d \in Deployment |-> Cost[record'[d].spec]], {})
      <4>1. {d \in Deployment : record[d].state \notin Uncounted} = {}
            /\ {d \in Deployment : record'[d].state \notin Uncounted} = {}
        BY <2>2
      <4> QED
        BY <2>1, <4>1, CommittedIs, Zenon DEF CommittedOf
    <3>2. \A f : SumFunctionOnSet(f, {}) = 0
      BY SumChosen, FS_EmptySet, Zenon
    <3> QED
      BY <3>1, <3>2
  <2>3. CASE Deployment # {}
    BY <1>0, <2>1, <2>3, CommittedIs, CommittedSplit
  <2> QED
    BY <2>2, <2>3
<1>m. committed' = CommittedOf(record', Deployment) /\ committed = CommittedOf(record, Deployment)
  BY DEF committed, CommittedOf, Uncounted
<1>k. ASSUME NEW q \in Request, NEW e \in Deployment, NEW spec, record' = record,
             request'[q].kind \in Checked =>
                 request'[q].home = e /\ request'[q].spec = spec /\ fits(e, spec),
             \A p \in Request : p # q => request'[p] = request[p]
      PROVE  /\ committed' <= Limit
             /\ \A p \in Request : request'[p].kind \in Checked => Allowed(p)'
  <2>1. committed' = committed
    BY <1>k, <1>m
  <2>2. \A d, s : fits(d, s)' <=> fits(d, s)
    BY <1>k, <2>1 DEF fits
  <2>3. request'[q].kind \in Checked => Allowed(q)'
    BY <1>k, <2>2 DEF Allowed
  <2>4. \A p \in Request : p # q => (request'[p].kind \in Checked => Allowed(p)')
    BY <1>b, <1>k, <2>2 DEF Allowed
  <2> QED
    BY <1>b, <2>1, <2>3, <2>4
<1>1. ASSUME NEW q \in Request, NEW d \in Deployment,
             \/ create_deployment(q, d) \/ retry_deployment(q, d)
             \/ update_deployment(q, d) \/ destroy_deployment(q, d)
      PROVE  /\ committed' <= Limit
             /\ \A p \in Request : request'[p].kind \in Checked => Allowed(p)'
  <2>1. PICK kind \in Asked :
            \E spec : Ask(q, kind, d, spec) /\ (kind \in Checked => fits(d, spec))
    BY <1>1 DEF create_deployment, retry_deployment, update_deployment, destroy_deployment, Asked,
                Checked
  <2>2. PICK spec : Ask(q, kind, d, spec) /\ (kind \in Checked => fits(d, spec))
    BY <2>1
  <2>3. /\ record' = record /\ request'[q] = [kind |-> kind, home |-> d, spec |-> spec]
        /\ \A p \in Request : p # q => request'[p] = request[p]
    BY <1>0, <2>2 DEF Ask
  <2>4. request'[q].kind = kind /\ request'[q].home = d /\ request'[q].spec = spec
    BY <2>3
  <2> QED
    BY <1>k, <2>2, <2>3, <2>4
<1>2. ASSUME NEW q \in Request, Create(q) \/ Respec(q)
      PROVE  /\ committed' <= Limit
             /\ \A p \in Request : request'[p].kind \in Checked => Allowed(p)'
  <2> DEFINE r == request[q]
             e == r.home
  <2>1. r.kind \in Checked /\ Allowed(q)
    BY <1>2, <1>b DEF Create, Respec, Checked
  <2>2. /\ e \in Deployment /\ r.spec \in Spec
        /\ committed + Cost[r.spec] <= Limit + Amount(record[e])
    BY <1>a, <2>1, AllowedIs
  <2>3. /\ record'[e].state \notin Uncounted /\ record'[e].spec = r.spec
        /\ \A d \in Deployment : d # e => record'[d] = record[d]
    <3>1. CASE Create(q)
      <4>1. "accepted" \in State
        BY DEF State, IN_FLIGHT
      <4>2. record' = [record EXCEPT ![e] = [state |-> "accepted", spec |-> r.spec]]
        BY <3>1 DEF Create
      <4>3. /\ record'[e] = [state |-> "accepted", spec |-> r.spec]
            /\ \A d \in Deployment : d # e => record'[d] = record[d]
        BY <1>0, <2>2, <4>1, <4>2, SpecWritten
      <4> QED
        BY <4>3 DEF Uncounted
    <3>2. CASE Respec(q)
      <4>1. record[e].state \in State /\ record[e].state \notin Uncounted
        <5>1. record[e].state \in State
          BY <1>0, <2>2 DEF Records, RecordRow
        <5>2. Pending(q, e) /\ r.kind # "create" /\ Kept(e)
          BY <1>a, <2>2, <3>2 DEF KeptInv, Respec, Pending, Asked
        <5> QED
          BY <5>1, <5>2 DEF Kept, PendingAtRest, Uncounted
      <4>2. record' = [record EXCEPT ![e].spec = r.spec]
        BY <3>2 DEF Respec
      <4>3. /\ record'[e] = [state |-> record[e].state, spec |-> r.spec]
            /\ \A d \in Deployment : d # e => record'[d] = record[d]
        <5>1. record \in [Deployment -> RecordRow] /\ record[e] \in RecordRow
          BY <1>0, <2>2 DEF Records
        <5> HIDE DEF r, e
        <5> QED
          BY <2>2, <4>2, <5>1 DEF RecordRow
      <4> QED
        BY <4>1, <4>3
    <3> QED
      BY <1>2, <3>1, <3>2
  <2>4. \A p \in Request : request'[p].kind \notin Checked
    <3>1. /\ request'[q].kind \notin Checked
          /\ \A p \in Request : p # q => request'[p] = request[p]
      <4>1. PICK kind \in {"created", "respecced", "updated"} : Reaches(q, kind, r.spec)
        BY <1>2 DEF Create, Respec
      <4> QED
        BY <1>0, <4>1 DEF Reaches, Checked
    <3>2. \A p \in Request : p # q => request[p].kind \notin Checked
      BY <1>o, <2>1, CheckedFields DEF OneAsked
    <3> QED
      BY <3>1, <3>2
  <2>5. Amount(record'[e]) = Cost[r.spec]
    BY <2>3 DEF Amount
  <2>6. /\ committed' + Amount(record[e]) = committed + Amount(record'[e])
        /\ Amount(record[e]) \in Nat /\ Amount(record'[e]) \in Nat
    BY <1>0, <1>m, <2>2, <2>3, CommittedMoves
  <2>7. committed' <= Limit
    <3> HIDE DEF e, r
    <3> QED
      BY <1>b, <1>n, <2>2, <2>5, <2>6
  <2> QED
    BY <2>4, <2>7
<1>3. ASSUME NEW q \in Request, Revalidate(q)
      PROVE  /\ committed' <= Limit
             /\ \A p \in Request : request'[p].kind \in Checked => Allowed(p)'
  <2>1. request[q].home \in Deployment
    BY <1>0, <1>3, Asks DEF Revalidate
  <2>2. PICK spec : fits(request[q].home, spec) /\ Reaches(q, "respec", spec) /\ record' = record
    BY <1>3 DEF Revalidate
  <2>3. /\ request'[q].home = request[q].home /\ request'[q].spec = spec
        /\ \A p \in Request : p # q => request'[p] = request[p]
    BY <1>0, <2>2 DEF Reaches
  <2> QED
    BY <1>k, <2>1, <2>2, <2>3
<1>4. ASSUME \A q \in Request : request'[q].kind \in Checked => request'[q] = request[q],
             WritesCounted
      PROVE  /\ committed' <= Limit
             /\ \A q \in Request : request'[q].kind \in Checked => Allowed(q)'
  <2>1. committed' <= committed /\ \A d \in Deployment : record'[d].spec = record[d].spec
    <3>1. CASE record' = record
      BY <1>m, <1>n, <3>1
    <3>2. ASSUME NEW e \in Deployment, record[e].state \notin Uncounted,
                 NEW state \in State, record' = Written(e, state)
          PROVE  committed' <= committed /\ \A d \in Deployment : record'[d].spec = record[d].spec
      <4>1. /\ record'[e] = [state |-> state, spec |-> record[e].spec]
            /\ \A d \in Deployment : d # e => record'[d] = record[d]
        BY <1>0, <3>2, WrittenTyped
      <4>2. /\ committed' + Amount(record[e]) = committed + Amount(record'[e])
            /\ Amount(record[e]) \in Nat /\ Amount(record'[e]) \in Nat
        BY <1>0, <1>m, <4>1, CommittedMoves
      <4>3. Amount(record[e]) = Cost[record[e].spec]
            /\ Amount(record'[e]) \in {0, Cost[record[e].spec]}
        BY <3>2, <4>1 DEF Amount
      <4> QED
        BY <1>n, <4>1, <4>2, <4>3
    <3> QED
      BY <1>4, <3>1, <3>2 DEF WritesCounted
  <2>2. ASSUME NEW q \in Request, request'[q].kind \in Checked PROVE Allowed(q)'
    <3> DEFINE r == request[q]
    <3>1. request'[q] = r /\ r.kind \in Checked /\ Allowed(q)
      BY <1>4, <1>b, <2>2
    <3>0. PICK d \in Deployment : d = r.home
      BY <1>0, <3>1, Asks, CheckedFields
    <3>2. r.spec \in Spec /\ record'[d].spec = record[d].spec
      BY <1>0, <2>1, <3>1, Asks, CheckedFields
    <3>3. record'[d].state = "none" <=> record[d].state = "none"
      <4>1. PendingAtRest(d) /\ PendingAtRest(d)'
        BY <1>a DEF KeptInv, Kept
      <4>2. Pending(q, d) /\ Pending(q, d)'
        BY <3>0, <3>1 DEF Pending, Checked, Asked
      <4> QED
        BY <3>1, <4>1, <4>2 DEF PendingAtRest
    <3> DEFINE replacing == IF record[d].state = "none" THEN 0 ELSE Cost[record[d].spec]
    <3>4. committed + Cost[r.spec] <= Limit + replacing
      BY <3>0, <3>1 DEF Allowed, fits
    <3>5. replacing \in Nat /\ Cost[r.spec] \in Nat
      BY <1>0, <3>2, SpecAssumption DEF Records, RecordRow
    <3>6. committed' + Cost[r.spec] <= Limit + replacing
      <4> HIDE DEF r, replacing
      <4> QED
        BY <1>b, <1>n, <2>1, <3>4, <3>5
    <3>7. fits(d, r.spec)'
      BY <3>1, <3>2, <3>3, <3>6 DEF fits
    <3> QED
      BY <3>0, <3>1, <3>7 DEF Allowed
  <2> QED
    BY <1>b, <1>n, <2>1, <2>2
<1> QED
  BY <1>1, <1>2, <1>3, <1>4, CountedBefore

\* What is committed stays within the budget while nothing was abandoned, for
\* any deployments, costs and requests.
THEOREM CommittedIsKept ==
    ASSUME OneProcess
    PROVE  DeploymentsSpec => []BudgetKept
<1>1. Init => KeptInv /\ BudgetInv
  BY KeptInit, BudgetInit
<1>2. KeptInv /\ BudgetInv /\ [Next]_vars => (KeptInv /\ BudgetInv)'
  BY KeptStep, BudgetStep
<1>3. BudgetInv => BudgetKept
  BY DEF BudgetInv, BudgetKept
<1> QED
  BY <1>1, <1>2, <1>3, PTL DEF DeploymentsSpec
=============================================================================
