--------------------------- MODULE PhaseExecution ---------------------------
(***************************************************************************)
(* How accepted operations are carried out: the Temporal workflow of each  *)
(* phase (OperationPhaseWorkflow), its one activity on a worker            *)
(* (run_operation_phase), and the workspace of a resource with its saved   *)
(* plan, shared by the workers and the API.                                *)
(*                                                                         *)
(* The ledger is OperationLedger: an action here is a ledger transaction   *)
(* together with what happens around it, or a step between transactions.   *)
(* Nothing between two transactions is atomic, so an activity is a program *)
(* counter (`step`) that other requests and workers interleave with.  An   *)
(* activity may outlive its timeout, and a Terraform command its worker.   *)
(***************************************************************************)
EXTENDS OperationLedger

CONSTANTS
    CarefulOperator,  \* operators wait for surviving work and report what happened
    ApiCrashes        \* an API process may die before its transaction commits

ASSUME OperatorAssumption == CarefulOperator \in BOOLEAN
ASSUME CrashAssumption == ApiCrashes \in BOOLEAN

VARIABLES
    phase,      \* the workflow of each operation and phase
    step,       \* what the activity working on an operation does next
    orphans,    \* Terraform commands whose worker died
    workspace,  \* the definition a resource's workspace was prepared for
    file,       \* the saved plan (tfplan) of a resource
    infra,      \* the operation whose plan last changed the infrastructure
    digest,     \* the plan an operation's recorded digest stands for
    consumed,   \* the plan Terraform started to apply for an operation (history)
    unlinks     \* expired operations whose plan file is still to be removed

diskVars == <<workspace, file, infra>>
planVars == <<digest, consumed>>
phaseVars == <<phase, step, orphans, diskVars, planVars, unlinks>>
pvars == <<vars, phaseVars>>

-----------------------------------------------------------------------------
Phase == {"plan", "apply"}
Progress == {"none", "running", "marking", "done"}
Step == {"idle", "preparing", "prepared", "written", "checking", "checked",
         "applying", "applied", "recording", "failing", "failed", "broken"}

\* The bytes of a saved plan: who planned, the definition found in the
\* workspace, and the infrastructure it was computed against.
SavedPlan == [by : Op, version : Version \cup {None}, base : Op \cup {None}]

PhaseTypeOK ==
    /\ TypeOK
    /\ phase \in [Op -> [Phase -> Progress]]
    /\ step \in [Op -> Step]
    /\ orphans \subseteq Op \X {"prepared", "applying"}
    /\ workspace \in [Resource -> Version \cup {None}]
    /\ file \in [Resource -> SavedPlan \cup {None}]
    /\ infra \in [Resource -> Op \cup {None}]
    /\ digest \in [Op -> SavedPlan \cup {None}]
    /\ consumed \in [Op -> SavedPlan \cup {None}]
    /\ unlinks \subseteq Op

PInit ==
    /\ Init
    /\ phase = [o \in Op |-> [ph \in Phase |-> "none"]]
    /\ step = [o \in Op |-> "idle"]
    /\ orphans = {}
    /\ workspace = [r \in Resource |-> None]
    /\ file = [r \in Resource |-> None]
    /\ infra = [r \in Resource |-> None]
    /\ digest = [o \in Op |-> None]
    /\ consumed = [o \in Op |-> None]
    /\ unlinks = {}

\* The states a phase starts from and runs in (phase_states).
Expected(ph) == IF ph = "plan" THEN "queued" ELSE "apply_queued"
Running(ph) == IF ph = "plan" THEN "planning" ELSE "applying"
PhaseOf(s) == IF s = "planning" THEN "plan" ELSE "apply"

\* The resource whose workspace an operation works in.
Home(o) == ops[o].resource

Goto(o, new) == step' = [step EXCEPT ![o] = new]
RemoveFile(r) == file' = [file EXCEPT ![r] = None]

\* Terraform holds its state lock while an apply runs.
Locked(r) ==
    \E o \in Op : Home(o) = r /\ (step[o] = "applying" \/ <<o, "applying">> \in orphans)

-----------------------------------------------------------------------------
(* The API: requests, decisions, dispatch.                                  *)

\* Validation and refusals touch nothing but the ledger's drafts.
Ask ==
    /\ \/ \E k \in Op, v \in Version, refs \in RefSets : ValidateCreate(k, v, refs)
       \/ \E k \in Op, r \in Resource, v \in Version, refs \in RefSets :
              ValidateUpdate(k, r, v, refs)
       \/ \E k \in Op, r \in Resource : ValidateDestroy(k, r) \/ ValidateDriftCheck(k, r)
       \/ \E d \in drafts : DropRequest(d)
    /\ UNCHANGED phaseVars

\* The plan of a blocker that expired is removed after the commit.
AcceptRequest(d) ==
    /\ Accept(d) \/ AcceptOverExpired(d)
    /\ unlinks' = unlinks \cup {b \in Op : ops[b].state = "planned" /\ ops'[b].state = "failed"}
    /\ UNCHANGED <<phase, step, orphans, diskVars, planVars>>

RemoveExpired(b) ==
    /\ b \in unlinks
    /\ unlinks' = unlinks \ {b}
    /\ RemoveFile(Home(b))
    /\ UNCHANGED <<vars, phase, step, orphans, workspace, infra, planVars>>

\* Discarding, and executing an expired plan, remove the file before they commit.
ReleasePlanFile(o) ==
    /\ Discard(o) \/ ExecuteExpired(o)
    /\ RemoveFile(Home(o))
    /\ UNCHANGED <<phase, step, orphans, workspace, infra, planVars, unlinks>>

\* The process dies in between: the file is gone and the operation still planned.
ReleaseLost(o) ==
    /\ ApiCrashes
    /\ ops[o].state = "planned"
    /\ RemoveFile(Home(o))
    /\ UNCHANGED <<vars, phase, step, orphans, workspace, infra, planVars, unlinks>>

Approve(o) ==
    /\ Execute(o) \/ PlanAges(o)
    /\ UNCHANGED phaseVars

\* A request, or its retry, starts the workflow of the phase; a workflow ID is
\* never reused, so a second start changes nothing.  A lost dispatch is a
\* dispatch that does not happen.
Dispatch(o, ph) ==
    /\ ops[o].state = Expected(ph)
    /\ phase[o][ph] = "none"
    /\ phase' = [phase EXCEPT ![o][ph] = "running"]
    /\ UNCHANGED <<vars, step, orphans, diskVars, planVars, unlinks>>

\* The operator's verdict.  A careful one acts when nothing of the operation is
\* still running, and says what happened to the infrastructure.
OperatorDecides(o) ==
    /\ \/ /\ ReconcileSucceeded(o)
          /\ CarefulOperator => consumed[o] # None
       \/ /\ ReconcileFailed(o)
          /\ CarefulOperator => consumed[o] = None
    /\ CarefulOperator => step[o] = "idle" /\ ~ \E s \in Step : <<o, s>> \in orphans
    /\ UNCHANGED phaseVars

-----------------------------------------------------------------------------
(* The workflow.  Its activity is never retried.                            *)

\* The activity is lost before it claimed the operation.
PhaseFails(o, ph) ==
    /\ phase[o][ph] = "running" /\ ops[o].state = Expected(ph)
    /\ phase' = [phase EXCEPT ![o][ph] = "marking"]
    /\ UNCHANGED <<vars, step, orphans, diskVars, planVars, unlinks>>

\* The start-to-close timeout of a started activity, or its worker shuts down:
\* the workflow stops waiting, whatever the activity does.
PhaseTimesOut(o, ph) ==
    /\ phase[o][ph] = "running" /\ ops[o].state # Expected(ph)
    /\ phase' = [phase EXCEPT ![o][ph] = "marking"]
    /\ UNCHANGED <<vars, step, orphans, diskVars, planVars, unlinks>>

\* Faulty variant: a phase that failed before its claim is not recorded.
MarkClaimedOnly(o, ph) ==
    /\ phase[o][ph] = "marking"
    /\ phase' = [phase EXCEPT ![o][ph] = "done"]
    /\ IF ops[o].state = Running(ph) THEN Interrupted(o) ELSE UNCHANGED vars
    /\ UNCHANGED <<step, orphans, diskVars, planVars, unlinks>>

\* mark_operation_uncertain, retried until it succeeds.
Mark(o, ph) ==
    /\ phase[o][ph] = "marking"
    /\ phase' = [phase EXCEPT ![o][ph] = "done"]
    /\ IF ops[o].state \in {Expected(ph), Running(ph)} THEN Interrupted(o) ELSE UNCHANGED vars
    /\ UNCHANGED <<step, orphans, diskVars, planVars, unlinks>>

-----------------------------------------------------------------------------
(* The activity.  It starts by claiming the operation; claims of an          *)
(* operation that moved on find nothing to do.                               *)

StartPlan(o) ==
    /\ phase[o]["plan"] # "none"
    /\ ClaimPlan(o)
    /\ Goto(o, "preparing")
    /\ UNCHANGED <<phase, orphans, diskVars, planVars, unlinks>>

StartApply(o) ==
    /\ phase[o]["apply"] # "none"
    /\ ClaimApply(o)
    /\ Goto(o, "checking")
    /\ UNCHANGED <<phase, orphans, diskVars, planVars, unlinks>>

\* The activity's last transaction happened: it returns to the workflow, or its
\* return is lost and the workflow times out.
Ends(o, s) ==
    /\ Goto(o, "idle")
    /\ \/ phase' = [phase EXCEPT ![o][PhaseOf(s)] = IF @ = "running" THEN "done" ELSE @]
       \/ phase' = [phase EXCEPT ![o][PhaseOf(s)] = IF @ = "running" THEN "marking" ELSE @]

\* The plan file is dropped before a failure is recorded, if the activity still
\* owns the operation at that moment.
Failing(o, s) == Goto(o, IF Holds(o, s) THEN "failing" ELSE "failed")

\* terraform.prepare: the workspace is rewritten for this operation.  A
\* workspace of another pattern version is deleted with everything in it; one
\* that differs in its inputs only is kept.
Prepare(o) ==
    /\ step[o] = "preparing"
    /\ workspace' = [workspace EXCEPT ![Home(o)] = ops[o].version]
    /\ \/ UNCHANGED file
       \/ workspace[Home(o)] # ops[o].version /\ RemoveFile(Home(o))
    /\ Goto(o, "prepared")
    /\ UNCHANGED <<vars, phase, orphans, infra, planVars, unlinks>>

PlanOf(o) == [by |-> o, version |-> workspace[Home(o)], base |-> infra[Home(o)]]

WritePlan(o) ==
    /\ step[o] = "prepared" /\ ops[o].action # "drift_check"
    /\ ~Locked(Home(o))
    /\ file' = [file EXCEPT ![Home(o)] = PlanOf(o)]
    /\ Goto(o, "written")
    /\ UNCHANGED <<vars, phase, orphans, workspace, infra, planVars, unlinks>>

\* The digest is that of the file as it is now.
ReportPlanned(o) ==
    /\ step[o] = "written" /\ file[Home(o)] # None
    /\ FinishPlanned(o)
    /\ digest' = [digest EXCEPT ![o] = file[Home(o)]]
    /\ Ends(o, "planning")
    /\ UNCHANGED <<orphans, diskVars, consumed, unlinks>>

PlanFails(o) ==
    /\ step[o] \in {"preparing", "prepared", "written"} /\ ops[o].action # "drift_check"
    /\ Failing(o, "planning")
    /\ UNCHANGED <<vars, phase, orphans, diskVars, planVars, unlinks>>

\* A check plans into a scratch file of its own.
ReportDriftCheck(o) ==
    /\ \E verdict \in {"in_sync", "drifted", "unknown"} :
           /\ step[o] = "prepared" \/ (step[o] = "preparing" /\ verdict = "unknown")
           /\ FinishDriftCheck(o, verdict)
    /\ Ends(o, "planning")
    /\ UNCHANGED <<orphans, diskVars, planVars, unlinks>>

\* The saved plan must have the recorded digest.
CheckPlan(o) ==
    /\ step[o] = "checking"
    /\ IF file[Home(o)] # None /\ file[Home(o)] = digest[o]
       THEN Goto(o, "checked") ELSE Failing(o, "applying")
    /\ UNCHANGED <<vars, phase, orphans, diskVars, planVars, unlinks>>

\* Terraform reads the file, whatever it holds by now, and refuses a plan made
\* against other infrastructure.
ApplyBegins(o) ==
    /\ step[o] = "checked" /\ file[Home(o)] # None
    /\ file[Home(o)].base = infra[Home(o)] /\ ~Locked(Home(o))
    /\ consumed' = [consumed EXCEPT ![o] = file[Home(o)]]
    /\ infra' = [infra EXCEPT ![Home(o)] = o]
    /\ Goto(o, "applying")
    /\ UNCHANGED <<vars, phase, orphans, workspace, file, digest, unlinks>>

\* A stale plan, a held lock or another Terraform version: nothing was changed.
ApplyRefused(o) ==
    /\ step[o] = "checked" /\ file[Home(o)] # None
    /\ Failing(o, "applying")
    /\ UNCHANGED <<vars, phase, orphans, diskVars, planVars, unlinks>>

ApplyCompletes(o) ==
    /\ step[o] = "applying"
    /\ Goto(o, "applied")
    /\ UNCHANGED <<vars, phase, orphans, diskVars, planVars, unlinks>>

\* Faulty variant: an apply that broke off counts as one that was refused.
ApplyBreaksAsFailed(o) ==
    /\ step[o] \in {"checked", "applying", "recording"}
    /\ Failing(o, "applying")
    /\ UNCHANGED <<vars, phase, orphans, diskVars, planVars, unlinks>>

\* Any other error, at any time, leaves the outcome to an operator.
ApplyBreaks(o) ==
    /\ step[o] \in {"checked", "applying", "recording"}
    /\ Goto(o, "broken")
    /\ UNCHANGED <<vars, phase, orphans, diskVars, planVars, unlinks>>

\* The applied plan is removed, whoever owns the file by now; that it is
\* already gone is an error like any other.
RemoveApplied(o) ==
    /\ step[o] = "applied"
    /\ Goto(o, IF file[Home(o)] = None THEN "broken" ELSE "recording")
    /\ RemoveFile(Home(o))
    /\ UNCHANGED <<vars, phase, orphans, workspace, infra, planVars, unlinks>>

RemoveFailed(o) ==
    /\ step[o] = "failing"
    /\ Goto(o, "failed")
    /\ RemoveFile(Home(o))
    /\ UNCHANGED <<vars, phase, orphans, workspace, infra, planVars, unlinks>>

\* The steps at which an activity's next act is its last transaction.
Reporting(o) ==
    {"written", "failed", "recording", "broken"}
        \cup (IF ops[o].action = "drift_check" THEN {"preparing", "prepared"} ELSE {})

\* The activity's last transaction, or a result nobody waits for any more.
Report(o, s) ==
    /\ \/ step[o] = "failed" /\ FinishFailed(o, s)
       \/ step[o] = "recording" /\ FinishSucceeded(o)
       \/ step[o] = "broken" /\ FinishUncertain(o)
       \/ LateResult(o, s) /\ step[o] \in Reporting(o)
    /\ Ends(o, s)
    /\ UNCHANGED <<orphans, diskVars, planVars, unlinks>>

\* A worker dies; a Terraform command it was running goes on without it.
WorkerDies(o, s) ==
    /\ step[o] # "idle"
    /\ WorkerLost(o, s)
    /\ Goto(o, "idle")
    /\ orphans' = IF \/ step[o] = "applying"
                     \/ step[o] = "prepared" /\ ops[o].action # "drift_check"
                  THEN orphans \cup {<<o, step[o]>>} ELSE orphans
    /\ UNCHANGED <<phase, diskVars, planVars, unlinks>>

\* A surviving plan command may still write its plan; any may just end.
OrphanEnds(o, s) ==
    /\ <<o, s>> \in orphans
    /\ orphans' = orphans \ {<<o, s>>}
    /\ \/ UNCHANGED file
       \/ s = "prepared" /\ ~Locked(Home(o)) /\ file' = [file EXCEPT ![Home(o)] = PlanOf(o)]
    /\ UNCHANGED <<vars, phase, step, workspace, infra, planVars, unlinks>>

-----------------------------------------------------------------------------
Serve ==
    \/ Ask
    \/ \E d \in drafts : AcceptRequest(d)
    \/ \E o \in Op : \/ RemoveExpired(o) \/ ReleasePlanFile(o) \/ ReleaseLost(o)
                     \/ Approve(o) \/ OperatorDecides(o)
                     \/ \E ph \in Phase : Dispatch(o, ph)

Orchestrate ==
    \E o \in Op, ph \in Phase : PhaseFails(o, ph) \/ PhaseTimesOut(o, ph) \/ Mark(o, ph)

Act(o) ==
    \/ StartPlan(o) \/ Prepare(o) \/ WritePlan(o) \/ ReportPlanned(o) \/ PlanFails(o)
    \/ ReportDriftCheck(o)
    \/ StartApply(o) \/ CheckPlan(o) \/ ApplyBegins(o) \/ ApplyRefused(o)
    \/ ApplyCompletes(o) \/ ApplyBreaks(o) \/ RemoveApplied(o)
    \/ RemoveFailed(o)
    \/ \E s \in {"planning", "applying"} : Report(o, s) \/ WorkerDies(o, s)
    \/ \E s \in {"prepared", "applying"} : OrphanEnds(o, s)

PNext == Serve \/ Orchestrate \/ \E o \in Op : Act(o)

PSpec == PInit /\ [][PNext]_pvars

\* Workers keep polling, a started activity has a timeout, and Temporal retries
\* the status write.  Nobody is obliged to dispatch, decide or finish.
PFairness ==
    \A o \in Op :
        /\ WF_pvars(StartPlan(o) \/ StartApply(o))
        /\ \A ph \in Phase : WF_pvars(PhaseTimesOut(o, ph)) /\ WF_pvars(Mark(o, ph))

FairPSpec == PSpec /\ PFairness
-----------------------------------------------------------------------------
(* Properties                                                               *)

Working(o) == step[o] # "idle" \/ \E s \in Step : <<o, s>> \in orphans

\* Two operations never work in one workspace, late activities and surviving
\* commands included, unless one is a drift check that was given up
\* (run_operation_phase; needs a careful operator).
SoleWorker ==
    \A o, p \in Op :
        o # p /\ Home(o) = Home(p) /\ Working(o) /\ Working(p) =>
            \E q \in {o, p} : ops[q].action = "drift_check" /\ ops[q].state = "failed"

\* What Terraform applies is the plan whose digest the caller approved, although
\* the file is read again after it was checked ("Never apply a different plan").
AppliedIsReviewed ==
    \A o \in Op : consumed[o] # None => consumed[o] = digest[o] /\ consumed[o].by = o

\* "`failed` always means nothing was changed": no operation that failed, or
\* that an operator found to have failed, ever began to apply
\* (_restore_reservation gives the reservation back on that ground).
FailedChangedNothing ==
    \A o \in Op : ops[o].state = "failed" => consumed[o] = None

\* The infrastructure of an idle resource is what the last successful change of
\* its row applied, whatever else was planned, interrupted or given up since.
InfraMatchesRow ==
    \A r \in Resource : \A h \in Heads(r) :
        ~(\E o \in Active(r) : ops[o].action # "drift_check") => infra[r] = LastSuccess[h]

\* A dispatched phase does not stay in progress: its activity records a result
\* or the workflow records that it was interrupted, though workers may die.
DispatchedPhaseLeaves ==
    \A o \in Op, ph \in Phase :
        phase[o][ph] # "none" ~> ops[o].state \notin {Expected(ph), Running(ph)}

-----------------------------------------------------------------------------
(* The inductive invariant.  The parts after WorkAccepted need careful       *)
(* operators.                                                               *)

\* Only what was accepted is worked on.
WorkAccepted == \A o \in Op : Working(o) => ops[o].state # "none"

ApplySteps == {"checking", "checked", "applying", "applied", "recording", "broken"}
GivenUp(o) == ops[o].action = "drift_check" /\ ops[o].state = "failed"

\* Work belongs to an operation that keeps its resource, or to a check that was
\* given up; commands survive only the worker of a change.
WorkOwned ==
    \A o \in Op :
        /\ Working(o) => ops[o].state \in {"planning", "applying", "uncertain"} \/ GivenUp(o)
        /\ step[o] \in ApplySteps => ops[o].state \in {"applying", "uncertain"}
        /\ step[o] = "written" => ops[o].action # "drift_check"
        /\ \A s \in Step :
               <<o, s>> \in orphans => step[o] = "idle" /\ ops[o].action # "drift_check"

\* An operation that began to apply is applying, uncertain or succeeded, and its
\* activity is past the point where it could be found to have failed.
BegunCounts ==
    \A o \in Op : consumed[o] # None =>
        /\ ops[o].state \in {"applying", "uncertain", "succeeded"}
        /\ step[o] \in {"idle", "applying", "applied", "recording", "broken"}

\* From the writing of a plan to the reading of its digest, and from the check
\* of the digest to the apply, the file is the operation's own.
FileOwned ==
    \A o \in Op :
        /\ step[o] = "written" /\ file[Home(o)] # None => file[Home(o)].by = o
        /\ step[o] = "checked" /\ file[Home(o)] # None => file[Home(o)] = digest[o]
        /\ digest[o] # None => digest[o].by = o
        /\ consumed[o] # None => consumed[o] = digest[o]

PhaseInv == PhaseTypeOK /\ WorkAccepted /\ WorkOwned /\ BegunCounts /\ FileOwned
=============================================================================
