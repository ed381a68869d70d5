-------------------------------- MODULE Teams --------------------------------
(***************************************************************************)
(* Business units kept in the database (src/app/team_admin.py,             *)
(* team_store.py, team_check.py) and the placement of requests in them     *)
(* (tenants.py, cloud_targets.py, policy.validate, ledger._check_placement). *)
(*                                                                         *)
(* Every administration endpoint and every acceptance is one ledger        *)
(* transaction, hence one action.  What is not atomic is kept apart:       *)
(*   - an operator reads the teams (a GET, a validation, a dry run) and    *)
(*     sends a change later (`forms`);                                     *)
(*   - a request is validated against the mapping and accepted later       *)
(*     (`drafts`), and its plan is executed later still (`rows`).          *)
(*                                                                         *)
(* The model is of FORGEAPI_TENANTS_SOURCE=db.  Of an operation it keeps   *)
(* what the placement of its resource needs; OperationLedger has the rest. *)
(***************************************************************************)
EXTENDS Integers, Sequences, SequencesExt, FiniteSets, FiniteSetsExt

CONSTANTS
    Team, Operator, Resource,
    Group,         \* directory groups
    Caller,        \* the group through which a caller asks for something
    Pattern,       \* the patterns of the catalog
    Cloud,         \* Cloud[p]: the cloud a pattern declares, or None
    Price,         \* Price[p]: the estimated costs a pattern can have (its sizes)
    Docs,          \* Docs[t]: the documents operators write for team t
    Acknowledge,   \* Acknowledge[o]: the warning codes operator o accepts
    MaxRevision,   \* bound: the revisions of each team
    MaxAccepted,   \* bound: operations of one resource
    MaxDrafts,     \* bound: validated requests not yet accepted
    None

VARIABLES
    revisions,  \* the team_revisions table; the teams row repeats the last one
    forms,      \* the revisions each operator has read, for its next change
    drafts,     \* validated requests waiting for their acceptance transaction
    rows        \* the resources table, with the unfinished operation of each

vars == <<revisions, forms, drafts, rows>>

-----------------------------------------------------------------------------
(* A row remembers the placement its resource was accepted with.  The fields *)
(* from `busy` on describe its latest operation; `since` is the revision of  *)
(* the team it was accepted under, which dates it against the archives.      *)
NoRow == [state |-> "absent", team |-> None, env |-> None, pattern |-> None, place |-> None,
          cost |-> 0, accepted |-> 0, busy |-> None, executing |-> FALSE, requested |-> 0,
          previous |-> 0, since |-> 0, revived |-> FALSE]

(* A document has `groups`, `patterns` and `envs`; an environment has a      *)
(* legacy `subscription`, `targets` per cloud, `groups` and a `budget`.      *)

Code == {"groups_overlap", "pattern_in_use", "budget_below_reserved", "access_removed"}

ASSUME DocsAssumption ==
    \A t \in Team : \A doc \in Docs[t] :
        doc.groups \subseteq Group /\ doc.patterns \subseteq Pattern
\* budget_invalid refuses any other budget.
ASSUME BudgetAssumption ==
    \A t \in Team : \A doc \in Docs[t] : \A e \in DOMAIN doc.envs :
        doc.envs[e].budget \in Nat \cup {None}
ASSUME ResourceAssumption == IsFiniteSet(Resource)
ASSUME CallerAssumption == Caller \subseteq Group
ASSUME AcknowledgeAssumption == Acknowledge \in [Operator -> SUBSET Code]
ASSUME NoneAssumption == None \notin Resource \cup {"deploy", "destroy"}
ASSUME PriceAssumption == \A p \in Pattern : Price[p] \subseteq Nat

Init ==
    /\ revisions = [t \in Team |-> <<>>]
    /\ forms = [o \in Operator |-> None]
    /\ drafts = {}
    /\ rows = [r \in Resource |-> NoRow]

-----------------------------------------------------------------------------
(* The stored teams.                                                        *)

Revision(t) == Len(revisions[t])
Exists(t) == Revision(t) > 0
Doc(t) == Last(revisions[t]).doc
Archived(t) == Last(revisions[t]).archived

\* More than the budget, where there is one.
Exceeds(amount, budget) == budget # None /\ amount > budget

\* Faulty variant: the first archive ever, also when the team came back since.
first_archived(t) ==
    Min({i \in 1..Revision(t) : revisions[t][i].archived})

\* The first archived revision after the last active one.
archived_since(t) ==
    1 + Max({0} \cup {i \in 1..Revision(t) : ~revisions[t][i].archived})

GroupsOf(doc) == doc.groups \cup UNION {doc.envs[e].groups : e \in DOMAIN doc.envs}

\* The groups of an environment, if it has any, replace those of the team.
can_deploy(doc, e, g) ==
    g \in (IF doc.envs[e].groups # {} THEN doc.envs[e].groups ELSE doc.groups)

\* Where a pattern goes: the target of its cloud, or the subscription of an
\* environment without targets.
Selectable(doc, e, p) ==
    IF Cloud[p] = None THEN DOMAIN doc.envs[e].targets = {}
    ELSE Cloud[p] \in DOMAIN doc.envs[e].targets

Place(doc, e, p) ==
    IF Cloud[p] = None THEN doc.envs[e].subscription ELSE doc.envs[e].targets[Cloud[p]]

\* A caller's request for pattern p in environment e can be placed.
Placeable(doc, e, p, g) ==
    /\ p \in doc.patterns /\ e \in DOMAIN doc.envs
    /\ can_deploy(doc, e, g)
    /\ Selectable(doc, e, p)

\* The resources of a team that still exist, and what they reserve.
Living(t) == {r \in Resource : rows[r].state = "live" /\ rows[r].team = t}

_cost(r) == rows[r].cost
_reserved(t, e, except) ==
    SumFunctionOnSet([r \in Resource |-> _cost(r)], {r \in Living(t) \ except : rows[r].env = e})

-----------------------------------------------------------------------------
(* Validation of a team document (team_check.check_team): error findings,    *)
(* which refuse a write, and warnings, which must be acknowledged.           *)

Envs(t) == IF Exists(t) THEN DOMAIN Doc(t).envs ELSE {}
Kept(t, doc) == Envs(t) \cap DOMAIN doc.envs

\* The document alone: nobody reaches the team, or it allows a pattern of a
\* cloud in an environment without targets.
Malformed(doc) ==
    \/ GroupsOf(doc) = {}
    \/ \E p \in doc.patterns, e \in DOMAIN doc.envs :
           Cloud[p] # None /\ DOMAIN doc.envs[e].targets = {}

\* env_has_resources
RemovesUsedEnv(t, doc) ==
    \E r \in Living(t) : rows[r].env \in Envs(t) \ DOMAIN doc.envs

\* The identity under which a document places resources of a cloud, if any.
Spot(doc, e, cloud) ==
    IF cloud = None THEN doc.envs[e].subscription
    ELSE IF cloud \in DOMAIN doc.envs[e].targets THEN doc.envs[e].targets[cloud] ELSE None

\* Faulty variant: only the legacy subscription is compared.
moves_subscription(t, doc) ==
    \E r \in Living(t) : /\ rows[r].env \in Kept(t, doc)
                         /\ Spot(doc, rows[r].env, None) # Spot(Doc(t), rows[r].env, None)

\* placement_change_with_resources
MovesResources(t, doc) ==
    \E r \in Living(t) :
        /\ rows[r].env \in Kept(t, doc)
        /\ Spot(doc, rows[r].env, Cloud[rows[r].pattern])
               # Spot(Doc(t), rows[r].env, Cloud[rows[r].pattern])

HasErrors(t, doc) == Malformed(doc) \/ RemovesUsedEnv(t, doc) \/ MovesResources(t, doc)

\* Some group or environment grant is gone.
RemovesAccess(t, doc) ==
    /\ Exists(t)
    /\ \/ ~(Doc(t).groups \subseteq doc.groups)
       \/ \E e \in Kept(t, doc) : ~(Doc(t).envs[e].groups \subseteq doc.envs[e].groups)

\* Warning codes; `others` are the documents of the other teams.
Warnings(t, doc, others) ==
    {w \in Code :
        \/ w = "groups_overlap" /\ \E other \in others : GroupsOf(doc) \cap GroupsOf(other) # {}
        \/ w = "pattern_in_use" /\ \E r \in Living(t) : rows[r].pattern \in Doc(t).patterns \ doc.patterns
        \/ w = "budget_below_reserved" /\ \E e \in DOMAIN doc.envs :
               Exceeds(_reserved(t, e, {}), doc.envs[e].budget)
        \/ w = "access_removed" /\ RemovesAccess(t, doc)}

Others(t) == {Doc(u) : u \in {u \in Team \ {t} : Exists(u)}}

\* No errors, and every warning acknowledged.
_gate(o, t, doc, others) ==
    /\ ~HasErrors(t, doc)
    /\ Warnings(t, doc, others) \subseteq Acknowledge[o]

-----------------------------------------------------------------------------
(* The administration endpoints.  Operators act on what they read before.   *)

Read(o) ==
    /\ forms' = [forms EXCEPT ![o] = [t \in Team |-> Revision(t)]]
    /\ UNCHANGED <<revisions, drafts, rows>>

\* Faulty variant: the team is read again, but its revision is not compared.
_stored_unchecked(o, t) == forms[o] # None /\ Exists(t)

\* If-Match names the stored revision.
_stored(o, t) == forms[o] # None /\ Exists(t) /\ forms[o][t] = Revision(t)

\* Bound on the history of a team.
Room(t) == Revision(t) < MaxRevision[t]

Entry(doc, archived) == [doc |-> doc, archived |-> archived]

\* One more revision of the team, in the transaction that checked the request.
write(o, t, entry) ==
    /\ Room(t)
    /\ revisions' = [revisions EXCEPT ![t] = Append(@, entry)]
    /\ forms' = [forms EXCEPT ![o] = None]
    /\ UNCHANGED <<drafts, rows>>

create(o, t, doc) ==
    /\ ~Exists(t) /\ ~HasErrors(t, doc)
    /\ write(o, t, Entry(doc, FALSE))

replace(o, t, doc) ==
    /\ _stored(o, t)
    /\ _gate(o, t, doc, Others(t))
    /\ doc # Doc(t)
    /\ write(o, t, Entry(doc, Archived(t)))

\* The document of an earlier revision becomes current again.
revert(o, t, n) ==
    /\ n \in 1..Revision(t)
    /\ replace(o, t, revisions[t][n].doc)

archive(o, t, force_archive) ==
    /\ _stored(o, t) /\ ~Archived(t)
    /\ Living(t) # {} => force_archive
    /\ write(o, t, Entry(Doc(t), TRUE))

unarchive(o, t) ==
    /\ _stored(o, t) /\ Archived(t)
    /\ ~HasErrors(t, Doc(t))
    /\ write(o, t, Entry(Doc(t), FALSE))

\* Faulty variant: the other teams are taken as they are stored.
_final_stored(units, t) == Others(t)

\* The other teams as they will be when the whole import is written.
_final(units, t) ==
    {units[u] : u \in DOMAIN units \ {t}}
        \cup {Doc(u) : u \in {u \in Team \ (DOMAIN units \cup {t}) : Exists(u)}}

\* The teams of an import that it changes.
Changing(units) == {t \in DOMAIN units : ~Exists(t) \/ Doc(t) # units[t]}

\* A whole tenants.yaml, applied with the revisions of its dry run: every
\* changed team, or nothing.  An unchanged team may be left out of them.
import_teams(o, units) ==
    LET changing == Changing(units)
    IN /\ forms[o] # None /\ changing # {}
       /\ \A t \in changing : Exists(t) => _stored(o, t)
       /\ \A t \in changing : Room(t) /\ _gate(o, t, units[t], _final(units, t))
       /\ revisions' = [t \in Team |->
              IF t \in changing
              THEN Append(revisions[t], Entry(units[t], Exists(t) /\ Archived(t)))
              ELSE revisions[t]]
       /\ forms' = [forms EXCEPT ![o] = None]
       /\ UNCHANGED <<drafts, rows>>

\* The imports of this instance: one document for some of the teams.
Imports == UNION {{u \in [S -> UNION {Docs[t] : t \in Team}] : \A t \in S : u[t] \in Docs[t]} :
                     S \in SUBSET Team}

-----------------------------------------------------------------------------
(* Requests: validated, accepted, executed, finished.                       *)

\* authorize(change=True): the caller may change the resource, and its team
\* still places it where it is.
Authorized(r, g) ==
    LET doc == Doc(rows[r].team)
    IN /\ Placeable(doc, rows[r].env, rows[r].pattern, g)
       /\ Place(doc, rows[r].env, rows[r].pattern) = rows[r].place

Validate(d) ==
    /\ Cardinality(drafts) < MaxDrafts
    /\ drafts' = drafts \cup {d}
    /\ UNCHANGED <<revisions, forms, rows>>

\* The request of caller g for pattern p of team t, as it is resolved now.
Resolved(r, accepted, t, e, p, g, c) ==
    [resource |-> r, accepted |-> accepted, action |-> "deploy", team |-> t, env |-> e,
     pattern |-> p, caller |-> g, cost |-> c, stamp |-> Revision(t),
     limit |-> Doc(t).envs[e].budget, place |-> Place(Doc(t), e, p)]

\* A deploy is placed in an active team.
ValidateCreate(t, e, p, g, c) ==
    /\ Exists(t) /\ ~Archived(t)
    /\ Placeable(Doc(t), e, p, g)
    /\ Validate(Resolved(None, 0, t, e, p, g, c))

\* An update keeps the pattern and the environment of its resource.
ValidateUpdate(r, g, c) ==
    LET row == rows[r]
    IN /\ row.state = "live" /\ Authorized(r, g) /\ ~Archived(row.team)
       /\ Validate(Resolved(r, row.accepted, row.team, row.env, row.pattern, g, c))

\* A destroy resolves to the row itself, in an archived team too.
ValidateDestroy(r, g) ==
    LET row == rows[r]
    IN /\ row.state = "live" /\ Authorized(r, g)
       /\ Validate([resource |-> r, accepted |-> row.accepted, action |-> "destroy",
                    team |-> row.team, env |-> row.env, pattern |-> row.pattern, caller |-> g,
                    cost |-> row.cost, stamp |-> 0, limit |-> None,
                    place |-> row.place])

\* Faulty variant: the revision is not compared, only the placement.
_check_placement_only(d) ==
    d.action = "deploy" =>
        /\ ~Archived(d.team)
        /\ d.env \in DOMAIN Doc(d.team).envs
        /\ can_deploy(Doc(d.team), d.env, d.caller)
        /\ Selectable(Doc(d.team), d.env, d.pattern)
        /\ Place(Doc(d.team), d.env, d.pattern) = d.place

\* The team is still what the request was validated against; a destroy needs
\* only its resource.
_check_placement(d) ==
    d.action = "deploy" =>
        /\ ~Archived(d.team) /\ Revision(d.team) = d.stamp
        /\ d.env \in DOMAIN Doc(d.team).envs
        /\ can_deploy(Doc(d.team), d.env, d.caller)
        /\ Selectable(Doc(d.team), d.env, d.pattern)
        /\ Place(Doc(d.team), d.env, d.pattern) = d.place

Fits(d, r, amount) ==
    d.limit # None => _reserved(d.team, d.env, {r}) + amount <= d.limit

Larger(a, b) == IF a >= b THEN a ELSE b

\* A deploy reserves the larger of the old and the new cost; the row of a new
\* resource takes its placement from the request.
AcceptedRow(d, row) ==
    LET known == IF row.state # "absent" THEN row
                 ELSE [row EXCEPT !.state = "live", !.team = d.team, !.env = d.env,
                                  !.pattern = d.pattern, !.place = d.place]
    IN [known EXCEPT !.accepted = @ + 1, !.busy = d.action, !.since = Revision(d.team),
                     !.requested = d.cost, !.previous = row.cost,
                     !.cost = IF d.action = "deploy" THEN Larger(@, d.cost) ELSE @,
                     !.revived = @ \/ row.state = "destroyed"]

\* The acceptance transaction, on the row the request was validated against.
accept(d) ==
    \E r \in Resource :
        LET row == rows[r]
        IN /\ d.resource \in {None, r}
           /\ d.resource = None <=> row.state = "absent"
           /\ row.accepted = d.accepted /\ row.accepted < MaxAccepted /\ row.busy = None
           /\ _check_placement(d)
           /\ d.action = "deploy" => Fits(d, r, Larger(row.cost, d.cost))
           /\ rows' = [rows EXCEPT ![r] = AcceptedRow(d, row)]
           /\ drafts' = drafts \ {d}
           /\ UNCHANGED <<revisions, forms>>

\* The request is refused, or its API process dies before the commit.
Refuse(d) ==
    /\ drafts' = drafts \ {d}
    /\ UNCHANGED <<revisions, forms, rows>>

\* A deploy accepted at or after the archive must not be applied.
_refuse_new_work_on_archived(r) ==
    /\ rows[r].busy = "deploy" /\ Archived(rows[r].team)
    /\ rows[r].since >= archived_since(rows[r].team)

\* A caller who may change the resource now approves its plan.
execute(r, g) ==
    /\ rows[r].busy # None /\ ~rows[r].executing
    /\ Authorized(r, g) /\ ~_refuse_new_work_on_archived(r)
    /\ rows' = [rows EXCEPT ![r].executing = TRUE]
    /\ UNCHANGED <<revisions, forms, drafts>>

\* The resource is idle again, reserving `cost`.
Idle(row, cost) ==
    [row EXCEPT !.cost = cost, !.busy = None, !.executing = FALSE, !.requested = 0,
                !.previous = 0, !.since = 0]

\* The operation succeeded: the row takes what was asked for.
Succeed(r) ==
    /\ rows[r].executing
    /\ rows' = [rows EXCEPT ![r] =
           [Idle(@, @.requested) EXCEPT
               !.state = IF rows[r].busy = "destroy" THEN "destroyed" ELSE "live"]]
    /\ UNCHANGED <<revisions, forms, drafts>>

\* It failed, its plan was discarded or expired: a deploy gives its resource
\* the previous amount back.
Fail(r) ==
    /\ rows[r].busy # None
    /\ rows' = [rows EXCEPT ![r] = Idle(@, @.previous)]
    /\ UNCHANGED <<revisions, forms, drafts>>

-----------------------------------------------------------------------------
Administer ==
    \E o \in Operator :
        \/ Read(o)
        \/ \E units \in Imports : import_teams(o, units)
        \/ \E t \in Team :
               \/ \E doc \in Docs[t] : create(o, t, doc) \/ replace(o, t, doc)
               \/ \E n \in 1..MaxRevision[t] : revert(o, t, n)
               \/ \E force_archive \in BOOLEAN : archive(o, t, force_archive)
               \/ unarchive(o, t)

\* The environments documents of this instance name.
Environments == UNION {DOMAIN doc.envs : doc \in UNION {Docs[t] : t \in Team}}

Request ==
    \/ \E g \in Caller :
           \/ \E t \in Team, e \in Environments, p \in Pattern : \E c \in Price[p] :
                  ValidateCreate(t, e, p, g, c)
           \/ \E r \in Resource :
                  \/ \E p \in Pattern : \E c \in Price[p] :
                         p = rows[r].pattern /\ ValidateUpdate(r, g, c)
                  \/ ValidateDestroy(r, g) \/ execute(r, g)
    \/ \E d \in drafts : accept(d) \/ Refuse(d)
    \/ \E r \in Resource : Succeed(r) \/ Fail(r)

Next == Administer \/ Request

TeamsSpec == Init /\ [][Next]_vars

-----------------------------------------------------------------------------
(* Properties                                                               *)

\* A resource that exists stays where its team's document places it, through
\* every replacement, revert, import, archive and acceptance: the environment
\* cannot be dropped, nor its subscription or the target of the resource's
\* cloud be changed, while anything lives there (impact_findings and
\* _check_placement together).  Otherwise cloud_targets.unchanged would refuse
\* to execute, update or destroy it.  A resource revived by a request that was
\* validated before its destroy finished is not counted as living in between.
ResourcesStayPlaced ==
    \A r \in Resource : rows[r].state = "live" /\ ~rows[r].revived =>
        /\ Exists(rows[r].team)
        /\ rows[r].env \in DOMAIN Doc(rows[r].team).envs
        /\ Spot(Doc(rows[r].team), rows[r].env, Cloud[rows[r].pattern]) = rows[r].place

\* A plan accepted while its team was active can still be executed after the
\* team is archived, whatever archives and reactivations came before; and no
\* plan was accepted while it was archived (archived_since, _check_placement).
PlansOutliveArchives == \A r \in Resource : ~_refuse_new_work_on_archived(r)

\* The operator whose change this step wrote.
Sent(o) == forms[o] # None /\ forms'[o] = None

\* Nobody writes over a revision they have not read: a second operator's edit,
\* revert, archive or import that was prepared on an older one is refused.
NoLostUpdate ==
    [][\A t \in Team : Exists(t) /\ revisions'[t] # revisions[t] =>
           \E o \in Operator : Sent(o) /\ forms[o][t] = Revision(t)]_vars

\* The environments whose living resources reserve more than the budget.
Overrun(t) == {e \in Envs(t) : Exceeds(_reserved(t, e, {}), Doc(t).envs[e].budget)}
Revived == {r \in Resource : rows[r].revived}

\* A budget is exceeded only when an operator lowered it below what is reserved
\* and acknowledged that: no acceptance does it, not even one validated under
\* a larger budget than the one it is accepted under.
OverrunAcknowledged ==
    [][\A t \in Team : Revived' = {} /\ ~(Overrun(t)' \subseteq Overrun(t)) =>
           \E o \in Operator : Sent(o) /\ "budget_below_reserved" \in Acknowledge[o]]_vars

Shares(t, u) == Exists(t) /\ Exists(u) /\ GroupsOf(Doc(t)) \cap GroupsOf(Doc(u)) # {}

\* Two teams come to share a group only in a write whose operator acknowledged
\* it, also when both are written by one import.  (Creating one team asks for
\* no acknowledgement.)
OverlapAcknowledged ==
    [][\A t, u \in Team : t # u /\ Shares(t, u)' /\ ~Shares(t, u) =>
           \/ \E v \in Team : ~Exists(v) /\ \A w \in Team \ {v} : revisions'[w] = revisions[w]
           \/ \E o \in Operator : Sent(o) /\ "groups_overlap" \in Acknowledge[o]]_vars
=============================================================================
