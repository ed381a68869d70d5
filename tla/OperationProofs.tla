-------------------------- MODULE OperationProofs --------------------------
(***************************************************************************)
(* Theorems about operations, for every finite set of resources and every  *)
(* set of requests, definitions, costs and budget: first OperationLedger   *)
(* and the history CostHistory replays, then PhaseExecution.  Carrying     *)
(* operations out implements the ledger, and with careful operators only   *)
(* reviewed plans are applied and the infrastructure is what the row's     *)
(* last success applied.                                                   *)
(***************************************************************************)
EXTENDS PhaseExecution, CostHistory, NumberLemmas

\* The names that actions write are members of the sets the rows are typed
\* with, so that no step below needs those sets expanded.
LEMMA Names ==
    /\ \A s \in {"none", "queued", "planning", "planned", "apply_queued", "applying",
                  "uncertain", "succeeded", "failed"} : s \in OpState
    /\ \A s \in {"absent", "pending", "ready", "destroyed"} : s \in RowState
    /\ \A s \in {None, "in_sync", "drifted", "unknown"} : s \in Verdict
    /\ \A s \in {None, "succeeded", "failed"} : s \in Outcome
BY DEF OpState, Unfinished, Final, RowState, Verdict, Outcome

-----------------------------------------------------------------------------
(* The actions that leave the tables alone, and those that move one          *)
(* operation's state and possibly its resource's row.                        *)

LEMMA DraftTyped ==
    ASSUME TypeOK, NEW d, Validate(d), d \in Draft
    PROVE  TypeOK'
BY DEF TypeOK, Validate

LEMMA RestoredTyped ==
    ASSUME NEW row \in ResourceRow, NEW op \in OpRow
    PROVE  Restored(row, op) \in ResourceRow
BY DEF Restored, ResourceRow, OpRow

LEMMA SucceededTyped ==
    ASSUME TypeOK, NEW row \in ResourceRow, NEW o \in Op, NEW drift \in Verdict
    PROVE  Succeeded(row, o, drift) \in ResourceRow
BY Names DEF Succeeded, ResourceRow, OpRow, TypeOK

LEMMA AcceptTyped ==
    ASSUME TypeOK, NEW d \in drafts, NEW r \in Resource,
           NEW table \in [Op -> OpRow], NEW rows \in [Resource -> ResourceRow],
           AcceptInto(table, rows, d, r)
    PROVE  TypeOK'
<1>1. NewOp(d, r, rows[r].cost) \in OpRow
  BY Names DEF TypeOK, Draft, NewOp, OpRow, ResourceRow
<1>2. AcceptedRow(d, rows[r]) \in ResourceRow
  <2> DEFINE row == rows[r]
             known == IF row.state # "absent" THEN row
                      ELSE [row EXCEPT !.state = "pending", !.version = d.version,
                                       !.refs = d.refs]
             cost == IF d.action = "deploy" THEN Larger(row.cost, d.cost) ELSE row.cost
  <2>1. row \in ResourceRow /\ d \in Draft
    BY DEF TypeOK
  <2>2. known \in ResourceRow
    BY <2>1, Names DEF Draft, ResourceRow
  <2>3. cost \in Nat
    BY <2>1 DEF Draft, ResourceRow, Larger
  <2>4. [known EXCEPT !.operation = d.key, !.cost = cost] \in ResourceRow
    <3> HIDE DEF known, cost
    <3> QED
      BY <2>1, <2>2, <2>3 DEF Draft, ResourceRow
  <2> QED
    BY <2>1, <2>4 DEF AcceptedRow
<1>3. d.key \in Op
  BY DEF TypeOK, Draft
<1> QED
  BY <1>1, <1>2, <1>3 DEF TypeOK, AcceptInto

\* The step lemma of the type invariant: one step per action.
LEMMA TypeStep == TypeOK /\ [Next]_vars => TypeOK'
<1> USE Names
<1> SUFFICES ASSUME TypeOK, [Next]_vars PROVE TypeOK'
  OBVIOUS
<1>1. CASE Request
  <2>1. ASSUME NEW k \in Op, NEW v \in Version, NEW refs \in RefSets,
               ValidateCreate(k, v, refs)
        PROVE  TypeOK'
    BY <2>1, DraftTyped, CostAssumption, RefAssumption DEF ValidateCreate, Draft
  <2>2. ASSUME NEW k \in Op, NEW r \in Resource, NEW v \in Version, NEW refs \in RefSets,
               ValidateUpdate(k, r, v, refs)
        PROVE  TypeOK'
    BY <2>2, DraftTyped, CostAssumption, RefAssumption DEF ValidateUpdate, Draft, TypeOK, ResourceRow
  <2>3. ASSUME NEW k \in Op, NEW r \in Resource, ValidateDestroy(k, r)
        PROVE  TypeOK'
    BY <2>3, DraftTyped DEF ValidateDestroy, Draft, TypeOK, ResourceRow
  <2>4. ASSUME NEW k \in Op, NEW r \in Resource, ValidateDriftCheck(k, r)
        PROVE  TypeOK'
    BY <2>4, DraftTyped DEF ValidateDriftCheck, Draft, TypeOK, ResourceRow
  <2>5. ASSUME NEW d \in drafts, Accept(d)
        PROVE  TypeOK'
    <3>1. PICK r \in Target(d) : AcceptInto(ops, resources, d, r)
      BY <2>5 DEF Accept
    <3>2. r \in Resource
      BY DEF TypeOK, Target, Draft
    <3> QED
      BY <3>1, <3>2, AcceptTyped DEF TypeOK
  <2>6. ASSUME NEW d \in drafts, AcceptOverExpired(d)
        PROVE  TypeOK'
    <3>1. PICK r \in Target(d) : \E b \in Active(r) :
            AcceptInto([ops EXCEPT ![b].state = "failed"],
                       [resources EXCEPT ![r] = Restored(@, ops[b])], d, r)
      BY <2>6 DEF AcceptOverExpired
    <3>2. PICK b \in Active(r) :
            AcceptInto([ops EXCEPT ![b].state = "failed"],
                       [resources EXCEPT ![r] = Restored(@, ops[b])], d, r)
      BY <3>1
    <3> DEFINE table == [ops EXCEPT ![b].state = "failed"]
               rows == [resources EXCEPT ![r] = Restored(@, ops[b])]
    <3>3. r \in Resource /\ b \in Op
      BY DEF TypeOK, Target, Draft, Active
    <3>4. table \in [Op -> OpRow]
      BY <3>3 DEF TypeOK, OpRow
    <3>5. rows \in [Resource -> ResourceRow]
      BY <3>3, RestoredTyped DEF TypeOK
    <3>6. AcceptInto(table, rows, d, r)
      BY <3>2
    <3> HIDE DEF table, rows
    <3> QED
      BY <3>3, <3>4, <3>5, <3>6, AcceptTyped
  <2>7. ASSUME NEW d \in drafts, DropRequest(d)
        PROVE  TypeOK'
    BY <2>7 DEF DropRequest, TypeOK
  <2> QED
    BY <1>1, <2>1, <2>2, <2>3, <2>4, <2>5, <2>6, <2>7 DEF Request
<1>2. ASSUME NEW o \in Op, Decide(o)
      PROVE  TypeOK'
  <2>1. ops[o] \in OpRow
    BY DEF TypeOK
  <2>2. CASE Execute(o)
    BY <2>1, <2>2 DEF Execute, TypeOK, OpRow
  <2>3. CASE ReleasePlan(o) /\ UNCHANGED <<drafts, claims>>
    BY <2>1, <2>3, RestoredTyped DEF ReleasePlan, TypeOK, OpRow
  <2>4. CASE PlanAges(o)
    BY <2>1, <2>4 DEF PlanAges, TypeOK, OpRow
  <2> QED
    BY <1>2, <2>2, <2>3, <2>4 DEF Decide, ExecuteExpired, Discard
<1>3. ASSUME NEW o \in Op, Work(o)
      PROVE  TypeOK'
  <2>1. ops[o] \in OpRow
    BY DEF TypeOK
  <2>2. CASE ClaimPlan(o)
    BY <2>1, <2>2 DEF ClaimPlan, TypeOK, OpRow
  <2>3. CASE ClaimApply(o)
    BY <2>1, <2>3 DEF ClaimApply, TypeOK, OpRow
  <2>4. CASE FinishPlanned(o)
    BY <2>1, <2>4 DEF FinishPlanned, TypeOK, OpRow
  <2>5. CASE FinishSucceeded(o)
    BY <2>1, <2>5, SucceededTyped DEF FinishSucceeded, Finish, TypeOK, OpRow
  <2>6. CASE FinishUncertain(o)
    BY <2>1, <2>6 DEF FinishUncertain, Finish, TypeOK, OpRow
  <2>7. ASSUME NEW s \in {"planning", "applying"}, FinishFailed(o, s)
        PROVE  TypeOK'
    BY <2>1, <2>7, RestoredTyped DEF FinishFailed, Finish, TypeOK, OpRow
  <2>8. ASSUME NEW s \in {"planning", "applying"}, LateResult(o, s) \/ WorkerLost(o, s)
        PROVE  TypeOK'
    BY <2>8 DEF LateResult, WorkerLost, TypeOK
  <2>9. ASSUME NEW verdict \in {"in_sync", "drifted", "unknown"}, FinishDriftCheck(o, verdict)
        PROVE  TypeOK'
    <3>1. ops' \in [Op -> OpRow]
      BY <2>1, <2>9 DEF FinishDriftCheck, Finish, TypeOK, OpRow
    <3>2. resources' \in [Resource -> ResourceRow]
      BY <2>9 DEF FinishDriftCheck, TypeOK, ResourceRow
    <3> QED
      BY <2>9, <3>1, <3>2 DEF FinishDriftCheck, Finish, TypeOK
  <2>10. CASE Interrupted(o)
    BY <2>1, <2>10 DEF Interrupted, TypeOK, OpRow, ResourceRow
  <2> QED
    BY <1>3, <2>2, <2>3, <2>4, <2>5, <2>6, <2>7, <2>8, <2>9, <2>10 DEF Work
<1>4. ASSUME NEW o \in Op, Reconcile(o)
      PROVE  TypeOK'
  <2>1. ops[o] \in OpRow
    BY DEF TypeOK
  <2>2. CASE ReconcileSucceeded(o)
    <3>1. ops' \in [Op -> OpRow]
      BY <2>1, <2>2 DEF ReconcileSucceeded, TypeOK, OpRow
    <3>2. ASSUME NEW row \in ResourceRow
          PROVE  [Succeeded(row, o, "unknown") EXCEPT !.recon = "succeeded",
                                                     !.outputs = FALSE] \in ResourceRow
      BY SucceededTyped DEF ResourceRow
    <3>3. resources' \in [Resource -> ResourceRow]
      BY <2>2, <3>2 DEF ReconcileSucceeded, TypeOK
    <3> QED
      BY <2>2, <3>1, <3>3 DEF ReconcileSucceeded, TypeOK
  <2>3. CASE ReconcileFailed(o)
    <3>1. ops' \in [Op -> OpRow]
      BY <2>1, <2>3 DEF ReconcileFailed, TypeOK, OpRow
    <3>2. resources' \in [Resource -> ResourceRow]
      BY <2>1, <2>3, RestoredTyped DEF ReconcileFailed, TypeOK
    <3> QED
      BY <2>3, <3>1, <3>2 DEF ReconcileFailed, TypeOK
  <2> QED
    BY <1>4, <2>2, <2>3 DEF Reconcile
<1>5. CASE UNCHANGED vars
  BY <1>5 DEF vars, TypeOK
<1> QED
  BY <1>1, <1>2, <1>3, <1>4, <1>5 DEF Next

\* Every reachable state of the ledger has the types its rows are documented
\* with.
THEOREM TypeCorrect == Spec => []TypeOK
<1>1. Init => TypeOK
  BY Names DEF Init, TypeOK, NoOp, NoResource, OpRow, ResourceRow
<1> QED
  BY <1>1, TypeStep, PTL DEF Spec
-----------------------------------------------------------------------------
(* The inductive invariant.  Every action does one of three things to the    *)
(* pair of tables: it moves an operation between unfinished states, ends one *)
(* and settles its resource's row, or accepts one.                          *)

\* The columns of an operation that never change after its acceptance.
SameRequest(a, b) ==
    /\ a.resource = b.resource /\ a.action = b.action /\ a.previous = b.previous
    /\ a.version = b.version /\ a.refs = b.refs /\ a.cost = b.cost
    /\ a.previousCost = b.previousCost

Tables(table, rows) == table \in [Op -> OpRow] /\ rows \in [Resource -> ResourceRow]

\* Invariants that only change with the tables.
InvT(table, rows) == Consistent(table, rows) /\ Unwritten(table)

\* An unfinished operation takes another unfinished state; no row changes.
LEMMA MoveKeeps ==
    ASSUME NEW table, NEW rows, Tables(table, rows), InvT(table, rows),
           NEW o \in Op, Busy(table, o), NEW new \in OpRow, SameRequest(table[o], new),
           new.state \in Unfinished,
           new.action = "drift_check" => new.state \in {"queued", "planning"}
    PROVE  InvT([table EXCEPT ![o] = new], rows)
<1> DEFINE t == [table EXCEPT ![o] = new]
<1>1. \A p \in Op : SameRequest(table[p], t[p]) /\ (Busy(t, p) <=> Busy(table, p))
  BY DEF Tables, SameRequest, Busy
<1>2. \A p \in Op : t[p].state = "none" <=> table[p].state = "none"
  BY DEF Tables, Busy, Unfinished
<1>3. \A p \in Op : p # o => t[p] = table[p]
  BY DEF Tables
<1>4. t[o] = new
  BY DEF Tables
<1> HIDE DEF t
<1>5. Exclusive(t) /\ Linear(t)
  BY <1>1 DEF InvT, Consistent, Exclusive, Linear, SameRequest
<1>6. WellFormed(t, rows)
  <2> SUFFICES ASSUME NEW p \in Op, t[p].state # "none"
               PROVE  /\ t[p].resource \in Resource
                      /\ rows[t[p].resource].state # "absent"
                      /\ t[p].action \in Changes \cup {"drift_check"}
                      /\ t[p].action = "drift_check" =>
                             t[p].state \in {"queued", "planning", "succeeded", "failed"}
                      /\ t[p].action = "deploy" => t[p].cost = Cost[t[p].version]
                      /\ t[p].previous # None => t[t[p].previous].state # "none"
    BY DEF WellFormed
  <2>1. table[p].state # "none" /\ SameRequest(table[p], t[p])
    BY <1>1, <1>2
  <2>2. table[p].previous # None => table[p].previous \in Op
    BY DEF Tables, OpRow
  <2> QED
    BY <2>1, <2>2, <1>2, <1>3, <1>4 DEF InvT, Consistent, WellFormed, SameRequest
<1>7. RowNames(t, rows)
  <2>1. \A r \in Resource : rows[r].operation # None => rows[r].operation \in Op
    BY DEF Tables, ResourceRow
  <2> QED
    BY <2>1, <1>1, <1>2 DEF InvT, Consistent, RowNames, SameRequest
<1>8. RowIsHead(t, rows)
  BY <1>1, <1>2 DEF InvT, Consistent, RowIsHead, SameRequest
<1>9. IdleExact(t, rows) /\ DeployExact(t, rows)
  BY <1>1 DEF InvT, Consistent, IdleExact, DeployExact, SameRequest
<1>10. Unwritten(t)
  BY <1>2, <1>3 DEF InvT, Unwritten, Busy, Unfinished
<1> QED
  BY <1>5, <1>6, <1>7, <1>8, <1>9, <1>10 DEF InvT, Consistent, t

\* An unfinished operation ends, and leaves its resource with the same latest
\* change and, if it is still live, with the cost of what is deployed.
LEMMA EndKeeps ==
    ASSUME NEW table, NEW rows, Tables(table, rows), InvT(table, rows),
           NEW o \in Op, Busy(table, o), NEW new \in OpRow, SameRequest(table[o], new),
           new.state \in Final, NEW row \in ResourceRow,
           row.operation = rows[table[o].resource].operation, row.state # "absent",
           Live(row) => row.cost = SettledCost(row)
    PROVE  InvT([table EXCEPT ![o] = new], [rows EXCEPT ![table[o].resource] = row])
<1> DEFINE r == table[o].resource
           t == [table EXCEPT ![o] = new]
           s == [rows EXCEPT ![r] = row]
<1>0. r \in Resource
  BY DEF InvT, Consistent, WellFormed, Busy, Unfinished
<1>1. \A p \in Op : /\ SameRequest(table[p], t[p])
                    /\ Busy(t, p) <=> Busy(table, p) /\ p # o
  BY DEF Tables, SameRequest, Busy, Unfinished, Final
<1>2. \A p \in Op : t[p].state = "none" <=> table[p].state = "none"
  BY DEF Tables, Busy, Unfinished, Final
<1>3. \A p \in Op : p # o => t[p] = table[p]
  BY DEF Tables
<1>4. t[o] = new
  BY DEF Tables
<1>5. \A q \in Resource : /\ s[q].operation = rows[q].operation
                          /\ q # r => s[q] = rows[q]
  BY <1>0 DEF Tables
<1>6. s[r] = row
  BY <1>0 DEF Tables
<1>7. \A p \in Op : Busy(t, p) => table[p].resource # r
  BY <1>1 DEF InvT, Consistent, Exclusive
<1> HIDE DEF t, s, r
<1>8. Exclusive(t) /\ Linear(t)
  BY <1>1 DEF InvT, Consistent, Exclusive, Linear, SameRequest
<1>9. WellFormed(t, s)
  <2> SUFFICES ASSUME NEW p \in Op, t[p].state # "none"
               PROVE  /\ t[p].resource \in Resource
                      /\ s[t[p].resource].state # "absent"
                      /\ t[p].action \in Changes \cup {"drift_check"}
                      /\ t[p].action = "drift_check" =>
                             t[p].state \in {"queued", "planning", "succeeded", "failed"}
                      /\ t[p].action = "deploy" => t[p].cost = Cost[t[p].version]
                      /\ t[p].previous # None => t[t[p].previous].state # "none"
    BY DEF WellFormed
  <2>1. table[p].state # "none" /\ SameRequest(table[p], t[p])
    BY <1>1, <1>2
  <2>2. table[p].previous # None => table[p].previous \in Op
    BY DEF Tables, OpRow
  <2>3. s[t[p].resource].state # "absent"
    BY <2>1, <1>5, <1>6 DEF InvT, Consistent, WellFormed, SameRequest
  <2> QED
    BY <2>1, <2>2, <2>3, <1>2, <1>3, <1>4 DEF InvT, Consistent, WellFormed, SameRequest, Final
<1>10. RowNames(t, s)
  <2>1. \A q \in Resource : rows[q].operation # None => rows[q].operation \in Op
    BY DEF Tables, ResourceRow
  <2> QED
    BY <2>1, <1>1, <1>2, <1>5, <1>6 DEF InvT, Consistent, RowNames, SameRequest
<1>11. RowIsHead(t, s)
  BY <1>1, <1>2, <1>5 DEF InvT, Consistent, RowIsHead, WellFormed, SameRequest
<1>12. IdleExact(t, s)
  <2> SUFFICES ASSUME NEW q \in Resource, Live(s[q]),
                      \A p \in Op : Busy(t, p) /\ t[p].resource = q => t[p].action # "deploy"
               PROVE  s[q].cost = SettledCost(s[q])
    BY DEF IdleExact
  <2>1. CASE q = r
    BY <2>1, <1>6
  <2>2. CASE q # r
    BY <2>2, <1>1, <1>5, r = table[o].resource DEF InvT, Consistent, IdleExact, SameRequest, r
  <2> QED
    BY <2>1, <2>2
<1>13. DeployExact(t, s)
  BY <1>1, <1>5, <1>7 DEF InvT, Consistent, DeployExact, SameRequest, WellFormed, Busy, Unfinished
<1>14. Unwritten(t)
  BY <1>2, <1>3 DEF InvT, Unwritten, Busy, Unfinished
<1> QED
  BY <1>8, <1>9, <1>10, <1>11, <1>12, <1>13, <1>14 DEF InvT, Consistent, t, s, r
\* A request is accepted on a resource that no operation holds.
LEMMA AcceptKeeps ==
    ASSUME NEW table, NEW rows, Tables(table, rows), InvT(table, rows),
           NEW d \in Draft, NEW r \in Resource,
           d.action = "deploy" => d.cost = Cost[d.version],
           \A p \in Op : Busy(table, p) => table[p].resource # r,
           table[d.key].state = "none", AcceptInto(table, rows, d, r)
    PROVE  InvT(ops', resources')
<1> DEFINE k == d.key
           op == NewOp(d, r, rows[r].cost)
           row == AcceptedRow(d, rows[r])
           t == [table EXCEPT ![k] = op]
           s == [rows EXCEPT ![r] = row]
<1>0. k \in Op /\ d.action \in Changes \cup {"drift_check"} /\ d.previous = rows[r].operation
  BY DEF Draft, AcceptInto, Unchanged, Changes
<1>1. ops' = t /\ resources' = s
  BY DEF AcceptInto
<1>2. t[k] = op /\ \A p \in Op : p # k => t[p] = table[p]
  BY <1>0 DEF Tables
<1>3. s[r] = row /\ \A q \in Resource : q # r => s[q] = rows[q]
  BY DEF Tables
<1>4. /\ op.state = "queued" /\ op.resource = r /\ op.action = d.action
      /\ op.previous = rows[r].operation /\ op.cost = d.cost /\ op.version = d.version
      /\ op.action = "deploy" => op.previousCost = rows[r].cost
  BY <1>0 DEF NewOp
<1>5. /\ row.state # "absent"
      /\ d.action \in Changes => row.operation = k
      /\ d.action = "drift_check" => row = rows[r]
      /\ Live(row) => Live(rows[r])
      /\ SettledCost(row) = SettledCost(rows[r])
      /\ row.cost = IF d.action = "deploy" THEN Larger(rows[r].cost, d.cost) ELSE rows[r].cost
  <2> DEFINE old == rows[r]
  <2>1. old \in ResourceRow
    BY DEF Tables
  <2>2. d.action = "drift_check" => old.state = "ready"
    BY DEF AcceptInto
  <2>3. old.state \in {"absent", "pending", "ready", "destroyed"}
    BY <2>1 DEF ResourceRow, RowState
  <2> HIDE DEF old
  <2>4. CASE d.action = "drift_check"
    BY <2>2, <2>4 DEF AcceptedRow, Changes, old
  <2>5. CASE d.action # "drift_check" /\ old.state # "absent"
    BY <2>1, <2>5 DEF AcceptedRow, Live, SettledCost, ResourceRow, old
  <2>6. CASE d.action # "drift_check" /\ old.state = "absent"
    BY <2>1, <2>6 DEF AcceptedRow, Live, SettledCost, ResourceRow, old
  <2> QED
    BY <2>4, <2>5, <2>6
<1>6. table[k] = NoOp
  BY <1>0 DEF InvT, Unwritten
<1>7. ~Busy(table, k) /\ table[k].action \notin Changes
  BY <1>6, NoneAssumption DEF NoOp, Busy, Unfinished, Changes
<1>8. /\ rows[r].operation \in Op \cup {None}
      /\ rows[r].operation # k
      /\ \A p \in Op : /\ table[p].previous \in Op \cup {None}
                       /\ table[p].previous # k
  <2>1. None # k
    BY <1>0, NoneAssumption
  <2>2. rows[r].operation \in Op \cup {None} /\ rows[r].operation # k
    BY <1>6, <2>1 DEF Tables, ResourceRow, InvT, Consistent, RowNames, NoOp
  <2>3. ASSUME NEW p \in Op PROVE table[p].previous \in Op \cup {None} /\ table[p].previous # k
    <3>1. CASE table[p].state = "none"
      BY <2>1, <3>1 DEF InvT, Unwritten, NoOp
    <3>2. CASE table[p].state # "none"
      BY <1>6, <2>1, <3>2 DEF Tables, OpRow, InvT, Consistent, WellFormed, NoOp
    <3> QED
      BY <3>1, <3>2
  <2> QED
    BY <2>2, <2>3
<1> HIDE DEF t, s, op, row, k
<1>9. Exclusive(t)
  BY <1>2, <1>4, <1>7 DEF InvT, Consistent, Exclusive, Busy
<1>10. Linear(t)
  <2>1. ASSUME NEW p \in Op, p # k, table[p].action \in Changes, table[p].resource = r
        PROVE  table[p].previous # rows[r].operation
    <3>1. table[p].state # "none"
      BY <2>1, NoneAssumption DEF InvT, Unwritten, NoOp, Changes
    <3> QED
      BY <2>1, <3>1 DEF InvT, Consistent, RowIsHead
  <2>2. SUFFICES ASSUME NEW o \in Op, NEW p \in Op,
                        t[o].action \in Changes, t[p].action \in Changes,
                        t[o].resource = t[p].resource, t[o].previous = t[p].previous
                 PROVE  o = p
    BY DEF Linear
  <2>3. CASE o # k /\ p # k
    BY <1>2, <2>2, <2>3 DEF InvT, Consistent, Linear
  <2>4. CASE o = k \/ p = k
    BY <1>2, <1>4, <2>1, <2>2, <2>4
  <2> QED
    BY <2>3, <2>4
<1>11. WellFormed(t, s)
  <2> SUFFICES ASSUME NEW p \in Op, t[p].state # "none"
               PROVE  /\ t[p].resource \in Resource
                      /\ s[t[p].resource].state # "absent"
                      /\ t[p].action \in Changes \cup {"drift_check"}
                      /\ t[p].action = "drift_check" =>
                             t[p].state \in {"queued", "planning", "succeeded", "failed"}
                      /\ t[p].action = "deploy" => t[p].cost = Cost[t[p].version]
                      /\ t[p].previous # None => t[t[p].previous].state # "none"
    BY DEF WellFormed
  <2>1. CASE p = k
    <3>1. rows[r].operation # None => table[rows[r].operation].state # "none"
      BY DEF InvT, Consistent, RowNames
    <3> QED
      BY <2>1, <3>1, <1>0, <1>2, <1>3, <1>4, <1>5, <1>8
  <2>2. CASE p # k
    BY <2>2, <1>2, <1>3, <1>5, <1>8 DEF InvT, Consistent, WellFormed
  <2> QED
    BY <2>1, <2>2
<1>12. RowNames(t, s)
  <2> SUFFICES ASSUME NEW q \in Resource
               PROVE  /\ s[q].state = "absent" => s[q].cost = 0 /\ s[q].operation = None
                      /\ s[q].operation # None =>
                             /\ t[s[q].operation].state # "none"
                             /\ t[s[q].operation].action \in Changes
    BY DEF RowNames
  <2>1. rows[q].operation # None => /\ rows[q].operation \in Op /\ rows[q].operation # k
                                    /\ table[rows[q].operation].state # "none"
                                    /\ table[rows[q].operation].action \in Changes
    BY <1>6 DEF Tables, ResourceRow, InvT, Consistent, RowNames, NoOp
  <2>2. CASE q # r
    BY <2>1, <2>2, <1>2, <1>3 DEF InvT, Consistent, RowNames
  <2>3. CASE q = r /\ d.action \in Changes
    BY <2>3, <1>0, <1>2, <1>3, <1>4, <1>5
  <2>4. CASE q = r /\ d.action = "drift_check"
    BY <2>1, <2>4, <1>2, <1>3, <1>5
  <2> QED
    BY <2>2, <2>3, <2>4, <1>0
<1>13. RowIsHead(t, s)
  <2> SUFFICES ASSUME NEW o \in Op, t[o].state # "none", t[o].action \in Changes
               PROVE  /\ Busy(t, o) => s[t[o].resource].operation = o
                      /\ t[o].previous # s[t[o].resource].operation
    BY DEF RowIsHead
  <2>1. CASE o = k
    BY <2>1, <1>2, <1>3, <1>4, <1>5, <1>8
  <2>2. CASE o # k
    <3>1. t[o] = table[o] /\ (Busy(t, o) <=> Busy(table, o))
      BY <2>2, <1>2 DEF Busy
    <3>2. table[o].resource \in Resource
      BY <3>1 DEF InvT, Consistent, WellFormed
    <3> QED
      BY <3>1, <3>2, <1>0, <1>3, <1>5, <1>8 DEF InvT, Consistent, RowIsHead
  <2> QED
    BY <2>1, <2>2
<1>14. ASSUME Live(rows[r]) PROVE rows[r].cost = SettledCost(rows[r])
  BY <1>14 DEF InvT, Consistent, IdleExact
<1>15. IdleExact(t, s)
  <2> SUFFICES ASSUME NEW q \in Resource, Live(s[q]),
                      \A o \in Op : Busy(t, o) /\ t[o].resource = q => t[o].action # "deploy"
               PROVE  s[q].cost = SettledCost(s[q])
    BY DEF IdleExact
  <2>1. CASE q = r
    <3>1. d.action # "deploy"
      BY <2>1, <1>0, <1>2, <1>4 DEF Busy, Unfinished
    <3> QED
      BY <2>1, <3>1, <1>3, <1>5, <1>14
  <2>2. CASE q # r
    BY <2>2, <1>2, <1>3, <1>7 DEF InvT, Consistent, IdleExact, Busy
  <2> QED
    BY <2>1, <2>2
<1>16. DeployExact(t, s)
  <2> SUFFICES ASSUME NEW o \in Op, Busy(t, o), t[o].action = "deploy", Live(s[t[o].resource])
               PROVE  /\ t[o].previousCost = SettledCost(s[t[o].resource])
                      /\ s[t[o].resource].cost = Larger(t[o].previousCost, t[o].cost)
    BY DEF DeployExact
  <2>1. CASE o = k
    BY <2>1, <1>2, <1>3, <1>4, <1>5, <1>14
  <2>2. CASE o # k
    <3>1. t[o] = table[o] /\ Busy(table, o)
      BY <2>2, <1>2 DEF Busy
    <3>2. table[o].resource \in Resource /\ table[o].resource # r
      BY <3>1 DEF InvT, Consistent, WellFormed, Busy, Unfinished
    <3> QED
      BY <3>1, <3>2, <1>3 DEF InvT, Consistent, DeployExact
  <2> QED
    BY <2>1, <2>2
<1>17. Unwritten(t)
  BY <1>2, <1>4 DEF InvT, Unwritten
<1> QED
  BY <1>1, <1>9, <1>10, <1>11, <1>12, <1>13, <1>15, <1>16, <1>17 DEF InvT, Consistent
\* What Restored leaves of a live resource is the cost of what is deployed.
LEMMA RestoredSettles ==
    ASSUME NEW table, NEW rows, Tables(table, rows), InvT(table, rows),
           NEW o \in Op, Busy(table, o),
           NEW row, row = Restored(rows[table[o].resource], table[o])
    PROVE  /\ row \in ResourceRow
           /\ row.operation = rows[table[o].resource].operation
           /\ row.state # "absent"
           /\ Live(row) => row.cost = SettledCost(row)
<1> DEFINE r == table[o].resource
           old == rows[r]
<1>1. r \in Resource /\ old.state # "absent"
  BY DEF InvT, Consistent, WellFormed, Busy, Unfinished
<1>2. old \in ResourceRow /\ table[o] \in OpRow
  BY <1>1 DEF Tables
<1>3. row \in ResourceRow
  BY <1>2, RestoredTyped
<1>4. CASE table[o].action = "deploy"
  <2>1. row = [old EXCEPT !.cost = table[o].previousCost]
    BY <1>4 DEF Restored
  <2>2. Live(old) => table[o].previousCost = SettledCost(old)
    BY <1>4 DEF InvT, Consistent, DeployExact
  <2>3. /\ row.operation = old.operation /\ row.state = old.state
        /\ row.version = old.version /\ row.cost = table[o].previousCost
    <3> HIDE DEF old
    <3> QED BY <2>1, <1>2 DEF ResourceRow
  <2> QED
    BY <1>1, <1>3, <2>2, <2>3 DEF Live, SettledCost
<1>5. CASE table[o].action # "deploy"
  <2>1. row = old
    BY <1>5 DEF Restored
  <2>2. \A p \in Op : Busy(table, p) /\ table[p].resource = r => p = o
    BY DEF InvT, Consistent, Exclusive
  <2>3. Live(old) => old.cost = SettledCost(old)
    BY <1>1, <1>5, <2>2 DEF InvT, Consistent, IdleExact
  <2> QED
    BY <1>1, <1>3, <2>1, <2>3
<1> QED
  BY <1>4, <1>5

\* An unfinished operation fails, and its resource is released.
LEMMA ReleaseKeeps ==
    ASSUME NEW table, NEW rows, Tables(table, rows), InvT(table, rows),
           NEW o \in Op, Busy(table, o), NEW new \in OpRow, SameRequest(table[o], new),
           new.state \in Final
    PROVE  InvT([table EXCEPT ![o] = new],
                [rows EXCEPT ![table[o].resource] = Restored(rows[table[o].resource], table[o])])
BY RestoredSettles, EndKeeps

-----------------------------------------------------------------------------
(* What a step can do to the tables.                                         *)

\* An unfinished operation takes the row `new`, which records the same request.
Becomes(o, new) ==
    /\ Busy(ops, o) /\ SameRequest(ops[o], new)
    /\ ops' = [ops EXCEPT ![o] = new] /\ UNCHANGED drafts

\* It stays unfinished, ...
Moves(o, new) ==
    /\ Becomes(o, new)
    /\ new.state \in Unfinished
    /\ new.action = "drift_check" => new.state \in {"queued", "planning"}
    /\ UNCHANGED resources

\* ... fails and gives back what it reserved, ...
Fails(o, new) ==
    /\ Becomes(o, new)
    /\ new.action \in Changes /\ new.state = "failed"
    /\ resources' = [resources EXCEPT ![ops[o].resource] =
                         Restored(resources[ops[o].resource], ops[o])]

\* ... succeeds and becomes what its resource's row shows, ...
Shows(row, o) ==
    /\ row \in ResourceRow
    /\ row.operation = o
    /\ row.state = IF ops[o].action = "destroy" THEN "destroyed" ELSE "ready"
    /\ row.version = ops[o].version /\ row.refs = ops[o].refs /\ row.cost = ops[o].cost

Succeeds(o, new) ==
    /\ Becomes(o, new)
    /\ new.action \in Changes /\ new.state = "succeeded"
    /\ \E row \in ResourceRow :
           /\ Shows(row, o)
           /\ resources' = [resources EXCEPT ![ops[o].resource] = row]

\* ... or, a drift check, ends with a verdict.
Checks(o, new) ==
    /\ Becomes(o, new)
    /\ new.action = "drift_check" /\ new.state \in Final
    /\ \E verdict \in Verdict :
           resources' = [resources EXCEPT ![ops[o].resource].drift = verdict]

\* A change succeeds: its resource's row shows it.
LEMMA SuccessKeeps ==
    ASSUME TypeOK, InvT(ops, resources), NEW o \in Op, Busy(ops, o),
           ops[o].action \in Changes, NEW new \in OpRow, SameRequest(ops[o], new),
           new.state \in Final, NEW row, Shows(row, o)
    PROVE  InvT([ops EXCEPT ![o] = new], [resources EXCEPT ![ops[o].resource] = row])
<1>1. Tables(ops, resources)
  BY DEF Tables, TypeOK
<1>2. ops[o].state # "none"
  BY DEF Busy, Unfinished
<1>3. resources[ops[o].resource].operation = o
  BY <1>2 DEF InvT, Consistent, RowIsHead
<1>4. ops[o].action = "deploy" => ops[o].cost = Cost[ops[o].version]
  BY <1>2 DEF InvT, Consistent, WellFormed
<1>5. row.state # "absent" /\ (Live(row) => row.cost = SettledCost(row))
  BY <1>4 DEF Shows, Live, SettledCost, Changes
<1> QED
  BY <1>1, <1>3, <1>5, EndKeeps DEF Shows

\* Validation adds a draft; the tables stay as they are.
LEMMA DraftKeeps ==
    ASSUME LedgerInv, TypeOK', NEW d, Validate(d),
           d.action = "deploy" => d.cost = Cost[d.version]
    PROVE  LedgerInv'
<1>1. UNCHANGED <<ops, resources>> /\ drafts' = drafts \cup {d}
  BY DEF Validate
<1>2. DraftCosts'
  BY <1>1 DEF LedgerInv, DraftCosts
<1> QED
  BY <1>1, <1>2 DEF LedgerInv, Consistent, Unwritten, Exclusive, Linear, WellFormed,
     RowNames, RowIsHead, IdleExact, DeployExact, Busy, SettledCost

\* What the tables satisfy after a step, and that no draft was added, is all
\* the invariant needs of it.
LEMMA TablesSuffice ==
    ASSUME LedgerInv, TypeOK', InvT(ops', resources'), drafts' \subseteq drafts
    PROVE  LedgerInv'
BY DEF LedgerInv, InvT, DraftCosts, Consistent, Unwritten, Exclusive, Linear, WellFormed,
   RowNames, RowIsHead, IdleExact, DeployExact, Busy, SettledCost


\* A row with another state still records the same request.
LEMMA StateChanged ==
    ASSUME NEW op \in OpRow, NEW s \in OpState, NEW new, new = [op EXCEPT !.state = s]
    PROVE  new \in OpRow /\ SameRequest(op, new) /\ new.state = s /\ new.action = op.action
BY DEF OpRow, SameRequest

\* Every step that changes the tables accepts a request or is one of those.
LEMMA StepShape ==
    ASSUME LedgerInv, [Next]_vars
    PROVE  \/ UNCHANGED <<ops, resources>>
           \/ \E d \in drafts : Accept(d) \/ AcceptOverExpired(d)
           \/ \E o \in Op : \E new \in OpRow :
                  Moves(o, new) \/ Fails(o, new) \/ Succeeds(o, new) \/ Checks(o, new)
<1> DEFINE Goal(o) == \E new \in OpRow :
                          Moves(o, new) \/ Fails(o, new) \/ Succeeds(o, new) \/ Checks(o, new)
<1>0. /\ ops \in [Op -> OpRow] /\ resources \in [Resource -> ResourceRow]
      /\ \A s \in Unfinished \cup Final : s \in OpState
  BY DEF LedgerInv, TypeOK, OpState
<1>1. ASSUME NEW o \in Op, Busy(ops, o)
      PROVE  /\ ops[o].resource \in Resource
             /\ ops[o].action \in Changes \cup {"drift_check"}
             /\ ops[o].action = "drift_check" => ops[o].state \in {"queued", "planning"}
  BY <1>1 DEF LedgerInv, Consistent, WellFormed, Busy, Unfinished
<1>2. ASSUME NEW o \in Op, Busy(ops, o), NEW s \in Unfinished,
             ops' = [ops EXCEPT ![o].state = s], UNCHANGED <<resources, drafts>>,
             ops[o].action # "drift_check" \/ s \in {"queued", "planning"}
      PROVE  Goal(o)
  <2> DEFINE new == [ops[o] EXCEPT !.state = s]
  <2>1. new \in OpRow /\ SameRequest(ops[o], new) /\ new.state = s /\ new.action = ops[o].action
    BY <1>0, StateChanged
  <2>2. ops' = [ops EXCEPT ![o] = new]
    BY <1>2
  <2> HIDE DEF new
  <2> QED
    BY <1>2, <2>1, <2>2 DEF Moves, Becomes
<1>3. ASSUME NEW o \in Op, Busy(ops, o), ops[o].action # "drift_check", UNCHANGED drafts,
             ops' = [ops EXCEPT ![o].state = "failed"],
             resources' = [resources EXCEPT ![ops[o].resource] = Restored(@, ops[o])]
      PROVE  Goal(o)
  <2> DEFINE new == [ops[o] EXCEPT !.state = "failed"]
  <2>1. new \in OpRow /\ SameRequest(ops[o], new) /\ new.state = "failed"
        /\ new.action = ops[o].action
    BY <1>0, StateChanged DEF Final
  <2>2. ops' = [ops EXCEPT ![o] = new]
    BY <1>3
  <2> HIDE DEF new
  <2> QED
    BY <1>1, <1>3, <2>1, <2>2 DEF Fails, Becomes
<1>4. ASSUME NEW o \in Op, Busy(ops, o), ops[o].action = "drift_check", UNCHANGED drafts,
             NEW s \in Final, ops' = [ops EXCEPT ![o].state = s],
             NEW verdict \in Verdict,
             resources' = [resources EXCEPT ![ops[o].resource].drift = verdict]
      PROVE  Goal(o)
  <2> DEFINE new == [ops[o] EXCEPT !.state = s]
  <2>1. new \in OpRow /\ SameRequest(ops[o], new) /\ new.state = s /\ new.action = ops[o].action
    BY <1>0, StateChanged
  <2>2. ops' = [ops EXCEPT ![o] = new]
    BY <1>4
  <2> HIDE DEF new
  <2> QED
    BY <1>4, <2>1, <2>2 DEF Checks, Becomes
<1>5. ASSUME NEW o \in Op, NEW drift \in Verdict, NEW row,
             row = Succeeded(resources[ops[o].resource], o, drift),
             ops[o].resource \in Resource
      PROVE  Shows(row, o)
  <2>1. resources[ops[o].resource] \in ResourceRow
    BY <1>0, <1>5
  <2>2. row \in ResourceRow
    BY <1>5, <2>1, SucceededTyped DEF LedgerInv
  <2> QED
    BY <1>5, <2>1, <2>2 DEF Shows, Succeeded, ResourceRow
<1>6. CASE Request
  BY <1>6 DEF Request, ValidateCreate, ValidateUpdate, ValidateDestroy, ValidateDriftCheck,
     Validate, DropRequest
<1>7. ASSUME NEW o \in Op, Decide(o) PROVE Goal(o)
  <2>1. CASE Execute(o)
    <3>1. Busy(ops, o) /\ ops[o].action # "drift_check"
      BY <2>1, <1>1 DEF Execute, Busy, Unfinished
    <3> QED
      BY <2>1, <3>1, <1>2 DEF Execute, Unfinished
  <2>2. CASE ops[o].state = "planned" /\ ReleasePlan(o) /\ UNCHANGED <<drafts, claims>>
    <3>1. Busy(ops, o) /\ ops[o].action # "drift_check"
      BY <2>2, <1>1 DEF Busy, Unfinished
    <3> QED
      BY <2>2, <3>1, <1>3 DEF ReleasePlan
  <2>3. CASE PlanAges(o)
    <3> DEFINE new == [ops[o] EXCEPT !.aged = TRUE]
    <3>1. Busy(ops, o) /\ ops[o].action # "drift_check"
      BY <2>3, <1>1 DEF PlanAges, Busy, Unfinished
    <3>2. new \in OpRow /\ SameRequest(ops[o], new) /\ new.state = "planned"
          /\ new.action = ops[o].action
      BY <1>0, <2>3 DEF SameRequest, OpRow, PlanAges
    <3>3. ops' = [ops EXCEPT ![o] = new] /\ UNCHANGED <<resources, drafts>>
      BY <2>3 DEF PlanAges
    <3> HIDE DEF new
    <3> QED
      BY <3>1, <3>2, <3>3 DEF Moves, Becomes, Unfinished
  <2> QED
    BY <1>7, <2>1, <2>2, <2>3 DEF Decide, ExecuteExpired, Discard, Expired
<1>8. ASSUME NEW o \in Op, Work(o) PROVE UNCHANGED <<ops, resources>> \/ Goal(o)
  <2>1. CASE ClaimPlan(o)
    BY <2>1, <1>2 DEF ClaimPlan, Busy, Unfinished
  <2>2. CASE ClaimApply(o)
    <3>1. Busy(ops, o) /\ ops[o].action # "drift_check"
      BY <2>2, <1>1 DEF ClaimApply, Busy, Unfinished
    <3> QED
      BY <2>2, <3>1, <1>2 DEF ClaimApply, Unfinished
  <2>3. CASE FinishPlanned(o)
    <3> DEFINE new == [ops[o] EXCEPT !.state = "planned", !.digest = TRUE]
    <3>1. /\ new \in OpRow /\ SameRequest(ops[o], new) /\ new.state = "planned"
          /\ new.action # "drift_check"
      BY <1>0, <2>3, Names DEF SameRequest, OpRow, FinishPlanned
    <3>2. ops' = [ops EXCEPT ![o] = new] /\ Busy(ops, o) /\ UNCHANGED <<resources, drafts>>
      BY <1>0, <2>3 DEF FinishPlanned, Holds, Busy, Unfinished
    <3> HIDE DEF new
    <3> QED
      BY <3>1, <3>2 DEF Moves, Becomes, Unfinished
  <2>4. CASE FinishSucceeded(o)
    <3> DEFINE new == [ops[o] EXCEPT !.state = "succeeded"]
               row == Succeeded(resources[ops[o].resource], o, "in_sync")
    <3>1. /\ new \in OpRow /\ SameRequest(ops[o], new) /\ new.state = "succeeded"
          /\ new.action = ops[o].action
      BY <1>0, StateChanged DEF Final
    <3>2. /\ ops' = [ops EXCEPT ![o] = new] /\ Busy(ops, o) /\ UNCHANGED drafts
          /\ resources' = [resources EXCEPT ![ops[o].resource] = row]
          /\ ops[o].state = "applying"
      BY <2>4 DEF FinishSucceeded, Finish, Holds, Busy, Unfinished
    <3>3. ops[o].action \in Changes /\ Shows(row, o)
      BY <1>1, <1>5, <3>2, Names
    <3> HIDE DEF new, row
    <3> QED
      BY <3>1, <3>2, <3>3 DEF Succeeds, Becomes, Shows
  <2>5. CASE FinishUncertain(o)
    <3>1. Busy(ops, o) /\ ops[o].action # "drift_check"
      BY <2>5, <1>1 DEF FinishUncertain, Finish, Holds, Busy, Unfinished
    <3> QED
      BY <2>5, <3>1, <1>2 DEF FinishUncertain, Finish, Unfinished
  <2>6. ASSUME NEW s \in {"planning", "applying"}, FinishFailed(o, s) PROVE Goal(o)
    <3>1. Busy(ops, o)
      BY <2>6 DEF FinishFailed, Finish, Holds, Busy, Unfinished
    <3> QED
      BY <2>6, <3>1, <1>3 DEF FinishFailed, Finish
  <2>7. ASSUME NEW s \in {"planning", "applying"}, LateResult(o, s) \/ WorkerLost(o, s)
        PROVE  UNCHANGED <<ops, resources>>
    BY <2>7 DEF LateResult, WorkerLost
  <2>8. ASSUME NEW verdict \in {"in_sync", "drifted", "unknown"}, FinishDriftCheck(o, verdict)
        PROVE  Goal(o)
    <3>1. Busy(ops, o)
      BY <2>8 DEF FinishDriftCheck, Finish, Holds, Busy, Unfinished
    <3> QED
      BY <2>8, <3>1, <1>4, Names DEF FinishDriftCheck, Finish, Final
  <2>9. CASE Interrupted(o) /\ ops[o].action = "drift_check"
    <3>1. Busy(ops, o)
      BY <2>9 DEF Interrupted, Busy, Unfinished
    <3> QED
      BY <2>9, <3>1, <1>4, Names DEF Interrupted, Final
  <2>10. CASE Interrupted(o) /\ ops[o].action # "drift_check"
    <3>1. Busy(ops, o)
      BY <2>10 DEF Interrupted, Busy, Unfinished
    <3> QED
      BY <2>10, <3>1, <1>2 DEF Interrupted, Unfinished
  <2> QED
    BY <1>8, <2>1, <2>2, <2>3, <2>4, <2>5, <2>6, <2>7, <2>8, <2>9, <2>10 DEF Work
<1>9. ASSUME NEW o \in Op, Reconcile(o) PROVE Goal(o)
  <2>1. CASE ReconcileSucceeded(o)
    <3> DEFINE new == [ops[o] EXCEPT !.state = "succeeded", !.recon = "succeeded"]
               done == Succeeded(resources[ops[o].resource], o, "unknown")
               row == [done EXCEPT !.recon = "succeeded", !.outputs = FALSE]
    <3>1. /\ new \in OpRow /\ SameRequest(ops[o], new) /\ new.state = "succeeded"
          /\ new.action = ops[o].action
      BY <1>0, Names DEF SameRequest, OpRow
    <3>2. /\ ops' = [ops EXCEPT ![o] = new] /\ Busy(ops, o) /\ UNCHANGED drafts
          /\ resources' = [resources EXCEPT ![ops[o].resource] = row]
          /\ ops[o].state = "uncertain"
      BY <2>1 DEF ReconcileSucceeded, Busy, Unfinished
    <3>3. ops[o].action \in Changes /\ Shows(done, o)
      BY <1>1, <1>5, <3>2, Names
    <3>4. Shows(row, o)
      <4> HIDE DEF done
      <4> QED
        BY <3>3, Names DEF Shows, ResourceRow
    <3> HIDE DEF new, row
    <3> QED
      BY <3>1, <3>2, <3>3, <3>4 DEF Succeeds, Becomes, Shows
  <2>2. CASE ReconcileFailed(o)
    <3> DEFINE new == [ops[o] EXCEPT !.state = "failed", !.recon = "failed"]
    <3>1. /\ new \in OpRow /\ SameRequest(ops[o], new) /\ new.state = "failed"
          /\ new.action = ops[o].action
      BY <1>0, Names DEF SameRequest, OpRow
    <3>2. /\ ops' = [ops EXCEPT ![o] = new] /\ Busy(ops, o) /\ UNCHANGED drafts
          /\ resources' = [resources EXCEPT ![ops[o].resource] =
                               Restored(resources[ops[o].resource], ops[o])]
          /\ ops[o].state = "uncertain"
      BY <2>2 DEF ReconcileFailed, Busy, Unfinished
    <3>3. ops[o].action \in Changes
      BY <1>1, <3>2
    <3> HIDE DEF new
    <3> QED
      BY <3>1, <3>2, <3>3 DEF Fails, Becomes
  <2> QED
    BY <1>9, <2>1, <2>2 DEF Reconcile
<1>10. CASE UNCHANGED vars
  BY <1>10 DEF vars
<1> QED
  BY <1>6, <1>7, <1>8, <1>9, <1>10 DEF Next

\* Only a request adds a draft.
LEMMA DraftsStay ==
    ASSUME [Next]_vars, ~Request
    PROVE  drafts' = drafts
BY DEF Next, Decide, Work, Reconcile, Execute, ExecuteExpired, Discard, PlanAges,
   ClaimPlan, ClaimApply, FinishPlanned, FinishSucceeded, FinishUncertain, FinishFailed,
   LateResult, WorkerLost, FinishDriftCheck, Finish, Interrupted, ReconcileSucceeded,
   ReconcileFailed, vars

\* The step lemma of the inductive invariant: one step per kind.
LEMMA InvStep == LedgerInv /\ [Next]_vars => LedgerInv'
<1> SUFFICES ASSUME LedgerInv, [Next]_vars PROVE LedgerInv'
  OBVIOUS
<1>1. TypeOK /\ TypeOK'
  BY TypeStep DEF LedgerInv
<1>2. Tables(ops, resources) /\ InvT(ops, resources)
  BY DEF LedgerInv, TypeOK, Tables, InvT
<1>3. ASSUME NEW d \in drafts, Accept(d) PROVE LedgerInv'
  <2>1. PICK r \in Target(d) : Active(r) = {} /\ AcceptInto(ops, resources, d, r)
    BY <1>3 DEF Accept
  <2>2. d \in Draft /\ r \in Resource
    BY <1>1 DEF TypeOK, Target, Draft
  <2>3. \A p \in Op : Busy(ops, p) => ops[p].resource # r
    BY <2>1 DEF Active, Busy
  <2>4. d.action = "deploy" => d.cost = Cost[d.version]
    BY DEF LedgerInv, DraftCosts
  <2>5. ops[d.key].state = "none"
    BY <2>1 DEF AcceptInto
  <2>6. InvT(ops', resources') /\ drafts' \subseteq drafts
    BY <1>2, <2>1, <2>2, <2>3, <2>4, <2>5, AcceptKeeps DEF AcceptInto
  <2> QED
    BY <1>1, <2>6, TablesSuffice
<1>4. ASSUME NEW d \in drafts, AcceptOverExpired(d) PROVE LedgerInv'
  <2>1. PICK r \in Target(d) : \E b \in Active(r) :
          /\ Expired(ops[b])
          /\ AcceptInto([ops EXCEPT ![b].state = "failed"],
                        [resources EXCEPT ![r] = Restored(@, ops[b])], d, r)
    BY <1>4 DEF AcceptOverExpired
  <2>2. PICK b \in Active(r) :
          /\ Expired(ops[b])
          /\ AcceptInto([ops EXCEPT ![b].state = "failed"],
                        [resources EXCEPT ![r] = Restored(@, ops[b])], d, r)
    BY <2>1
  <2> DEFINE new == [ops[b] EXCEPT !.state = "failed"]
             table == [ops EXCEPT ![b] = new]
             rows == [resources EXCEPT ![r] = Restored(resources[r], ops[b])]
  <2>3. /\ d \in Draft /\ r \in Resource /\ b \in Op
        /\ ops[b].resource = r /\ Busy(ops, b) /\ ops[b] \in OpRow
    BY <1>1 DEF TypeOK, Target, Draft, Active, Busy
  <2>4. new \in OpRow /\ SameRequest(ops[b], new) /\ new.state = "failed"
    BY <2>3, Names DEF SameRequest, OpRow
  <2>5. AcceptInto(table, rows, d, r)
    BY <2>2
  <2> HIDE DEF new
  <2>6. InvT(table, rows)
    BY <1>2, <2>3, <2>4, ReleaseKeeps DEF Final
  <2>7. Tables(table, rows)
    <3>1. table \in [Op -> OpRow]
      BY <1>1, <2>4 DEF TypeOK
    <3>2. rows \in [Resource -> ResourceRow]
      BY <1>1, <2>3, RestoredTyped DEF TypeOK
    <3> QED
      BY <3>1, <3>2 DEF Tables
  <2>8. \A p \in Op : Busy(table, p) => table[p].resource # r
    <3>1. \A p \in Op : p # b /\ Busy(ops, p) => ops[p].resource # r
      BY <2>3 DEF LedgerInv, Consistent, Exclusive
    <3> QED
      BY <1>1, <2>3, <2>4, <3>1 DEF TypeOK, Busy, Unfinished
  <2>9. table[d.key].state = "none"
    BY <1>1, <2>3, <2>4, <2>5 DEF TypeOK, AcceptInto, Busy, Unfinished, Draft
  <2>10. d.action = "deploy" => d.cost = Cost[d.version]
    BY DEF LedgerInv, DraftCosts
  <2>11. drafts' \subseteq drafts
    BY <2>5 DEF AcceptInto
  <2> HIDE DEF table, rows
  <2>12. InvT(ops', resources')
    BY <2>3, <2>5, <2>6, <2>7, <2>8, <2>9, <2>10, AcceptKeeps
  <2> QED
    BY <1>1, <2>11, <2>12, TablesSuffice
<1>5. CASE UNCHANGED <<ops, resources>> /\ Request
  <2>1. ASSUME NEW k \in Op, NEW v \in Version, NEW refs \in RefSets,
               ValidateCreate(k, v, refs)
        PROVE  LedgerInv'
    BY <1>1, <2>1, DraftKeeps DEF ValidateCreate
  <2>2. ASSUME NEW k \in Op, NEW r \in Resource, NEW v \in Version, NEW refs \in RefSets,
               ValidateUpdate(k, r, v, refs)
        PROVE  LedgerInv'
    BY <1>1, <2>2, DraftKeeps DEF ValidateUpdate
  <2>3. ASSUME NEW k \in Op, NEW r \in Resource, ValidateDestroy(k, r)
        PROVE  LedgerInv'
    BY <1>1, <2>3, DraftKeeps DEF ValidateDestroy
  <2>4. ASSUME NEW k \in Op, NEW r \in Resource, ValidateDriftCheck(k, r)
        PROVE  LedgerInv'
    BY <1>1, <2>4, DraftKeeps DEF ValidateDriftCheck
  <2>5. ASSUME NEW d \in drafts, DropRequest(d)
        PROVE  LedgerInv'
    BY <1>1, <1>2, <2>5, TablesSuffice DEF DropRequest
  <2> QED
    BY <1>3, <1>4, <1>5, <2>1, <2>2, <2>3, <2>4, <2>5 DEF Request
<1>6. CASE UNCHANGED <<ops, resources>> /\ ~Request
  <2>1. drafts' = drafts
    BY <1>6, DraftsStay
  <2> QED
    BY <1>1, <1>2, <1>6, <2>1, TablesSuffice
<1>7. ASSUME NEW o \in Op, NEW new \in OpRow,
             Moves(o, new) \/ Fails(o, new) \/ Succeeds(o, new) \/ Checks(o, new)
      PROVE  LedgerInv'
  <2> DEFINE old == resources[ops[o].resource]
  <2>1. Busy(ops, o) /\ SameRequest(ops[o], new) /\ ops' = [ops EXCEPT ![o] = new]
        /\ UNCHANGED drafts /\ ops[o].action = new.action
    BY <1>7 DEF Moves, Fails, Succeeds, Checks, Becomes, SameRequest
  <2>2. InvT(ops', resources')
    <3>1. CASE Moves(o, new)
      BY <1>2, <2>1, <3>1, MoveKeeps DEF Moves
    <3>2. CASE Fails(o, new)
      BY <1>2, <2>1, <3>2, ReleaseKeeps DEF Fails, Final
    <3>3. CASE Succeeds(o, new)
      <4>1. PICK row \in ResourceRow :
                Shows(row, o) /\ resources' = [resources EXCEPT ![ops[o].resource] = row]
        BY <3>3 DEF Succeeds
      <4> QED
        BY <1>1, <1>2, <2>1, <3>3, <4>1, SuccessKeeps DEF Succeeds, Final
    <3>4. CASE Checks(o, new)
      <4>1. PICK verdict \in Verdict :
                resources' = [resources EXCEPT ![ops[o].resource].drift = verdict]
        BY <3>4 DEF Checks
      <4> DEFINE row == [old EXCEPT !.drift = verdict]
      <4>2. old = Restored(old, ops[o])
        BY <2>1, <3>4 DEF Restored, Checks
      <4>3. /\ old \in ResourceRow /\ old.state # "absent"
            /\ Live(old) => old.cost = SettledCost(old)
        BY <1>2, <2>1, <4>2, RestoredSettles
      <4>4. /\ row \in ResourceRow /\ row.operation = old.operation /\ row.state # "absent"
            /\ Live(row) => row.cost = SettledCost(row)
        <5> HIDE DEF old
        <5> QED
          BY <4>1, <4>3 DEF ResourceRow, Live, SettledCost
      <4>5. resources' = [resources EXCEPT ![ops[o].resource] = row]
        BY <4>1
      <4> HIDE DEF row
      <4> QED
        BY <1>2, <2>1, <3>4, <4>4, <4>5, EndKeeps DEF Checks
    <3> QED
      BY <1>7, <3>1, <3>2, <3>3, <3>4
  <2> QED
    BY <1>1, <2>1, <2>2, TablesSuffice
<1> QED
  BY <1>3, <1>4, <1>5, <1>6, <1>7, StepShape

\* The inductive invariant holds in every reachable state.
THEOREM LedgerSound == Spec => []LedgerInv
<1>1. Init => LedgerInv
  <2> SUFFICES ASSUME Init PROVE LedgerInv
    OBVIOUS
  <2>1. TypeOK
    BY Names DEF Init, TypeOK, NoOp, NoResource, OpRow, ResourceRow
  <2>2. \A o \in Op : ops[o] = NoOp /\ NoOp.state = "none" /\ NoOp.action \notin Changes
    BY NoneAssumption DEF Init, NoOp, Changes
  <2>3. \A r \in Resource : /\ resources[r].state = "absent" /\ resources[r].cost = 0
                            /\ resources[r].operation = None
    BY DEF Init, NoResource
  <2>4. Exclusive(ops) /\ Linear(ops) /\ WellFormed(ops, resources)
    BY <2>2 DEF Exclusive, Linear, WellFormed, Busy, Unfinished
  <2>5. RowNames(ops, resources) /\ RowIsHead(ops, resources)
    BY <2>2, <2>3 DEF RowNames, RowIsHead
  <2>6. IdleExact(ops, resources) /\ DeployExact(ops, resources)
    BY <2>2, <2>3 DEF IdleExact, DeployExact, SettledCost, Busy, Unfinished
  <2>7. Unwritten(ops) /\ DraftCosts
    BY <2>2 DEF Unwritten, DraftCosts, Init
  <2> QED
    BY <2>1, <2>4, <2>5, <2>6, <2>7 DEF LedgerInv, Consistent
<1> QED
  BY <1>1, InvStep, PTL DEF Spec

-----------------------------------------------------------------------------
(* The properties the model checker checks on small instances.              *)

\* Whatever requests race for a resource, at most one of its operations is
\* unfinished.
THEOREM OneActive == Spec => []OneActivePerResource
<1>1. LedgerInv => OneActivePerResource
  BY DEF LedgerInv, Consistent, Exclusive, Busy, OneActivePerResource, Active
<1> QED
  BY <1>1, LedgerSound, PTL

\* A live resource reserves the cost of what is deployed, or the larger of that
\* and the requested cost while a deploy is unfinished, for any costs.
THEOREM ReservationsAreExact == Spec => []ReservationExact
<1>1. ASSUME LedgerInv PROVE ReservationExact
  <2> SUFFICES ASSUME NEW r \in Resource, Live(resources[r])
               PROVE  /\ Deploying(r) = {} => resources[r].cost = SettledCost(resources[r])
                      /\ \A o \in Deploying(r) :
                             /\ ops[o].previousCost = SettledCost(resources[r])
                             /\ resources[r].cost = Larger(ops[o].previousCost, ops[o].cost)
    BY DEF ReservationExact, Live
  <2>1. Deploying(r) = {} => resources[r].cost = SettledCost(resources[r])
    BY <1>1 DEF LedgerInv, Consistent, IdleExact, Deploying, Active, Busy
  <2>2. ASSUME NEW o \in Deploying(r)
        PROVE  /\ ops[o].previousCost = SettledCost(resources[r])
               /\ resources[r].cost = Larger(ops[o].previousCost, ops[o].cost)
    BY <1>1, <2>2 DEF LedgerInv, Consistent, DeployExact, Deploying, Active, Busy
  <2> QED
    BY <2>1, <2>2
<1> QED
  BY <1>1, LedgerSound, PTL

\* Two changes of a resource are never accepted against the same predecessor.
THEOREM HistoryIsLinear == Spec => []LinearHistory
<1>1. LedgerInv => LinearHistory
  BY DEF LedgerInv, Consistent, Linear, Changes, LinearHistory
<1> QED
  BY <1>1, LedgerSound, PTL

\* A drift check never becomes what its resource stands for, nor uncertain.
THEOREM DriftChecksAreHarmless == Spec => []DriftCheckHarmless
<1>1. ASSUME LedgerInv PROVE DriftCheckHarmless
  <2> SUFFICES ASSUME NEW o \in Op, ops[o].action = "drift_check"
               PROVE  /\ ops[o].state \in {"queued", "planning", "succeeded", "failed"}
                      /\ \A r \in Resource : resources[r].operation # o
    BY DEF DriftCheckHarmless
  <2>1. ops[o].state # "none"
    BY <1>1, NoneAssumption DEF LedgerInv, Unwritten, NoOp
  <2>2. o # None
    BY NoneAssumption
  <2> QED
    BY <1>1, <2>1, <2>2 DEF LedgerInv, Consistent, WellFormed, RowNames, Changes
<1> QED
  BY <1>1, LedgerSound, PTL
-----------------------------------------------------------------------------
(* Steps of the ledger seen from outside: which operation they touch, and    *)
(* what happens to the resource it holds.                                   *)

States(table) == [o \in Op |-> table[o].state]
Pick(held) == IF held = {} THEN None ELSE CHOOSE o \in held : TRUE
HolderIn(table, r) == Pick({o \in Op : table[o].resource = r /\ Busy(table, o)})
Holders(table) == [r \in Resource |-> HolderIn(table, r)]

\* One operation takes another state and keeps its resource.
Touches(o, new) ==
    /\ ops' \in [Op -> OpRow]
    /\ ops'[o].state = new /\ ops'[o].resource = ops[o].resource
    /\ \A p \in Op : p # o => ops'[p] = ops[p]

\* The unfinished operation of a resource, if it has one, is its holder.
LEMMA HolderFacts ==
    ASSUME NEW table, Exclusive(table), NEW r
    PROVE  /\ \A o \in Op : Busy(table, o) /\ table[o].resource = r => HolderIn(table, r) = o
           /\ (\A o \in Op : Busy(table, o) => table[o].resource # r) => HolderIn(table, r) = None
<1> DEFINE held == {o \in Op : table[o].resource = r /\ Busy(table, o)}
<1>1. ASSUME NEW o \in Op, Busy(table, o), table[o].resource = r PROVE HolderIn(table, r) = o
  <2>1. held = {o}
    BY <1>1 DEF Exclusive
  <2> QED
    BY <2>1 DEF HolderIn, Pick
<1>2. ASSUME \A o \in Op : Busy(table, o) => table[o].resource # r PROVE HolderIn(table, r) = None
  <2>1. held = {}
    BY <1>2
  <2> QED
    BY <2>1 DEF HolderIn, Pick
<1> QED
  BY <1>1, <1>2

\* Resources whose operations are untouched keep their holder.
LEMMA SameHolder ==
    ASSUME NEW table, NEW other, NEW r,
           \A o \in Op : (table[o].resource = r /\ Busy(table, o))
                             <=> (other[o].resource = r /\ Busy(other, o))
    PROVE  HolderIn(other, r) = HolderIn(table, r)
<1>1. {o \in Op : table[o].resource = r /\ Busy(table, o)}
        = {o \in Op : other[o].resource = r /\ Busy(other, o)}
  OBVIOUS
<1> QED
  BY <1>1 DEF HolderIn

\* The refinement mapping, before and after a step.
LEMMA Mapping ==
    /\ [o \in Op |-> ops[o].state] = States(ops)
    /\ [r \in Resource |-> Holder(r)] = Holders(ops)
    /\ [o \in Op |-> ops[o].state]' = States(ops')
    /\ [r \in Resource |-> Holder(r)]' = Holders(ops')
<1>1. \A r : Holder(r) = HolderIn(ops, r)
  BY DEF Holder, Active, HolderIn, Pick, Busy
<1>2. \A r : Holder(r)' = HolderIn(ops', r)
  BY DEF Holder, Active, HolderIn, Pick, Busy
<1> QED
  BY <1>1, <1>2 DEF States, Holders

\* A step between unfinished states is a Move of the lifecycle.
LEMMA MoveMaps ==
    ASSUME LedgerInv, LedgerInv', NEW o \in Op, NEW new, Touches(o, new),
           <<ops[o].state, new>> \in Lifecycle!Moves
    PROVE  Lifecycle!Next
<1> DEFINE r == ops[o].resource
<1>1. /\ Busy(ops, o) /\ Busy(ops', o)
      /\ new \in {"planning", "planned", "apply_queued", "applying", "uncertain"}
  BY DEF Lifecycle!Moves, Busy, Unfinished, Touches
<1>2. r \in Resource /\ Holders(ops)[r] = o
  BY <1>1, HolderFacts DEF LedgerInv, Consistent, WellFormed, Holders, Busy, Unfinished
<1>3. States(ops') = [States(ops) EXCEPT ![o] = new]
  BY DEF States, Touches
<1>4. Holders(ops') = Holders(ops)
  <2>1. ASSUME NEW q \in Resource PROVE HolderIn(ops', q) = HolderIn(ops, q)
    BY <1>1, SameHolder DEF Touches, Busy
  <2> QED
    BY <2>1 DEF Holders
<1>5. States(ops)[o] = ops[o].state
  BY DEF States
<1>6. Lifecycle!Move(o, r, new)
  BY <1>2, <1>3, <1>4, <1>5, Mapping DEF Lifecycle!Move
<1> QED
  BY <1>1, <1>2, <1>6 DEF Lifecycle!Next

\* A step to a final state is an End of the lifecycle.
LEMMA EndMaps ==
    ASSUME LedgerInv, LedgerInv', NEW o \in Op, NEW new, Touches(o, new),
           <<ops[o].state, new>> \in Lifecycle!Ends
    PROVE  Lifecycle!Next
<1> DEFINE r == ops[o].resource
<1>1. Busy(ops, o) /\ ~Busy(ops', o) /\ new \in {"succeeded", "failed"}
  BY DEF Lifecycle!Ends, Busy, Unfinished, Touches
<1>2. r \in Resource /\ Holders(ops)[r] = o
  BY <1>1, HolderFacts DEF LedgerInv, Consistent, WellFormed, Holders, Busy, Unfinished
<1>3. States(ops') = [States(ops) EXCEPT ![o] = new]
  BY DEF States, Touches
<1>4. Holders(ops') = [Holders(ops) EXCEPT ![r] = None]
  <2>1. ASSUME NEW q \in Resource, q # r PROVE HolderIn(ops', q) = HolderIn(ops, q)
    BY <1>1, <2>1, SameHolder DEF Touches, Busy
  <2>2. \A p \in Op : Busy(ops', p) => ops'[p].resource # r
    BY <1>1 DEF LedgerInv, Consistent, Exclusive, Touches, Busy
  <2>3. HolderIn(ops', r) = None
    BY <2>2, HolderFacts DEF LedgerInv, Consistent, Exclusive, Busy
  <2> QED
    BY <1>2, <2>1, <2>3 DEF Holders
<1>5. States(ops)[o] = ops[o].state
  BY DEF States
<1>6. Lifecycle!End(o, r, new)
  BY <1>2, <1>3, <1>4, <1>5, Mapping DEF Lifecycle!End
<1> QED
  BY <1>1, <1>2, <1>6 DEF Lifecycle!Next

\* No operation changes state or resource: a stuttering step.
LEMMA StutterMaps ==
    ASSUME \A p \in Op : ops'[p].state = ops[p].state /\ ops'[p].resource = ops[p].resource
    PROVE  UNCHANGED Lifecycle!vars
<1>1. States(ops') = States(ops)
  BY DEF States
<1>2. Holders(ops') = Holders(ops)
  <2>1. ASSUME NEW q \in Resource PROVE HolderIn(ops', q) = HolderIn(ops, q)
    BY SameHolder DEF Busy
  <2> QED
    BY <2>1 DEF Holders
<1> QED
  BY <1>1, <1>2, Mapping DEF Lifecycle!vars
\* Accepting a request on a free resource is a Begin, and accepting it over a
\* plan that expired a Replace.
LEMMA AcceptMaps ==
    ASSUME LedgerInv, LedgerInv', NEW d \in drafts, Accept(d)
    PROVE  Lifecycle!Next
<1>1. PICK r \in Target(d) : Active(r) = {} /\ AcceptInto(ops, resources, d, r)
  BY DEF Accept
<1>2. r \in Resource /\ d.key \in Op
  BY DEF LedgerInv, TypeOK, Target, Draft
<1>3. /\ \A p \in Op : p # d.key => ops'[p] = ops[p]
      /\ ops'[d.key].state = "queued" /\ ops'[d.key].resource = r
      /\ ops[d.key].state = "none"
  BY <1>1, <1>2 DEF AcceptInto, NewOp, LedgerInv, TypeOK
<1>4. ~Busy(ops, d.key) /\ Busy(ops', d.key)
  BY <1>3 DEF Busy, Unfinished
<1>5. Holders(ops)[r] = None
  BY <1>1, <1>2, HolderFacts DEF LedgerInv, Consistent, Holders, Active, Busy
<1>6. States(ops') = [States(ops) EXCEPT ![d.key] = "queued"] /\ States(ops)[d.key] = "none"
  BY <1>2, <1>3 DEF States
<1>7. Holders(ops') = [Holders(ops) EXCEPT ![r] = d.key]
  <2>1. ASSUME NEW q \in Resource, q # r PROVE HolderIn(ops', q) = HolderIn(ops, q)
    BY <2>1, <1>3, <1>4, SameHolder DEF Busy
  <2>2. Exclusive(ops')
    BY DEF LedgerInv, Consistent, Exclusive, Busy
  <2>3. HolderIn(ops', r) = d.key
    BY <1>2, <1>3, <1>4, <2>2, HolderFacts
  <2> QED
    BY <1>2, <2>1, <2>3 DEF Holders
<1>8. Lifecycle!Begin(d.key, r)
  BY <1>5, <1>6, <1>7, Mapping DEF Lifecycle!Begin
<1> QED
  BY <1>2, <1>8 DEF Lifecycle!Next

LEMMA ReplaceMaps ==
    ASSUME LedgerInv, LedgerInv', NEW d \in drafts, AcceptOverExpired(d)
    PROVE  Lifecycle!Next
<1>1. PICK r \in Target(d) : \E b \in Active(r) :
        /\ Expired(ops[b])
        /\ AcceptInto([ops EXCEPT ![b].state = "failed"],
                      [resources EXCEPT ![r] = Restored(@, ops[b])], d, r)
  BY DEF AcceptOverExpired
<1>2. PICK b \in Active(r) :
        /\ Expired(ops[b])
        /\ AcceptInto([ops EXCEPT ![b].state = "failed"],
                      [resources EXCEPT ![r] = Restored(@, ops[b])], d, r)
  BY <1>1
<1>3. r \in Resource /\ d.key \in Op /\ b \in Op /\ ops[b].resource = r /\ ops[b].state = "planned"
  BY <1>2 DEF LedgerInv, TypeOK, Target, Draft, Active, Expired
<1>4. ops[d.key].state = "none" /\ d.key # b
  BY <1>2, <1>3 DEF AcceptInto
<1>5. /\ \A p \in Op : p # d.key /\ p # b => ops'[p] = ops[p]
      /\ ops'[d.key].state = "queued" /\ ops'[d.key].resource = r
      /\ ops'[b].state = "failed" /\ ops'[b].resource = r
  <2> DEFINE new == [ops[b] EXCEPT !.state = "failed"]
  <2>1. ops' = [[ops EXCEPT ![b] = new] EXCEPT ![d.key] =
                   NewOp(d, r, [resources EXCEPT ![r] = Restored(@, ops[b])][r].cost)]
    BY <1>2 DEF AcceptInto
  <2>2. new.state = "failed" /\ new.resource = r
    BY <1>3 DEF LedgerInv, TypeOK, OpRow
  <2> HIDE DEF new
  <2> QED
    BY <1>3, <1>4, <2>1, <2>2 DEF NewOp, LedgerInv, TypeOK
<1>6. Busy(ops, b) /\ ~Busy(ops', b) /\ ~Busy(ops, d.key) /\ Busy(ops', d.key)
  BY <1>3, <1>4, <1>5 DEF Busy, Unfinished
<1>7. Holders(ops)[r] = b
  BY <1>3, <1>6, HolderFacts DEF LedgerInv, Consistent, Holders
<1>8. /\ States(ops') = [States(ops) EXCEPT ![b] = "failed", ![d.key] = "queued"]
      /\ States(ops)[b] = "planned" /\ States(ops)[d.key] = "none"
  BY <1>3, <1>4, <1>5 DEF States
<1>9. Holders(ops') = [Holders(ops) EXCEPT ![r] = d.key]
  <2>1. ASSUME NEW q \in Resource, q # r PROVE HolderIn(ops', q) = HolderIn(ops, q)
    BY <2>1, <1>3, <1>5, <1>6, SameHolder DEF Busy
  <2>2. Exclusive(ops')
    BY DEF LedgerInv, Consistent, Exclusive, Busy
  <2>3. HolderIn(ops', r) = d.key
    BY <1>3, <1>5, <1>6, <2>2, HolderFacts
  <2> QED
    BY <1>3, <2>1, <2>3 DEF Holders
<1>10. Lifecycle!Replace(d.key, b, r)
  BY <1>7, <1>8, <1>9, Mapping DEF Lifecycle!Replace
<1> QED
  BY <1>3, <1>10 DEF Lifecycle!Next

\* The step lemma of the refinement: one step per action.
LEMMA StepMaps ==
    LedgerInv /\ LedgerInv' /\ [Next]_vars => Lifecycle!Next \/ UNCHANGED Lifecycle!vars
<1> SUFFICES ASSUME LedgerInv, LedgerInv', [Next]_vars
             PROVE  Lifecycle!Next \/ UNCHANGED Lifecycle!vars
  OBVIOUS
<1>1. /\ ops \in [Op -> OpRow] /\ ops' \in [Op -> OpRow]
      /\ \A o \in Op : ops[o].action = "drift_check" =>
             ops[o].state \in {"none", "queued", "planning", "succeeded", "failed"}
  BY DEF LedgerInv, TypeOK, Consistent, WellFormed
<1>2. CASE Request
  <2>1. ASSUME UNCHANGED ops PROVE UNCHANGED Lifecycle!vars
    BY <2>1, StutterMaps
  <2> QED
    BY <1>2, <2>1, AcceptMaps, ReplaceMaps DEF Request, ValidateCreate, ValidateUpdate,
       ValidateDestroy, ValidateDriftCheck, Validate, DropRequest
<1>3. ASSUME NEW o \in Op, NEW new, Touches(o, new), <<ops[o].state, new>> \in Lifecycle!Moves
      PROVE  Lifecycle!Next
  BY <1>3, MoveMaps
<1>4. ASSUME NEW o \in Op, NEW new, Touches(o, new), <<ops[o].state, new>> \in Lifecycle!Ends
      PROVE  Lifecycle!Next
  BY <1>4, EndMaps
<1>5. ASSUME NEW o \in Op, NEW new, ops' = [ops EXCEPT ![o].state = new] PROVE Touches(o, new)
  BY <1>1, <1>5 DEF Touches, OpRow
<1>6. ASSUME NEW o \in Op, Decide(o) PROVE Lifecycle!Next \/ UNCHANGED Lifecycle!vars
  <2>1. CASE Execute(o)
    BY <2>1, <1>3, <1>5 DEF Execute, Lifecycle!Moves
  <2>2. CASE ops[o].state = "planned" /\ ReleasePlan(o)
    BY <2>2, <1>4, <1>5 DEF ReleasePlan, Lifecycle!Ends
  <2>3. CASE PlanAges(o)
    <3>1. \A p \in Op : ops'[p].state = ops[p].state /\ ops'[p].resource = ops[p].resource
      BY <1>1, <2>3 DEF PlanAges, OpRow
    <3> QED
      BY <3>1, StutterMaps
  <2> QED
    BY <1>6, <2>1, <2>2, <2>3 DEF Decide, ExecuteExpired, Discard, Expired
<1>7. ASSUME NEW o \in Op, Work(o) PROVE Lifecycle!Next \/ UNCHANGED Lifecycle!vars
  <2>1. CASE ClaimPlan(o)
    BY <2>1, <1>3, <1>5 DEF ClaimPlan, Lifecycle!Moves
  <2>2. CASE ClaimApply(o)
    BY <2>2, <1>3, <1>5 DEF ClaimApply, Lifecycle!Moves
  <2>3. CASE FinishPlanned(o)
    <3>1. Touches(o, "planned")
      BY <1>1, <2>3 DEF FinishPlanned, Touches, OpRow
    <3> QED
      BY <2>3, <3>1, <1>3 DEF FinishPlanned, Holds, Lifecycle!Moves
  <2>4. CASE FinishSucceeded(o)
    BY <2>4, <1>4, <1>5 DEF FinishSucceeded, Finish, Holds, Lifecycle!Ends
  <2>5. CASE FinishUncertain(o)
    BY <2>5, <1>3, <1>5 DEF FinishUncertain, Finish, Holds, Lifecycle!Moves
  <2>6. ASSUME NEW s \in {"planning", "applying"}, FinishFailed(o, s)
        PROVE  Lifecycle!Next
    BY <2>6, <1>4, <1>5 DEF FinishFailed, Finish, Holds, Lifecycle!Ends
  <2>7. ASSUME NEW s \in {"planning", "applying"}, LateResult(o, s) \/ WorkerLost(o, s)
        PROVE  UNCHANGED Lifecycle!vars
    BY <2>7, StutterMaps DEF LateResult, WorkerLost
  <2>8. ASSUME NEW verdict \in {"in_sync", "drifted", "unknown"}, FinishDriftCheck(o, verdict)
        PROVE  Lifecycle!Next
    <3>1. PICK new \in {"succeeded", "failed"} : ops' = [ops EXCEPT ![o].state = new]
      BY <2>8 DEF FinishDriftCheck, Finish
    <3> QED
      BY <2>8, <3>1, <1>4, <1>5 DEF FinishDriftCheck, Finish, Holds, Lifecycle!Ends
  <2>9. CASE Interrupted(o) /\ ops[o].action = "drift_check"
    <3>1. ops[o].state \in {"queued", "planning"} /\ ops' = [ops EXCEPT ![o].state = "failed"]
      BY <1>1, <2>9 DEF Interrupted
    <3> QED
      BY <3>1, <1>4, <1>5 DEF Lifecycle!Ends
  <2>10. CASE Interrupted(o) /\ ops[o].action # "drift_check"
    BY <2>10, <1>3, <1>5 DEF Interrupted, Lifecycle!Moves
  <2> QED
    BY <1>7, <2>1, <2>2, <2>3, <2>4, <2>5, <2>6, <2>7, <2>8, <2>9, <2>10 DEF Work
<1>8. ASSUME NEW o \in Op, Reconcile(o) PROVE Lifecycle!Next
  <2>1. PICK new \in {"succeeded", "failed"} :
          ops' = [ops EXCEPT ![o].state = new, ![o].recon = new]
    BY <1>8 DEF Reconcile, ReconcileSucceeded, ReconcileFailed
  <2>2. Touches(o, new)
    BY <1>1, <2>1 DEF Touches, OpRow
  <2> QED
    BY <1>8, <2>2, <1>4 DEF Reconcile, ReconcileSucceeded, ReconcileFailed, Lifecycle!Ends
<1>9. CASE UNCHANGED vars
  BY <1>9, StutterMaps DEF vars
<1> QED
  BY <1>2, <1>6, <1>7, <1>8, <1>9 DEF Next

\* The ledger implements the abstract lifecycle: one unfinished operation per
\* resource, and only the documented state changes.
THEOREM LedgerImplementsLifecycle == Spec => ImplementsLifecycle
<1>1. Init => Lifecycle!Init
  <2> SUFFICES ASSUME Init PROVE Lifecycle!Init
    OBVIOUS
  <2>1. States(ops) = [o \in Op |-> "none"]
    BY DEF Init, NoOp, States
  <2>2. Exclusive(ops) /\ \A o \in Op : ~Busy(ops, o)
    BY DEF Init, NoOp, Exclusive, Busy, Unfinished
  <2>3. Holders(ops) = [r \in Resource |-> None]
    BY <2>2, HolderFacts DEF Holders
  <2> QED
    BY <2>1, <2>3, Mapping DEF Lifecycle!Init
<1> QED
  BY <1>1, StepMaps, LedgerSound, PTL DEF Spec, ImplementsLifecycle, Lifecycle!Spec

\* A finished operation never changes again.
THEOREM FinishedStaysFinished == Spec => FinishedForever
<1>1. ASSUME LedgerInv, [Next]_vars, NEW o \in Op, ops[o].state \in Final
      PROVE  ops'[o] = ops[o]
  <2>1. ops \in [Op -> OpRow] /\ \A d \in drafts : d.key \in Op
    BY <1>1 DEF LedgerInv, TypeOK, Draft
  <2>2. CASE Request
    <3>1. ASSUME NEW d \in drafts, Accept(d) PROVE ops'[o] = ops[o]
      BY <1>1, <2>1, <3>1 DEF Accept, AcceptInto, Final
    <3>2. ASSUME NEW d \in drafts, AcceptOverExpired(d) PROVE ops'[o] = ops[o]
      BY <1>1, <2>1, <3>2 DEF AcceptOverExpired, AcceptInto, Active, Expired, Final
    <3> QED
      BY <2>2, <3>1, <3>2 DEF Request, ValidateCreate, ValidateUpdate,
         ValidateDestroy, ValidateDriftCheck, Validate, DropRequest
  <2>3. ASSUME NEW p \in Op, Decide(p) PROVE ops'[o] = ops[o]
    BY <1>1, <2>1, <2>3 DEF Decide, Execute, ExecuteExpired, Discard, PlanAges, ReleasePlan,
       Expired, Final
  <2>4. ASSUME NEW p \in Op, Work(p) PROVE ops'[o] = ops[o]
    BY <1>1, <2>1, <2>4 DEF Work, ClaimPlan, ClaimApply, FinishPlanned, FinishSucceeded,
       FinishUncertain, FinishFailed, FinishDriftCheck, Finish, Holds, LateResult,
       WorkerLost, Interrupted, Final
  <2>5. ASSUME NEW p \in Op, Reconcile(p) PROVE ops'[o] = ops[o]
    BY <1>1, <2>1, <2>5 DEF Reconcile, ReconcileSucceeded, ReconcileFailed, Final
  <2>6. CASE UNCHANGED vars
    BY <2>6 DEF vars
  <2> QED
    BY <1>1, <2>2, <2>3, <2>4, <2>5, <2>6 DEF Next
<1>2. LedgerInv /\ [Next]_vars =>
          [\A o \in Op : ops[o].state \in Final => ops'[o] = ops[o]]_vars
  BY <1>1
<1> QED
  BY <1>2, LedgerSound, PTL DEF Spec, FinishedForever
-----------------------------------------------------------------------------
(* The budget.  While no operation was accepted on a destroyed resource, the *)
(* row of a destroyed one names the destroy that succeeded, so no deploy     *)
(* brings its cost back uncounted.                                          *)

DestroyedNames(table, rows) ==
    \A r \in Resource : rows[r].state = "destroyed" =>
        /\ rows[r].operation \in Op
        /\ table[rows[r].operation].action = "destroy"
        /\ table[rows[r].operation].state = "succeeded"

\* What a resource counts for in the budget.
Counted(row) == IF row.state = "destroyed" THEN 0 ELSE row.cost

ReservedIn(rows, S) ==
    SumFunctionOnSet([r \in Resource |-> rows[r].cost],
                     {r \in S : rows[r].state # "destroyed"})

Fits(table, rows) == DestroyedNames(table, rows) /\ ReservedIn(rows, Resource) <= Limit

BudgetInv == AcceptedOnDestroyed = {} => Fits(ops, resources)

\* The reservations are those of one resource and of the others.
LEMMA ReservedSplit ==
    ASSUME NEW rows \in [Resource -> ResourceRow], NEW r \in Resource
    PROVE  /\ ReservedIn(rows, Resource) = Counted(rows[r]) + ReservedIn(rows, Resource \ {r})
           /\ ReservedIn(rows, Resource) \in Nat /\ ReservedIn(rows, Resource \ {r}) \in Nat
           /\ Counted(rows[r]) \in Nat
<1> DEFINE f == [q \in Resource |-> rows[q].cost]
           all == {q \in Resource : rows[q].state # "destroyed"}
           others == {q \in Resource \ {r} : rows[q].state # "destroyed"}
<1>1. \A q \in Resource : rows[q].cost \in Nat /\ f[q] = rows[q].cost
  BY DEF ResourceRow
<1>2. IsFiniteSet(all) /\ IsFiniteSet(others)
  BY ResourceAssumption, FS_Subset
<1>3. SumFunctionOnSet(f, all) \in Nat /\ SumFunctionOnSet(f, others) \in Nat
  <2>1. \A q \in all : f[q] \in Nat
    BY <1>1
  <2>2. \A q \in others : f[q] \in Nat
    BY <1>1
  <2> HIDE DEF f, all, others
  <2> QED
    BY <1>2, <2>1, <2>2, SumNat
<1>4. CASE rows[r].state = "destroyed"
  <2>1. all = others /\ Counted(rows[r]) = 0
    BY <1>4 DEF Counted
  <2>2. /\ ReservedIn(rows, Resource) = SumFunctionOnSet(f, all)
        /\ ReservedIn(rows, Resource \ {r}) = SumFunctionOnSet(f, all)
    BY <2>1, Zenon DEF ReservedIn
  <2> HIDE DEF f, all
  <2> QED
    BY <1>3, <2>1, <2>2
<1>5. CASE rows[r].state # "destroyed"
  <2>1. r \in all /\ all \ {r} = others /\ Counted(rows[r]) = f[r]
    BY <1>1, <1>5 DEF Counted
  <2>2. SumFunctionOnSet(f, all) = f[r] + SumFunctionOnSet(f, all \ {r})
    <3>1. \A q \in all : f[q] \in Nat
      BY <1>1
    <3> HIDE DEF f, all
    <3> QED
      BY <1>2, <2>1, <3>1, SumSplit
  <2> QED
    BY <1>1, <1>3, <2>1, <2>2 DEF ReservedIn
<1> QED
  BY <1>4, <1>5

\* What the others reserve does not depend on the row of the one.
LEMMA ReservedOthers ==
    ASSUME NEW rows \in [Resource -> ResourceRow], NEW r \in Resource, NEW row
    PROVE  ReservedIn([rows EXCEPT ![r] = row], Resource \ {r})
             = ReservedIn(rows, Resource \ {r})
<1> DEFINE s == [rows EXCEPT ![r] = row]
           S == {q \in Resource \ {r} : rows[q].state # "destroyed"}
           f == [q \in Resource |-> rows[q].cost]
           g == [q \in Resource |-> s[q].cost]
<1>1. \A q \in Resource \ {r} : s[q] = rows[q]
  OBVIOUS
<1>2. S = {q \in Resource \ {r} : s[q].state # "destroyed"} /\ IsFiniteSet(S)
  BY <1>1, ResourceAssumption, FS_Subset
<1>3. \A q \in S : g[q] = f[q]
  BY <1>1
<1>4. SumFunctionOnSet(g, S) = SumFunctionOnSet(f, S)
  <2> HIDE DEF S, f, g
  <2> QED
    BY <1>2, <1>3, SumSame
<1> QED
  BY <1>2, <1>4 DEF ReservedIn

\* A resource that counts for no more than before leaves the budget kept.
LEMMA ReservedFalls ==
    ASSUME NEW rows \in [Resource -> ResourceRow], NEW r \in Resource, NEW row \in ResourceRow,
           Counted(row) <= Counted(rows[r])
    PROVE  ReservedIn([rows EXCEPT ![r] = row], Resource) <= ReservedIn(rows, Resource)
<1> DEFINE s == [rows EXCEPT ![r] = row]
<1>1. s \in [Resource -> ResourceRow] /\ s[r] = row
  OBVIOUS
<1>2. ReservedIn(s, Resource) = Counted(row) + ReservedIn(s, Resource \ {r})
      /\ Counted(row) \in Nat
  <2> HIDE DEF s
  <2> QED
    BY <1>1, ReservedSplit
<1>3. ReservedIn(s, Resource \ {r}) = ReservedIn(rows, Resource \ {r})
  BY ReservedOthers
<1> QED
  BY <1>2, <1>3, ReservedSplit

\* An operation that fails gives back no more than it reserved.
LEMMA FailureFits ==
    ASSUME NEW table, NEW rows, Tables(table, rows), InvT(table, rows), Fits(table, rows),
           LimitAssumption,
           NEW o \in Op, Busy(table, o), NEW new \in OpRow, SameRequest(table[o], new),
           new.state = "failed"
    PROVE  Fits([table EXCEPT ![o] = new],
                [rows EXCEPT ![table[o].resource] = Restored(rows[table[o].resource], table[o])])
<1> DEFINE r == table[o].resource
           old == rows[r]
           row == Restored(old, table[o])
           t == [table EXCEPT ![o] = new]
           s == [rows EXCEPT ![r] = row]
<1>1. r \in Resource /\ table[o] \in OpRow /\ old \in ResourceRow
  BY DEF InvT, Consistent, WellFormed, Busy, Unfinished, Tables
<1>2. row \in ResourceRow /\ row.operation = old.operation
  BY RestoredSettles, RestoredTyped, <1>1
<1>3. row.state = old.state
  <2> HIDE DEF old
  <2> QED
    BY <1>1 DEF Restored, ResourceRow
<1>4. Counted(row) <= Counted(old)
  <2>1. CASE table[o].action = "deploy" /\ Live(old)
    <3>1. /\ old.cost = Larger(table[o].previousCost, table[o].cost)
          /\ table[o].previousCost \in Nat /\ table[o].cost \in Nat
      BY <1>1, <2>1 DEF InvT, Consistent, DeployExact, OpRow
    <3>2. row.cost = table[o].previousCost
      <4> HIDE DEF old
      <4> QED
        BY <1>1, <2>1 DEF Restored, ResourceRow
    <3> QED
      BY <1>3, <3>1, <3>2 DEF Counted, Larger
  <2>2. CASE table[o].action # "deploy"
    BY <1>1, <2>2 DEF Restored, Counted, ResourceRow
  <2>3. CASE ~Live(old)
    <3>1. old.state = "destroyed"
      BY <1>1, <2>3 DEF Live, ResourceRow, RowState
    <3> QED
      BY <1>3, <3>1 DEF Counted
  <2> QED
    BY <2>1, <2>2, <2>3
<1>5. rows \in [Resource -> ResourceRow] /\ table \in [Op -> OpRow]
  BY DEF Tables
<1>6. ReservedIn(s, Resource) <= Limit
  <2>1. ReservedIn(s, Resource) <= ReservedIn(rows, Resource)
    BY <1>1, <1>2, <1>4, <1>5, ReservedFalls
  <2>2. s \in [Resource -> ResourceRow]
    BY <1>1, <1>2, <1>5
  <2>3. ReservedIn(s, Resource) \in Nat /\ ReservedIn(rows, Resource) \in Nat
    <3> HIDE DEF s
    <3> QED
      BY <1>1, <1>5, <2>2, ReservedSplit
  <2> QED
    BY <2>1, <2>3 DEF Fits
<1>7. DestroyedNames(t, s)
  <2> SUFFICES ASSUME NEW q \in Resource, s[q].state = "destroyed"
               PROVE  /\ s[q].operation \in Op
                      /\ t[s[q].operation].action = "destroy"
                      /\ t[s[q].operation].state = "succeeded"
    BY DEF DestroyedNames
  <2>1. s[q].state = rows[q].state /\ s[q].operation = rows[q].operation
    BY <1>1, <1>2, <1>3, <1>5
  <2>2. /\ rows[q].operation \in Op /\ table[rows[q].operation].action = "destroy"
        /\ table[rows[q].operation].state = "succeeded"
    BY <2>1 DEF Fits, DestroyedNames
  <2>3. rows[q].operation # o
    BY <2>2 DEF Busy, Unfinished
  <2> QED
    BY <1>5, <2>1, <2>2, <2>3
<1> QED
  BY <1>6, <1>7 DEF Fits

\* An acceptance is checked against the budget, and is not on a destroyed
\* resource unless it is one of those the property sets aside.
LEMMA AcceptanceFits ==
    ASSUME NEW table, NEW rows, Tables(table, rows), Fits(table, rows), TypeOK, LimitAssumption,
           NEW d \in Draft, NEW r \in Resource, table[d.key].state = "none",
           AcceptInto(table, rows, d, r), AcceptedOnDestroyed' = {},
           ReservedIn(rows, Resource \ {r}) = ReservedIn(resources, Resource \ {r})
    PROVE  Fits(ops', resources')
<1> DEFINE row == AcceptedRow(d, rows[r])
<1>1. /\ d.key \in Op /\ d.cost \in Nat /\ d.previous = rows[r].operation
      /\ d.action \in {"deploy", "destroy", "drift_check"}
      /\ table \in [Op -> OpRow] /\ rows \in [Resource -> ResourceRow]
      /\ rows[r] \in ResourceRow
  BY DEF Draft, AcceptInto, Unchanged, Tables
<1>2. /\ ops' = [table EXCEPT ![d.key] = NewOp(d, r, rows[r].cost)]
      /\ resources' = [rows EXCEPT ![r] = row]
  BY DEF AcceptInto
<1>3. /\ row.state = (IF rows[r].state = "absent" /\ d.action # "drift_check"
                      THEN "pending" ELSE rows[r].state)
      /\ row.cost = (IF d.action = "deploy" THEN Larger(rows[r].cost, d.cost) ELSE rows[r].cost)
      /\ row \in ResourceRow
  <2> DEFINE old == rows[r]
             known == IF old.state # "absent" THEN old
                      ELSE [old EXCEPT !.state = "pending", !.version = d.version, !.refs = d.refs]
             cost == IF d.action = "deploy" THEN Larger(old.cost, d.cost) ELSE old.cost
  <2>1. known \in ResourceRow /\ cost \in Nat
        /\ known.state = IF old.state = "absent" THEN "pending" ELSE old.state
    BY <1>1, Names DEF ResourceRow, Draft, Larger
  <2>2. row = IF d.action = "drift_check" THEN old
              ELSE [known EXCEPT !.operation = d.key, !.cost = cost]
    BY DEF AcceptedRow
  <2> HIDE DEF known, row, old
  <2>3. old \in ResourceRow /\ (d.action = "drift_check" => cost = old.cost)
    BY <1>1 DEF old, cost
  <2> QED
    BY <1>1, <2>1, <2>2, <2>3 DEF ResourceRow, cost, old
<1> HIDE DEF row
<1>4. \A q \in Resource : q # r => resources'[q] = rows[q]
  BY <1>1, <1>2
<1>5. resources'[r] = row /\ resources' \in [Resource -> ResourceRow]
  BY <1>1, <1>2, <1>3
<1>6. DestroyedNames(ops', resources')
  <2>1. ASSUME NEW q \in Resource, rows[q].state = "destroyed"
        PROVE  /\ rows[q].operation \in Op
               /\ ops'[rows[q].operation].action = "destroy"
               /\ ops'[rows[q].operation].state = "succeeded"
    BY <1>1, <1>2, <2>1 DEF Fits, DestroyedNames
  <2>2. rows[r].state # "destroyed"
    <3> SUFFICES ASSUME rows[r].state = "destroyed" PROVE FALSE
      OBVIOUS
    <3>1. ops'[d.key].previous = rows[r].operation /\ rows[r].operation # None
      BY <1>1, <1>2, <2>1, NoneAssumption DEF NewOp
    <3> QED
      BY <1>1, <2>1, <3>1 DEF AcceptedOnDestroyed
  <2> QED
    BY <1>3, <1>4, <1>5, <2>1, <2>2 DEF DestroyedNames
<1>7. ReservedIn(resources', Resource) <= Limit
  <2>1. ReservedIn(resources', Resource \ {r}) = ReservedIn(rows, Resource \ {r})
    BY <1>1, <1>2, ReservedOthers
  <2>2. /\ ReservedIn(resources', Resource)
             = Counted(row) + ReservedIn(rows, Resource \ {r})
        /\ ReservedIn(rows, Resource) = Counted(rows[r]) + ReservedIn(rows, Resource \ {r})
        /\ ReservedIn(rows, Resource \ {r}) \in Nat
        /\ Counted(row) \in Nat /\ Counted(rows[r]) \in Nat
    BY <1>1, <1>5, <2>1, ReservedSplit
  <2>3. CASE d.action = "deploy"
    <3>1. ReservedIn(rows, Resource \ {r}) + Larger(rows[r].cost, d.cost) <= Limit
      BY <2>3 DEF AcceptInto, WithinBudget, Reserved, ReservedIn
    <3>2. Counted(row) <= Larger(rows[r].cost, d.cost)
      BY <1>1, <1>3, <2>3 DEF Counted, Larger, ResourceRow
    <3>3. Larger(rows[r].cost, d.cost) \in Nat
      BY <1>1 DEF Larger, ResourceRow
    <3> QED
      BY <2>2, <3>1, <3>2, <3>3, LimitAssumption
  <2>4. CASE d.action # "deploy"
    <3>1. Counted(row) = Counted(rows[r])
      BY <1>3, <2>4 DEF Counted
    <3> QED
      BY <2>2, <3>1 DEF Fits
  <2> QED
    BY <2>3, <2>4
<1> QED
  BY <1>6, <1>7 DEF Fits

\* An accepted operation keeps its request, and a finished one its row.
LEMMA AcceptedStays ==
    ASSUME LedgerInv, [Next]_vars, NEW o \in Op, ops[o].state # "none"
    PROVE  SameRequest(ops[o], ops'[o]) /\ (ops[o].state \in Final => ops'[o] = ops[o])
<1>1. ops \in [Op -> OpRow] /\ \A d \in drafts : d.key \in Op
  BY DEF LedgerInv, TypeOK, Draft
<1>2. CASE UNCHANGED <<ops, resources>>
  BY <1>2 DEF SameRequest
<1>3. ASSUME NEW d \in drafts, Accept(d)
      PROVE  SameRequest(ops[o], ops'[o]) /\ (ops[o].state \in Final => ops'[o] = ops[o])
  BY <1>1, <1>3 DEF Accept, AcceptInto, SameRequest
<1>4. ASSUME NEW d \in drafts, AcceptOverExpired(d)
      PROVE  SameRequest(ops[o], ops'[o]) /\ (ops[o].state \in Final => ops'[o] = ops[o])
  <2>1. PICK r \in Target(d), b \in Op :
            /\ ops[b].state = "planned" /\ ops[d.key].state = "none"
            /\ ops' = [[ops EXCEPT ![b].state = "failed"] EXCEPT ![d.key] =
                          NewOp(d, r, [resources EXCEPT ![r] = Restored(@, ops[b])][r].cost)]
    BY <1>4 DEF AcceptOverExpired, AcceptInto, Expired, Active
  <2>2. ops'[o] = IF o = b THEN [ops[o] EXCEPT !.state = "failed"] ELSE ops[o]
    BY <1>1, <2>1
  <2> QED
    BY <1>1, <2>1, <2>2 DEF SameRequest, OpRow, Final
<1>5. ASSUME NEW p \in Op, NEW new \in OpRow,
             Moves(p, new) \/ Fails(p, new) \/ Succeeds(p, new) \/ Checks(p, new)
      PROVE  SameRequest(ops[o], ops'[o]) /\ (ops[o].state \in Final => ops'[o] = ops[o])
  BY <1>1, <1>5 DEF Moves, Fails, Succeeds, Checks, Becomes, SameRequest, Busy, Unfinished, Final
<1> QED
  BY <1>2, <1>3, <1>4, <1>5, StepShape

\* The step lemma of the budget: one step per kind.
LEMMA BudgetStep ==
    ASSUME LedgerInv, LedgerInv', [Next]_vars, BudgetInv
    PROVE  BudgetInv'
<1> SUFFICES ASSUME AcceptedOnDestroyed' = {} PROVE Fits(ops', resources')
  BY DEF BudgetInv, Fits, DestroyedNames, ReservedIn
<1> USE LimitAssumption
<1>1. TypeOK /\ Tables(ops, resources) /\ InvT(ops, resources)
  BY DEF LedgerInv, TypeOK, Tables, InvT
<1>2. Fits(ops, resources)
  <2>1. SUFFICES ASSUME NEW o \in AcceptedOnDestroyed PROVE FALSE
    BY DEF BudgetInv
  <2> DEFINE p == ops[o].previous
  <2>2. o \in Op /\ p # None /\ ops[p].action = "destroy" /\ ops[p].state = "succeeded"
    BY DEF AcceptedOnDestroyed
  <2>3. p \in Op /\ ops[o].state # "none"
    BY <1>1, <2>2 DEF TypeOK, OpRow, LedgerInv, Unwritten, NoOp
  <2>4. ops'[o].previous = p /\ ops'[p] = ops[p]
    <3>1. SameRequest(ops[o], ops'[o])
      BY <2>2, <2>3, AcceptedStays
    <3>2. ops'[p] = ops[p]
      BY <2>2, <2>3, AcceptedStays DEF Final
    <3> QED
      BY <3>1, <3>2 DEF SameRequest
  <2>5. o \in AcceptedOnDestroyed'
    BY <2>2, <2>4 DEF AcceptedOnDestroyed
  <2> QED
    BY <2>5
<1>3. CASE UNCHANGED <<ops, resources>>
  BY <1>2, <1>3 DEF Fits, DestroyedNames, ReservedIn
<1>4. ASSUME NEW d \in drafts, Accept(d) PROVE Fits(ops', resources')
  <2>1. PICK r \in Target(d) : AcceptInto(ops, resources, d, r)
    BY <1>4 DEF Accept
  <2>2. d \in Draft /\ r \in Resource /\ ops[d.key].state = "none"
    BY <1>1, <2>1 DEF TypeOK, Target, Draft, AcceptInto
  <2> QED
    BY <1>1, <1>2, <2>1, <2>2, AcceptanceFits
<1>5. ASSUME NEW d \in drafts, AcceptOverExpired(d) PROVE Fits(ops', resources')
  <2>0. PICK r \in Target(d) : \E b \in Active(r) :
          AcceptInto([ops EXCEPT ![b].state = "failed"],
                     [resources EXCEPT ![r] = Restored(@, ops[b])], d, r)
    BY <1>5 DEF AcceptOverExpired
  <2>1. PICK b \in Active(r) :
          AcceptInto([ops EXCEPT ![b].state = "failed"],
                     [resources EXCEPT ![r] = Restored(@, ops[b])], d, r)
    BY <2>0
  <2> DEFINE new == [ops[b] EXCEPT !.state = "failed"]
             table == [ops EXCEPT ![b] = new]
             rows == [resources EXCEPT ![r] = Restored(resources[r], ops[b])]
  <2>2. /\ d \in Draft /\ r \in Resource /\ b \in Op
        /\ ops[b].resource = r /\ Busy(ops, b) /\ ops[b] \in OpRow
    BY <1>1 DEF TypeOK, Target, Draft, Active, Busy
  <2>3. new \in OpRow /\ SameRequest(ops[b], new) /\ new.state = "failed"
    BY <2>2, Names, StateChanged
  <2>4. AcceptInto(table, rows, d, r)
    BY <2>1
  <2> HIDE DEF new
  <2>5. Fits(table, rows)
    BY <1>1, <1>2, <2>2, <2>3, FailureFits
  <2>6. Tables(table, rows)
    BY <1>1, <2>2, <2>3, RestoredTyped DEF Tables, TypeOK
  <2>7. table[d.key].state = "none"
    BY <1>1, <2>2, <2>3, <2>4 DEF TypeOK, AcceptInto, Busy, Unfinished, Draft
  <2>8. ReservedIn(rows, Resource \ {r}) = ReservedIn(resources, Resource \ {r})
    BY <1>1, <2>2, ReservedOthers DEF Tables
  <2> HIDE DEF table, rows
  <2> QED
    BY <1>1, <2>2, <2>4, <2>5, <2>6, <2>7, <2>8, AcceptanceFits
<1>6. ASSUME NEW o \in Op, NEW new \in OpRow, Becomes(o, new), NEW row \in ResourceRow,
             resources' = [resources EXCEPT ![ops[o].resource] = row],
             Counted(row) <= Counted(resources[ops[o].resource]),
             row.state = "destroyed" =>
                 \/ /\ row.operation = resources[ops[o].resource].operation
                    /\ resources[ops[o].resource].state = "destroyed"
                 \/ row.operation = o /\ new.action = "destroy" /\ new.state = "succeeded"
      PROVE  Fits(ops', resources')
  <2> DEFINE r == ops[o].resource
  <2>1. /\ ops \in [Op -> OpRow] /\ resources \in [Resource -> ResourceRow] /\ Busy(ops, o)
        /\ ops' = [ops EXCEPT ![o] = new] /\ r \in Resource
    BY <1>1, <1>6 DEF Tables, Becomes, InvT, Consistent, WellFormed, Busy, Unfinished
  <2>2. resources' \in [Resource -> ResourceRow]
    BY <1>6, <2>1
  <2>3. ReservedIn(resources', Resource) <= Limit
    <3>1. ReservedIn(resources', Resource) <= ReservedIn(resources, Resource)
      BY <1>6, <2>1, ReservedFalls
    <3>2. ReservedIn(resources', Resource) \in Nat /\ ReservedIn(resources, Resource) \in Nat
      BY <2>1, <2>2, ReservedSplit
    <3> QED
      BY <1>2, <3>1, <3>2 DEF Fits
  <2>4. ASSUME NEW q \in Resource, resources[q].state = "destroyed"
        PROVE  /\ resources[q].operation \in Op
               /\ ops'[resources[q].operation].action = "destroy"
               /\ ops'[resources[q].operation].state = "succeeded"
    BY <1>2, <2>1, <2>4 DEF Fits, DestroyedNames, Busy, Unfinished
  <2>5. ASSUME NEW q \in Resource, resources'[q].state = "destroyed"
        PROVE  /\ resources'[q].operation \in Op
               /\ ops'[resources'[q].operation].action = "destroy"
               /\ ops'[resources'[q].operation].state = "succeeded"
    <3>1. CASE q # r
      <4>1. resources'[q] = resources[q]
        BY <1>6, <2>1, <3>1
      <4> QED
        BY <2>4, <2>5, <4>1
    <3>2. CASE q = r
      <4>1. resources'[q] = row
        BY <1>6, <2>1, <3>2
      <4> QED
        BY <1>6, <2>1, <2>4, <2>5, <3>2, <4>1
    <3> QED
      BY <3>1, <3>2
  <2> QED
    BY <2>3, <2>5 DEF Fits, DestroyedNames
<1>7. ASSUME NEW o \in Op, NEW new \in OpRow,
             Moves(o, new) \/ Fails(o, new) \/ Succeeds(o, new) \/ Checks(o, new)
      PROVE  Fits(ops', resources')
  <2> DEFINE r == ops[o].resource
             old == resources[r]
  <2>1. Becomes(o, new) /\ Busy(ops, o) /\ SameRequest(ops[o], new) /\ new.action = ops[o].action
    BY <1>7 DEF Moves, Fails, Succeeds, Checks, Becomes, SameRequest
  <2>2. r \in Resource /\ old \in ResourceRow
    BY <1>1, <2>1 DEF Tables, InvT, Consistent, WellFormed, Busy, Unfinished
  <2>3. CASE Moves(o, new)
    <3>1. resources' = [resources EXCEPT ![r] = old] /\ Counted(old) <= Counted(old)
      BY <1>1, <2>2, <2>3 DEF Moves, Tables, Counted, ResourceRow
    <3> QED
      BY <1>6, <2>1, <2>2, <3>1
  <2>4. CASE Fails(o, new)
    <3>1. ops' = [ops EXCEPT ![o] = new]
      BY <2>1 DEF Becomes
    <3> QED
      BY <1>1, <1>2, <2>1, <2>4, <3>1, FailureFits DEF Fails
  <2>5. CASE Succeeds(o, new)
    <3>1. PICK row \in ResourceRow :
              Shows(row, o) /\ resources' = [resources EXCEPT ![r] = row]
      BY <2>5 DEF Succeeds
    <3>2. ops[o].action \in Changes /\ new.state = "succeeded" /\ old.operation = o
      BY <1>1, <2>1, <2>5 DEF Succeeds, InvT, Consistent, RowIsHead, Busy, Unfinished
    <3>3. old.state # "destroyed"
      BY <1>2, <2>1, <2>2, <3>2 DEF Fits, DestroyedNames, Busy, Unfinished
    <3>4. Counted(row) <= Counted(old)
      <4>1. CASE ops[o].action = "destroy"
        BY <2>2, <3>1, <3>3, <4>1 DEF Shows, Counted, ResourceRow
      <4>2. CASE ops[o].action = "deploy"
        <5>1. old.cost = Larger(ops[o].previousCost, ops[o].cost)
          BY <1>1, <2>1, <2>2, <3>3, <4>2
             DEF InvT, Consistent, DeployExact, Live, ResourceRow, RowState
        <5>2. ops[o].previousCost \in Nat /\ ops[o].cost \in Nat
          BY <1>1 DEF Tables, OpRow
        <5> QED
          BY <3>1, <3>3, <4>2, <5>1, <5>2 DEF Shows, Counted, Larger
      <4> QED
        BY <3>2, <4>1, <4>2 DEF Changes
    <3>5. row.state = "destroyed" => row.operation = o /\ new.action = "destroy"
      BY <2>1, <3>1 DEF Shows
    <3> QED
      BY <1>6, <2>1, <3>1, <3>2, <3>4, <3>5
  <2>6. CASE Checks(o, new)
    <3>1. PICK verdict \in Verdict : resources' = [resources EXCEPT ![r].drift = verdict]
      BY <2>6 DEF Checks
    <3> DEFINE row == [old EXCEPT !.drift = verdict]
    <3>2. /\ row \in ResourceRow /\ row.state = old.state /\ row.operation = old.operation
          /\ Counted(row) <= Counted(old)
      <4> HIDE DEF old
      <4> QED
        BY <2>2 DEF ResourceRow, Counted
    <3>3. resources' = [resources EXCEPT ![r] = row]
      BY <3>1
    <3> HIDE DEF row
    <3> QED
      BY <1>6, <2>1, <3>2, <3>3
  <2> QED
    BY <1>7, <2>3, <2>4, <2>5, <2>6
<1> QED
  BY <1>3, <1>4, <1>5, <1>7, StepShape

\* Whatever requests race, and whichever succeed or fail, the resources never
\* reserve more than the budget, as long as none was accepted on a destroyed
\* resource, whose row the check does not count.
THEOREM BudgetIsHeld == Spec => []BudgetHeld
<1>1. Init => BudgetInv
  <2> SUFFICES ASSUME Init PROVE Fits(ops, resources)
    BY DEF BudgetInv
  <2> DEFINE f == [r \in Resource |-> resources[r].cost]
             P == {s \in SUBSET Resource : SumFunctionOnSet(f, s) = 0}
  <2>1. \A r \in Resource : resources[r].state = "absent" /\ resources[r].cost = 0
    BY DEF Init, NoResource
  <2>2. ASSUME NEW s \in SUBSET Resource, \A u \in SUBSET s : u # s => u \in P PROVE s \in P
    <3>1. SumFunctionOnSet(f, s) =
              IF s = {} THEN 0 ELSE f[Chosen(s)] + SumFunctionOnSet(f, s \ {Chosen(s)})
      BY ResourceAssumption, FS_Subset, SumChosen
    <3>2. s # {} => /\ Chosen(s) \in s /\ f[Chosen(s)] = 0
                    /\ SumFunctionOnSet(f, s \ {Chosen(s)}) = 0
      BY <2>1, <2>2 DEF Chosen
    <3> QED
      BY <3>1, <3>2
  <2>3. Resource \in P
    <3> HIDE DEF P
    <3> QED
      BY <2>2, ResourceAssumption, AllSubsets
  <2>4. {r \in Resource : resources[r].state # "destroyed"} = Resource
    BY <2>1
  <2> QED
    BY <2>1, <2>3, <2>4, LimitAssumption DEF Fits, DestroyedNames, ReservedIn
<1>2. BudgetInv => BudgetHeld
  BY DEF BudgetInv, BudgetHeld, Fits, ReservedIn, Reserved
<1> QED
  BY <1>1, <1>2, BudgetStep, LedgerSound, PTL DEF Spec
-----------------------------------------------------------------------------
(* The history of a resource: its changes, each accepted after the one its   *)
(* `previous` names, the last one being the one its row names.  LastSuccess   *)
(* is a recursive function over that chain, so what it computes is a matter   *)
(* of induction along it.                                                    *)

Previous(table) == [o \in Op |-> table[o].previous]

\* No chain runs in a circle.
Ranked(table) == \E rank : Chained(Op, None, Previous(table), rank)

\* What a change was accepted after is a change of the same resource.
ChainsOfChanges(table) ==
    \A o \in Op : table[o].previous # None =>
        /\ table[table[o].previous].action \in Changes
        /\ table[table[o].previous].resource = table[o].resource

\* A row with changes names one of its own.
NamesOwn(table, rows) ==
    \A r \in Resource :
        IF rows[r].operation = None THEN rows[r].state = "absent"
        ELSE table[rows[r].operation].resource = r

\* The only change without a successor is the one the row names.
OneHead(table, rows) ==
    \A o \in Op : table[o].action \in Changes =>
        \/ rows[table[o].resource].operation = o
        \/ \E p \in Op : table[p].action \in Changes /\ table[p].previous = o

Chains(table, rows) ==
    /\ Ranked(table) /\ ChainsOfChanges(table)
    /\ NamesOwn(table, rows) /\ OneHead(table, rows)

IsLast(table, f) ==
    f = [o \in Op \cup {None} |->
            IF o = None \/ table[o].state = "succeeded" THEN o ELSE f[table[o].previous]]
LastOf(table) == CHOOSE f : IsLast(table, f)

\* A row shows the change `o`, or that none succeeded yet.
ShowsLast(table, row, o) ==
    IF o = None THEN row.state = "pending"
    ELSE /\ row.state = (IF table[o].action = "destroy" THEN "destroyed" ELSE "ready")
         /\ row.version = table[o].version /\ row.refs = table[o].refs

RowsShowLast(table, rows) ==
    \A r \in Resource : rows[r].operation # None =>
        ShowsLast(table, rows[r], LastOf(table)[rows[r].operation])

History(table, rows) == Chains(table, rows) /\ RowsShowLast(table, rows)

HistoryInv == History(ops, resources)

\* The recursion has a solution.
LEMMA LastDefined ==
    ASSUME NEW table \in [Op -> OpRow], Ranked(table)
    PROVE  /\ LastOf(table)[None] = None
           /\ \A o \in Op : LastOf(table)[o] =
                  IF table[o].state = "succeeded" THEN o ELSE LastOf(table)[table[o].previous]
<1> DEFINE V == Op \cup {None}
           turn == [x \in Op \X V |-> IF table[x[1]].state = "succeeded" THEN x[1] ELSE x[2]]
<1>1. PICK rank : Chained(Op, None, Previous(table), rank)
  BY DEF Ranked
<1>2. turn \in [Op \X V -> V] /\ None \in V
  OBVIOUS
<1>3. PICK f : AlongChain(Op, None, Previous(table), V, None, turn, f)
  <2> HIDE DEF turn, V
  <2> QED
    BY <1>1, <1>2, ChainRecursion
<1>4. None \notin Op /\ \A o \in Op : table[o].previous \in V
  BY NoneAssumption DEF OpRow
<1>5. ASSUME NEW o \in Op
      PROVE  f[o] = IF table[o].state = "succeeded" THEN o ELSE f[table[o].previous]
  <2>1. f[table[o].previous] \in V /\ Previous(table)[o] = table[o].previous
    BY <1>3, <1>4 DEF Previous, AlongChain
  <2>2. <<o, f[table[o].previous]>> \in Op \X V
    BY <2>1
  <2> QED
    BY <1>3, <2>1, <2>2 DEF AlongChain
<1>6. IsLast(table, f)
  BY <1>3, <1>4, <1>5 DEF IsLast, AlongChain
<1>7. IsLast(table, LastOf(table))
  BY <1>6 DEF LastOf
<1> HIDE DEF turn
<1> DEFINE g == LastOf(table)
<1>8. g = [o \in V |-> IF o = None \/ table[o].state = "succeeded" THEN o
                       ELSE g[table[o].previous]]
  BY <1>7 DEF IsLast
<1> HIDE DEF g
<1>9. g[None] = None /\ \A o \in Op : g[o] =
          IF table[o].state = "succeeded" THEN o ELSE g[table[o].previous]
  BY <1>4, <1>8
<1> QED
  BY <1>9 DEF g

\* The last success depends on the changes of the chain only, and is one.
LEMMA LastSame ==
    ASSUME NEW table \in [Op -> OpRow], NEW t \in [Op -> OpRow], Ranked(table), Ranked(t),
           NEW S \in SUBSET Op,
           \A o \in S : /\ t[o].previous = table[o].previous
                        /\ table[o].previous \in S \cup {None}
                        /\ t[o].state = "succeeded" <=> table[o].state = "succeeded"
    PROVE  \A o \in S \cup {None} : /\ LastOf(t)[o] = LastOf(table)[o]
                                    /\ LastOf(table)[o] \in S \cup {None}
<1> DEFINE P == {o \in Op \cup {None} : o \in S \cup {None} =>
                     /\ LastOf(t)[o] = LastOf(table)[o]
                     /\ LastOf(table)[o] \in S \cup {None}}
<1>1. PICK rank : Chained(Op, None, Previous(table), rank)
  BY DEF Ranked
<1>2. None \in P
  BY LastDefined
<1>3. ASSUME NEW o \in Op, Previous(table)[o] \in P PROVE o \in P
  <2> SUFFICES ASSUME o \in S
               PROVE  /\ LastOf(t)[o] = LastOf(table)[o]
                      /\ LastOf(table)[o] \in S \cup {None}
    BY NoneAssumption
  <2>1. /\ LastOf(table)[o] =
               IF table[o].state = "succeeded" THEN o ELSE LastOf(table)[table[o].previous]
        /\ LastOf(t)[o] =
               IF t[o].state = "succeeded" THEN o ELSE LastOf(t)[t[o].previous]
    BY LastDefined
  <2>2. table[o].previous \in P
    BY <1>3 DEF Previous
  <2> QED
    BY <2>1, <2>2
<1>4. Op \subseteq P
  <2> HIDE DEF P
  <2> QED
    BY <1>1, <1>2, <1>3, AllOfChain
<1> QED
  BY <1>2, <1>4

\* Steps that keep every request, and which change each row names.
LEMMA ChainsKept ==
    ASSUME NEW table, NEW rows, NEW t, NEW s, Tables(table, rows), InvT(table, rows),
           Chains(table, rows), \A o \in Op : SameRequest(table[o], t[o]),
           \A r \in Resource : /\ s[r].operation = rows[r].operation
                               /\ rows[r].state = "absent" => s[r].state = "absent"
    PROVE  Chains(t, s)
<1>1. Previous(t) = Previous(table)
  BY DEF Previous, SameRequest
<1>2. Ranked(t)
  BY <1>1 DEF Chains, Ranked
<1>3. \A o \in Op : table[o].previous \in Op \cup {None}
  BY DEF Tables, OpRow
<1>4. ChainsOfChanges(t)
  BY <1>3 DEF Chains, ChainsOfChanges, SameRequest
<1>5. \A r \in Resource : rows[r].operation \in Op \cup {None}
  BY DEF Tables, ResourceRow
<1>6. NamesOwn(t, s)
  BY <1>5 DEF Chains, NamesOwn, SameRequest
<1>7. OneHead(t, s)
  <2> SUFFICES ASSUME NEW o \in Op, t[o].action \in Changes,
                      s[t[o].resource].operation # o
               PROVE  \E p \in Op : t[p].action \in Changes /\ t[p].previous = o
    BY DEF OneHead
  <2>1. table[o].action \in Changes /\ table[o].resource = t[o].resource
    BY DEF SameRequest
  <2>2. table[o].resource \in Resource
    BY <2>1, NoneAssumption DEF InvT, Consistent, WellFormed, Unwritten, NoOp, Changes
  <2> QED
    BY <2>1, <2>2 DEF Chains, OneHead, SameRequest
<1> QED
  BY <1>2, <1>4, <1>6, <1>7 DEF Chains

\* The changes of a resource, and of the others, are closed under `previous`.
LEMMA ChainClosed ==
    ASSUME NEW table \in [Op -> OpRow], ChainsOfChanges(table), NEW o \in Op
    PROVE  table[o].previous # None =>
               /\ table[o].previous \in Op
               /\ table[table[o].previous].action \in Changes
               /\ table[table[o].previous].resource = table[o].resource
BY DEF ChainsOfChanges, OpRow

\* Requests kept, no change newly succeeded and no definition rewritten: every
\* row still shows its last success.
LEMMA HistoryKept ==
    ASSUME NEW table, NEW rows, NEW t, NEW s, Tables(table, rows), InvT(table, rows),
           History(table, rows), Tables(t, s), \A o \in Op : SameRequest(table[o], t[o]),
           \A o \in Op : table[o].action \in Changes =>
               (t[o].state = "succeeded" <=> table[o].state = "succeeded"),
           \A r \in Resource : /\ s[r].operation = rows[r].operation
                               /\ s[r].state = rows[r].state
                               /\ s[r].version = rows[r].version /\ s[r].refs = rows[r].refs
    PROVE  History(t, s)
<1> DEFINE S == {o \in Op : table[o].action \in Changes}
<1>1. Chains(t, s)
  BY ChainsKept DEF History
<1>2. \A o \in S \cup {None} : /\ LastOf(t)[o] = LastOf(table)[o]
                               /\ LastOf(table)[o] \in S \cup {None}
  <2>1. \A o \in S : /\ t[o].previous = table[o].previous
                     /\ table[o].previous \in S \cup {None}
                     /\ t[o].state = "succeeded" <=> table[o].state = "succeeded"
    BY ChainClosed DEF SameRequest, Tables, History, Chains
  <2>2. S \in SUBSET Op
    OBVIOUS
  <2>3. Ranked(table) /\ Ranked(t)
    BY <1>1 DEF History, Chains
  <2> HIDE DEF S
  <2> QED
    BY <2>1, <2>2, <2>3, LastSame DEF Tables
<1>3. \A r \in Resource : rows[r].operation # None => rows[r].operation \in S
  BY DEF InvT, Consistent, RowNames, Tables, ResourceRow
<1>4. RowsShowLast(t, s)
  <2> SUFFICES ASSUME NEW r \in Resource, s[r].operation # None
               PROVE  ShowsLast(t, s[r], LastOf(t)[s[r].operation])
    BY DEF RowsShowLast
  <2> DEFINE o == LastOf(table)[rows[r].operation]
  <2>1. LastOf(t)[s[r].operation] = o /\ o \in S \cup {None}
    BY <1>2, <1>3
  <2>2. ShowsLast(table, rows[r], o)
    BY DEF History, RowsShowLast
  <2> HIDE DEF o
  <2> QED
    BY <2>1, <2>2 DEF ShowsLast, SameRequest
<1> QED
  BY <1>1, <1>4 DEF History

\* A change that succeeds becomes the last success of its resource; the others
\* are other chains.
LEMMA HistorySucceeds ==
    ASSUME NEW table, NEW rows, Tables(table, rows), InvT(table, rows), History(table, rows),
           NEW o \in Op, Busy(table, o), table[o].action \in Changes,
           NEW new \in OpRow, SameRequest(table[o], new), new.state = "succeeded",
           NEW row \in ResourceRow, row.operation = o, ShowsLast(table, row, o)
    PROVE  History([table EXCEPT ![o] = new], [rows EXCEPT ![table[o].resource] = row])
<1> DEFINE r == table[o].resource
           t == [table EXCEPT ![o] = new]
           s == [rows EXCEPT ![r] = row]
           S == {p \in Op : table[p].action \in Changes /\ table[p].resource # r}
<1>1. /\ r \in Resource /\ rows[r].operation = o /\ rows[r].state # "absent"
      /\ table \in [Op -> OpRow] /\ rows \in [Resource -> ResourceRow]
  BY DEF InvT, Consistent, WellFormed, RowIsHead, Busy, Unfinished, Tables
<1>2. Tables(t, s) /\ \A p \in Op : SameRequest(table[p], t[p]) /\ (p # o => t[p] = table[p])
  BY <1>1 DEF Tables, SameRequest
<1>3. t[o] = new /\ s[r] = row /\ \A q \in Resource : q # r => s[q] = rows[q]
  BY <1>1
<1>4. Chains(t, s)
  <2>1. \A q \in Resource : s[q].operation = rows[q].operation
                            /\ (rows[q].state = "absent" => s[q].state = "absent")
    BY <1>1, <1>3
  <2> HIDE DEF t, s
  <2> QED
    BY <1>2, <2>1, ChainsKept DEF History
<1> HIDE DEF t, s
<1>5. \A p \in S \cup {None} : /\ LastOf(t)[p] = LastOf(table)[p]
                               /\ LastOf(table)[p] \in S \cup {None}
  <2>1. \A p \in S : /\ t[p].previous = table[p].previous
                     /\ table[p].previous \in S \cup {None}
                     /\ t[p].state = "succeeded" <=> table[p].state = "succeeded"
    BY <1>2, ChainClosed DEF Tables, History, Chains
  <2>2. S \in SUBSET Op
    OBVIOUS
  <2>3. Ranked(table) /\ Ranked(t)
    BY <1>4 DEF History, Chains
  <2> HIDE DEF S
  <2> QED
    BY <1>2, <2>1, <2>2, <2>3, LastSame DEF Tables
<1>6. LastOf(t)[o] = o
  BY <1>2, <1>3, <1>4, LastDefined DEF Tables, Chains
<1>7. ASSUME NEW q \in Resource, s[q].operation # None
      PROVE  ShowsLast(t, s[q], LastOf(t)[s[q].operation])
  <2>1. CASE q = r
    <3>1. o # None
      BY NoneAssumption
    <3> QED
      BY <1>2, <1>3, <1>6, <2>1, <3>1 DEF ShowsLast, SameRequest
  <2>2. CASE q # r
    <3> DEFINE h == rows[q].operation
               last == LastOf(table)[h]
    <3>1. s[q] = rows[q] /\ h # None
      BY <1>3, <1>7, <2>2
    <3>2. h \in S
      BY <1>1, <2>2, <3>1
         DEF InvT, Consistent, RowNames, Tables, ResourceRow, History, Chains, NamesOwn
    <3>3. LastOf(t)[h] = last /\ last \in S \cup {None}
      BY <1>5, <3>2
    <3>4. ShowsLast(table, rows[q], last)
      BY <3>1 DEF History, RowsShowLast
    <3> HIDE DEF h, last
    <3> QED
      BY <1>2, <3>1, <3>3, <3>4 DEF ShowsLast, SameRequest, h
  <2> QED
    BY <2>1, <2>2
<1>8. RowsShowLast(t, s)
  BY <1>7 DEF RowsShowLast
<1> QED
  BY <1>4, <1>8 DEF History, t, s

\* A change is accepted after the one its row names, and a drift check beside
\* the chain.
LEMMA ChainsGrow ==
    ASSUME NEW table, NEW rows, Tables(table, rows), InvT(table, rows), Chains(table, rows),
           NEW d \in Draft, NEW r \in Resource, table[d.key].state = "none",
           AcceptInto(table, rows, d, r)
    PROVE  /\ Chains(ops', resources')
           /\ ops' \in [Op -> OpRow]
           /\ \A o \in Op : o # d.key => ops'[o] = table[o]
           /\ ops'[d.key].state = "queued" /\ ops'[d.key].action = d.action
           /\ ops'[d.key].previous = rows[r].operation
           /\ d.key \in Op /\ table[d.key].action \notin Changes
           /\ \A q \in Resource : q # r => resources'[q] = rows[q]
           /\ IF d.action = "drift_check" THEN resources'[r] = rows[r]
              ELSE /\ resources'[r].operation = d.key
                   /\ IF rows[r].operation = None THEN resources'[r].state = "pending"
                      ELSE /\ resources'[r].state = rows[r].state
                           /\ resources'[r].version = rows[r].version
                           /\ resources'[r].refs = rows[r].refs
<1> DEFINE k == d.key
           h == rows[r].operation
<1>1. /\ k \in Op /\ d.previous = h /\ d.action \in {"deploy", "destroy", "drift_check"}
      /\ table \in [Op -> OpRow] /\ rows \in [Resource -> ResourceRow]
      /\ rows[r] \in ResourceRow /\ h \in Op \cup {None}
  BY DEF Draft, AcceptInto, Unchanged, Tables, ResourceRow
<1>2. NewOp(d, r, rows[r].cost) \in OpRow
  BY <1>1, Names DEF Draft, NewOp, OpRow, ResourceRow
<1>3. /\ ops' = [table EXCEPT ![k] = NewOp(d, r, rows[r].cost)]
      /\ resources' = [rows EXCEPT ![r] = AcceptedRow(d, rows[r])]
  BY DEF AcceptInto
<1>4. /\ ops' \in [Op -> OpRow] /\ \A o \in Op : o # k => ops'[o] = table[o]
      /\ ops'[k].state = "queued" /\ ops'[k].action = d.action
      /\ ops'[k].previous = h /\ ops'[k].resource = r
  BY <1>1, <1>2, <1>3 DEF NewOp
<1>5. \A q \in Resource : q # r => resources'[q] = rows[q]
  BY <1>1, <1>3
<1>6. table[k] = NoOp /\ table[k].action \notin Changes
  <2>1. table[k] = NoOp
    BY <1>1 DEF InvT, Unwritten
  <2> QED
    BY <2>1, NoneAssumption DEF NoOp, Changes
<1>7. h # k /\ \A o \in Op : table[o].previous # k
  <2>1. \A o \in Op : table[o].previous # None => table[table[o].previous].action \in Changes
    BY DEF Chains, ChainsOfChanges
  <2>2. h # None => table[h].action \in Changes
    BY DEF InvT, Consistent, RowNames
  <2>3. k # None
    BY <1>1, NoneAssumption
  <2> QED
    BY <1>6, <2>1, <2>2, <2>3
<1>8. IF d.action = "drift_check" THEN resources'[r] = rows[r]
      ELSE /\ resources'[r].operation = k
           /\ IF h = None THEN resources'[r].state = "pending"
              ELSE /\ resources'[r].state = rows[r].state
                   /\ resources'[r].version = rows[r].version
                   /\ resources'[r].refs = rows[r].refs
  <2> DEFINE old == rows[r]
             row == AcceptedRow(d, old)
  <2>1. resources'[r] = row
    BY <1>1, <1>3
  <2>2. IF h = None THEN old.state = "absent" ELSE old.state # "absent"
    BY DEF Chains, NamesOwn, InvT, Consistent, RowNames
  <2>3. old \in ResourceRow
    BY <1>1
  <2> HIDE DEF old
  <2>4. CASE d.action = "drift_check"
    BY <2>1, <2>4 DEF AcceptedRow, old
  <2>5. CASE d.action # "drift_check" /\ old.state = "absent"
    BY <2>1, <2>2, <2>3, <2>5 DEF AcceptedRow, ResourceRow
  <2>6. CASE d.action # "drift_check" /\ old.state # "absent"
    <3>1. /\ row.operation = k /\ row.state = old.state
          /\ row.version = old.version /\ row.refs = old.refs
      BY <2>3, <2>6 DEF AcceptedRow, ResourceRow
    <3> HIDE DEF row
    <3> QED
      BY <2>1, <2>2, <2>6, <3>1 DEF old
  <2> QED
    BY <2>4, <2>5, <2>6
<1> HIDE DEF k
<1>9. Ranked(ops')
  <2>1. PICK rank : Chained(Op, None, Previous(table), rank)
    BY DEF Chains, Ranked
  <2>2. /\ rank \in [Op -> Nat]
        /\ \A o \in Op : table[o].previous # None => rank[table[o].previous] < rank[o]
    BY <2>1 DEF Chained, Previous
  <2> DEFINE n == IF h = None THEN 0 ELSE rank[h] + 1
             next == [rank EXCEPT ![k] = n]
  <2>3. n \in Nat
    BY <1>1, <2>2
  <2>4. next \in [Op -> Nat]
    BY <2>2, <2>3
  <2>5. ASSUME NEW o \in Op, ops'[o].previous # None
        PROVE  next[ops'[o].previous] < next[o]
    <3>1. CASE o = k
      BY <1>1, <1>4, <1>7, <2>2, <2>5, <3>1
    <3>2. CASE o # k
      <4>1. ops'[o].previous = table[o].previous /\ table[o].previous # k
            /\ table[o].previous \in Op
        BY <1>1, <1>4, <1>7, <2>5, <3>2 DEF OpRow
      <4> QED
        BY <2>2, <2>5, <3>2, <4>1
    <3> QED
      BY <3>1, <3>2
  <2>6. Previous(ops') \in [Op -> Op \cup {None}]
    BY <1>4 DEF Previous, OpRow
  <2>7. Chained(Op, None, Previous(ops'), next)
    <3> HIDE DEF next
    <3> QED
      BY <2>4, <2>5, <2>6, NoneAssumption DEF Chained, Previous
  <2> QED
    BY <2>7 DEF Ranked
<1>10. ChainsOfChanges(ops')
  <2> SUFFICES ASSUME NEW o \in Op, ops'[o].previous # None
               PROVE  /\ ops'[ops'[o].previous].action \in Changes
                      /\ ops'[ops'[o].previous].resource = ops'[o].resource
    BY DEF ChainsOfChanges
  <2>1. CASE o = k
    BY <2>1, <1>1, <1>4, <1>7 DEF InvT, Consistent, RowNames, Chains, NamesOwn
  <2>2. CASE o # k
    <3>1. ops'[o] = table[o] /\ table[o].previous \in Op
      BY <1>1, <1>4, <2>2 DEF OpRow
    <3> QED
      BY <1>4, <1>7, <3>1 DEF Chains, ChainsOfChanges
  <2> QED
    BY <2>1, <2>2
<1>11. NamesOwn(ops', resources')
  <2> SUFFICES ASSUME NEW q \in Resource
               PROVE  IF resources'[q].operation = None THEN resources'[q].state = "absent"
                      ELSE ops'[resources'[q].operation].resource = q
    BY DEF NamesOwn
  <2>1. IF rows[q].operation = None THEN rows[q].state = "absent"
        ELSE /\ rows[q].operation \in Op /\ rows[q].operation # k
             /\ table[rows[q].operation].resource = q
    BY <1>1, <1>6 DEF Chains, NamesOwn, InvT, Consistent, RowNames, ResourceRow
  <2>2. CASE q = r /\ d.action # "drift_check"
    BY <1>1, <1>4, <1>8, <2>2, NoneAssumption
  <2>3. CASE q # r \/ d.action = "drift_check"
    <3>1. resources'[q] = rows[q]
      BY <1>5, <1>8, <2>3
    <3> QED
      BY <1>4, <2>1, <3>1
  <2> QED
    BY <2>2, <2>3
<1>12. OneHead(ops', resources')
  <2> SUFFICES ASSUME NEW o \in Op, ops'[o].action \in Changes,
                      resources'[ops'[o].resource].operation # o
               PROVE  \E p \in Op : ops'[p].action \in Changes /\ ops'[p].previous = o
    BY DEF OneHead
  <2>1. o # k
    BY <1>4, <1>8 DEF Changes
  <2>2. ops'[o] = table[o] /\ table[o].resource \in Resource
    BY <1>4, <2>1, NoneAssumption DEF InvT, Consistent, WellFormed, Unwritten, NoOp, Changes
  <2>3. CASE rows[table[o].resource].operation = o
    <3>1. table[o].resource = r /\ d.action # "drift_check"
      BY <1>5, <1>8, <2>2, <2>3
    <3> QED
      BY <1>1, <1>4, <2>3, <3>1 DEF Changes
  <2>4. CASE rows[table[o].resource].operation # o
    <3>1. PICK p \in Op : table[p].action \in Changes /\ table[p].previous = o
      BY <2>2, <2>4 DEF Chains, OneHead
    <3> QED
      BY <1>4, <1>6, <3>1
  <2> QED
    BY <2>3, <2>4
<1> QED
  BY <1>1, <1>4, <1>5, <1>6, <1>8, <1>9, <1>10, <1>11, <1>12 DEF Chains, k

LEMMA HistoryGrows ==
    ASSUME NEW table, NEW rows, Tables(table, rows), InvT(table, rows), History(table, rows),
           NEW d \in Draft, NEW r \in Resource, table[d.key].state = "none",
           AcceptInto(table, rows, d, r)
    PROVE  History(ops', resources')
<1> DEFINE k == d.key
           h == rows[r].operation
           S == {o \in Op : table[o].action \in Changes}
<1>1. /\ Chains(ops', resources')
      /\ ops' \in [Op -> OpRow]
      /\ \A o \in Op : o # k => ops'[o] = table[o]
      /\ ops'[k].state = "queued"
      /\ ops'[k].previous = h
      /\ k \in Op /\ table[k].action \notin Changes
      /\ \A q \in Resource : q # r => resources'[q] = rows[q]
      /\ IF d.action = "drift_check" THEN resources'[r] = rows[r]
         ELSE /\ resources'[r].operation = k
              /\ IF h = None THEN resources'[r].state = "pending"
                 ELSE /\ resources'[r].state = rows[r].state
                      /\ resources'[r].version = rows[r].version
                      /\ resources'[r].refs = rows[r].refs
  BY ChainsGrow DEF History
<1> HIDE DEF k
<1>2. \A o \in S \cup {None} : /\ LastOf(ops')[o] = LastOf(table)[o]
                               /\ LastOf(table)[o] \in S \cup {None}
  <2>1. \A o \in S : /\ ops'[o].previous = table[o].previous
                     /\ table[o].previous \in S \cup {None}
                     /\ ops'[o].state = "succeeded" <=> table[o].state = "succeeded"
    BY <1>1, ChainClosed DEF Tables, History, Chains
  <2>2. S \in SUBSET Op
    OBVIOUS
  <2>3. Ranked(table) /\ Ranked(ops')
    BY <1>1 DEF History, Chains
  <2> HIDE DEF S
  <2> QED
    BY <1>1, <2>1, <2>2, <2>3, LastSame DEF Tables
<1>3. \A q \in Resource : rows[q].operation # None => rows[q].operation \in S
  BY DEF InvT, Consistent, RowNames, Tables, ResourceRow
<1>4. ASSUME NEW q \in Resource, rows[q].operation # None, NEW row,
             row.state = rows[q].state, row.version = rows[q].version, row.refs = rows[q].refs
      PROVE  ShowsLast(ops', row, LastOf(ops')[rows[q].operation])
  <2> DEFINE o == LastOf(table)[rows[q].operation]
  <2>1. LastOf(ops')[rows[q].operation] = o /\ o \in S \cup {None}
    BY <1>2, <1>3, <1>4
  <2>2. ShowsLast(table, rows[q], o)
    BY <1>4 DEF History, RowsShowLast
  <2> HIDE DEF o
  <2>3. o = None \/ ops'[o] = table[o]
    BY <1>1, <2>1
  <2> QED
    BY <1>4, <2>1, <2>2, <2>3 DEF ShowsLast
<1>5. LastOf(ops')[None] = None /\ LastOf(ops')[k] = LastOf(ops')[h]
  BY <1>1, LastDefined DEF Chains
<1>6. ASSUME NEW q \in Resource, resources'[q].operation # None
      PROVE  ShowsLast(ops', resources'[q], LastOf(ops')[resources'[q].operation])
  <2>1. CASE q # r \/ d.action = "drift_check"
    <3>1. resources'[q] = rows[q]
      BY <1>1, <2>1
    <3> QED
      BY <1>4, <1>6, <3>1
  <2>2. CASE q = r /\ d.action # "drift_check"
    <3>1. CASE h = None
      BY <1>1, <1>5, <2>2, <3>1 DEF ShowsLast
    <3>2. CASE h # None
      <4>1. /\ resources'[r].operation = k /\ resources'[r].state = rows[r].state
            /\ resources'[r].version = rows[r].version /\ resources'[r].refs = rows[r].refs
        BY <1>1, <2>2, <3>2
      <4> QED
        BY <1>4, <1>5, <2>2, <3>2, <4>1
    <3> QED
      BY <3>1, <3>2
  <2> QED
    BY <2>1, <2>2
<1>7. RowsShowLast(ops', resources')
  BY <1>6 DEF RowsShowLast
<1> QED
  BY <1>1, <1>7 DEF History

\* A failure gives the reservation back, and leaves the rest of the row.
LEMMA HistoryFails ==
    ASSUME NEW table, NEW rows, Tables(table, rows), InvT(table, rows), History(table, rows),
           NEW o \in Op, Busy(table, o), NEW new \in OpRow, SameRequest(table[o], new),
           new.state = "failed"
    PROVE  History([table EXCEPT ![o] = new],
                   [rows EXCEPT ![table[o].resource] =
                        Restored(rows[table[o].resource], table[o])])
<1> DEFINE r == table[o].resource
           t == [table EXCEPT ![o] = new]
           s == [rows EXCEPT ![r] = Restored(rows[r], table[o])]
<1>1. /\ r \in Resource /\ table \in [Op -> OpRow] /\ rows \in [Resource -> ResourceRow]
      /\ Restored(rows[r], table[o]) \in ResourceRow
  BY RestoredTyped DEF InvT, Consistent, WellFormed, Busy, Unfinished, Tables
<1>2. Tables(t, s)
  BY <1>1 DEF Tables
<1>3. \A p \in Op : /\ SameRequest(table[p], t[p])
                    /\ t[p].state = "succeeded" <=> table[p].state = "succeeded"
  BY <1>1 DEF SameRequest, Busy, Unfinished
<1>4. \A q \in Resource : /\ s[q].operation = rows[q].operation /\ s[q].state = rows[q].state
                          /\ s[q].version = rows[q].version /\ s[q].refs = rows[q].refs
  BY <1>1 DEF Restored, ResourceRow
<1> HIDE DEF t, s
<1>5. History(t, s)
  BY <1>2, <1>3, <1>4, HistoryKept
<1> QED
  BY <1>5 DEF t, s

\* The step lemma of the history: one step per kind.
LEMMA HistoryStep ==
    ASSUME LedgerInv, LedgerInv', [Next]_vars, HistoryInv
    PROVE  HistoryInv'
<1> SUFFICES History(ops', resources')
  BY DEF HistoryInv, History, Chains, Ranked, Chained, Previous, ChainsOfChanges, NamesOwn,
     OneHead, RowsShowLast, ShowsLast, LastOf, IsLast
<1>0. History(ops, resources)
  BY DEF HistoryInv
<1>1. /\ TypeOK /\ Tables(ops, resources) /\ InvT(ops, resources) /\ Tables(ops', resources')
  BY DEF LedgerInv, TypeOK, Tables, InvT
<1>2. CASE UNCHANGED <<ops, resources>>
  BY <1>0, <1>2
<1>3. ASSUME NEW d \in drafts, Accept(d) PROVE History(ops', resources')
  <2>1. PICK r \in Target(d) : AcceptInto(ops, resources, d, r)
    BY <1>3 DEF Accept
  <2>2. d \in Draft /\ r \in Resource /\ ops[d.key].state = "none"
    BY <1>1, <2>1 DEF TypeOK, Target, Draft, AcceptInto
  <2> QED
    BY <1>0, <1>1, <2>1, <2>2, HistoryGrows
<1>4. ASSUME NEW d \in drafts, AcceptOverExpired(d) PROVE History(ops', resources')
  <2>0. PICK r \in Target(d) : \E b \in Active(r) :
          AcceptInto([ops EXCEPT ![b].state = "failed"],
                     [resources EXCEPT ![r] = Restored(@, ops[b])], d, r)
    BY <1>4 DEF AcceptOverExpired
  <2>1. PICK b \in Active(r) :
          AcceptInto([ops EXCEPT ![b].state = "failed"],
                     [resources EXCEPT ![r] = Restored(@, ops[b])], d, r)
    BY <2>0
  <2> DEFINE new == [ops[b] EXCEPT !.state = "failed"]
             table == [ops EXCEPT ![b] = new]
             rows == [resources EXCEPT ![r] = Restored(resources[r], ops[b])]
  <2>2. /\ d \in Draft /\ r \in Resource /\ b \in Op
        /\ ops[b].resource = r /\ Busy(ops, b) /\ ops[b] \in OpRow
    BY <1>1 DEF TypeOK, Target, Draft, Active, Busy
  <2>3. new \in OpRow /\ SameRequest(ops[b], new) /\ new.state = "failed"
    BY <2>2, Names, StateChanged
  <2>4. AcceptInto(table, rows, d, r)
    BY <2>1
  <2> HIDE DEF new
  <2>5. Tables(table, rows) /\ InvT(table, rows)
    BY <1>1, <2>2, <2>3, RestoredTyped, ReleaseKeeps DEF Tables, TypeOK, Final
  <2>6. table[d.key].state = "none"
    BY <1>1, <2>2, <2>3, <2>4 DEF TypeOK, AcceptInto, Busy, Unfinished, Draft
  <2>7. History(table, rows)
    BY <1>0, <1>1, <2>2, <2>3, HistoryFails
  <2> HIDE DEF table, rows
  <2> QED
    BY <2>2, <2>4, <2>5, <2>6, <2>7, HistoryGrows
<1>5. ASSUME NEW o \in Op, NEW new \in OpRow, Becomes(o, new),
             new.action \in Changes => new.state # "succeeded",
             \A r \in Resource :
                 /\ resources'[r].operation = resources[r].operation
                 /\ resources'[r].state = resources[r].state
                 /\ resources'[r].version = resources[r].version
                 /\ resources'[r].refs = resources[r].refs
      PROVE  History(ops', resources')
  <2>1. \A p \in Op : /\ SameRequest(ops[p], ops'[p])
                      /\ ops[p].action \in Changes =>
                             (ops'[p].state = "succeeded" <=> ops[p].state = "succeeded")
    BY <1>1, <1>5 DEF Becomes, Tables, SameRequest, Busy, Unfinished
  <2> QED
    BY <1>0, <1>1, <1>5, <2>1, HistoryKept
<1>6. ASSUME NEW o \in Op, NEW new \in OpRow,
             Moves(o, new) \/ Fails(o, new) \/ Succeeds(o, new) \/ Checks(o, new)
      PROVE  History(ops', resources')
  <2> DEFINE r == ops[o].resource
  <2>1. Becomes(o, new) /\ Busy(ops, o) /\ SameRequest(ops[o], new) /\ new.action = ops[o].action
        /\ ops' = [ops EXCEPT ![o] = new]
    BY <1>6 DEF Moves, Fails, Succeeds, Checks, Becomes, SameRequest
  <2>2. CASE Moves(o, new)
    BY <1>5, <2>1, <2>2 DEF Moves, Unfinished
  <2>3. CASE Fails(o, new)
    BY <1>0, <1>1, <2>1, <2>3, HistoryFails DEF Fails
  <2>4. CASE Succeeds(o, new)
    <3>1. PICK row \in ResourceRow :
              Shows(row, o) /\ resources' = [resources EXCEPT ![r] = row]
      BY <2>4 DEF Succeeds
    <3>2. ShowsLast(ops, row, o) /\ row.operation = o
      BY <3>1, NoneAssumption DEF Shows, ShowsLast
    <3> QED
      BY <1>0, <1>1, <2>1, <2>4, <3>1, <3>2, HistorySucceeds DEF Succeeds
  <2>5. CASE Checks(o, new)
    <3>1. \A q \in Resource :
              /\ resources'[q].operation = resources[q].operation
              /\ resources'[q].state = resources[q].state
              /\ resources'[q].version = resources[q].version
              /\ resources'[q].refs = resources[q].refs
      BY <1>1, <2>5 DEF Checks, Tables, ResourceRow
    <3> QED
      BY <1>5, <2>1, <2>5, <3>1 DEF Checks, Changes
  <2> QED
    BY <1>6, <2>2, <2>3, <2>4, <2>5
<1> QED
  BY <1>2, <1>3, <1>4, <1>6, StepShape

\* The history is well-formed, and every row shows its last success, in every
\* reachable state.
THEOREM HistorySound == Spec => []HistoryInv
<1>1. Init => HistoryInv
  <2> SUFFICES ASSUME Init PROVE History(ops, resources)
    BY DEF HistoryInv
  <2>1. \A o \in Op : ops[o].previous = None /\ ops[o].action \notin Changes
    BY NoneAssumption DEF Init, NoOp, Changes
  <2>2. \A r \in Resource : resources[r].operation = None /\ resources[r].state = "absent"
    BY DEF Init, NoResource
  <2>3. Chained(Op, None, Previous(ops), [o \in Op |-> 0])
    BY <2>1, NoneAssumption DEF Chained, Previous
  <2> QED
    BY <2>1, <2>2, <2>3
       DEF History, Chains, Ranked, ChainsOfChanges, NamesOwn, OneHead, RowsShowLast
<1> QED
  BY <1>1, HistoryStep, LedgerSound, PTL DEF Spec

\* A row shows the last change that succeeded, however many later ones were
\* accepted, failed or are uncertain.
THEOREM RowShowsLatestSuccess == Spec => []RowIsLatestSuccess
<1>1. LastSuccess = LastOf(ops)
  BY DEF LastSuccess, LastOf, IsLast
<1>2. LedgerInv /\ HistoryInv => RowIsLatestSuccess
  <2> SUFFICES ASSUME LedgerInv, History(ops, resources), NEW r \in Resource, NEW h \in Heads(r)
               PROVE  ShowsLast(ops, resources[r], LastSuccess[h])
    BY DEF RowIsLatestSuccess, ShowsLast, HistoryInv
  <2>1. /\ h \in Op /\ ops[h].resource = r /\ ops[h].action # "drift_check"
        /\ \A p \in Op : ops[p].previous = h => ops[p].action = "drift_check"
    BY DEF Heads
  <2>2. ops[h].action \in Changes
    BY <2>1, NoneAssumption DEF LedgerInv, Consistent, WellFormed, Unwritten, NoOp
  <2>3. resources[r].operation = h
    BY <2>1, <2>2 DEF History, Chains, OneHead, Changes
  <2>4. h # None
    BY <2>1, NoneAssumption
  <2> QED
    BY <1>1, <2>3, <2>4 DEF History, RowsShowLast
<1> QED
  BY <1>2, LedgerSound, HistorySound, PTL

-----------------------------------------------------------------------------
(* The cost history replays a resource's amount from its chain of changes.   *)

\* The resource was destroyed when the change after `o` was accepted.
GoneAfter(table, o) ==
    LET last == LastOf(table)[o] IN last # None /\ table[last].action = "destroy"

HeldBefore(table, f, o) ==
    IF table[o].previous = None THEN <<initial(table[o])>> ELSE f[table[o].previous]
IsHeld(table, f) ==
    f = [o \in Op |-> HeldBefore(table, f, o)
                          \o moves(table[o], GoneAfter(table, table[o].previous))]
HeldOf(table) == CHOOSE f : IsHeld(table, f)

Amounts == Seq(Nat) \ {<<>>}

\* The amount after a change, given the one before it.
AmountAfter(op, gone, before) ==
    IF op.action = "deploy"
    THEN IF op.state = "succeeded" THEN op.cost
         ELSE IF gone THEN 0
         ELSE IF op.state = "failed" THEN op.previousCost ELSE Larger(op.previousCost, op.cost)
    ELSE IF op.state = "succeeded" THEN 0 ELSE before

\* The replayed amount is what the row counts for, and only a resource that has
\* changes is destroyed.
Explained(table, rows) ==
    \A r \in Resource : rows[r].operation # None =>
        Last(HeldOf(table)[rows[r].operation]) = Counted(rows[r])

DestroysFollow(table) == \A o \in Op : table[o].action = "destroy" => table[o].previous # None
DraftsFollow == \A d \in drafts : d.action = "destroy" => d.previous # None

ReplayInv == Explained(ops, resources) /\ DestroysFollow(ops) /\ DraftsFollow

\* What one operation adds to the history.
LEMMA MovesAre ==
    ASSUME NEW op \in OpRow, NEW gone \in BOOLEAN
    PROVE  LET reserved == IF op.action = "deploy"
                           THEN <<IF gone THEN 0 ELSE Larger(op.previousCost, op.cost)>> ELSE <<>>
           IN  moves(op, gone) =
                 IF op.state = "succeeded"
                 THEN reserved \o <<IF op.action = "destroy" THEN 0 ELSE op.cost>>
                 ELSE IF op.state = "failed" /\ op.action = "deploy"
                      THEN reserved \o <<IF gone THEN 0 ELSE op.previousCost>>
                      ELSE reserved
BY DEF moves, accepted

LEMMA MovesTyped ==
    ASSUME NEW op \in OpRow, NEW gone \in BOOLEAN, NEW s \in Amounts
    PROVE  /\ s \o moves(op, gone) \in Amounts
           /\ op.action \in Changes =>
                  Last(s \o moves(op, gone)) = AmountAfter(op, gone, Last(s))
<1> DEFINE m == moves(op, gone)
           a == IF gone THEN 0 ELSE Larger(op.previousCost, op.cost)
           reserved == IF op.action = "deploy" THEN <<a>> ELSE <<>>
           b == IF op.action = "destroy" THEN 0 ELSE op.cost
           c == IF gone THEN 0 ELSE op.previousCost
<1>1. a \in Nat /\ b \in Nat /\ c \in Nat
  BY DEF OpRow, Larger
<1>2. m = IF op.state = "succeeded" THEN reserved \o <<b>>
          ELSE IF op.state = "failed" /\ op.action = "deploy" THEN reserved \o <<c>>
               ELSE reserved
  BY MovesAre
<1>3. s \in Seq(Nat) /\ Len(s) \in Nat /\ Len(s) > 0 /\ Last(s) = s[Len(s)]
  BY DEF Amounts, Last
<1> HIDE DEF m
<1>4. ASSUME NEW x \in Nat, NEW q \in Seq(Nat)
      PROVE  /\ s \o (q \o <<x>>) \in Amounts
             /\ Last(s \o (q \o <<x>>)) = x
  BY <1>3 DEF Amounts, Last
<1>5. reserved \in Seq(Nat)
  BY <1>1
<1>6. CASE op.state = "succeeded"
  <2>1. s \o m \in Amounts /\ Last(s \o m) = b
    <3> HIDE DEF b, reserved
    <3> QED
      BY <1>1, <1>2, <1>4, <1>5, <1>6
  <2> QED
    BY <1>6, <2>1 DEF AmountAfter, Changes, m
<1>7. CASE op.state = "failed" /\ op.action = "deploy"
  <2>1. s \o m \in Amounts /\ Last(s \o m) = c
    <3> HIDE DEF c, reserved
    <3> QED
      BY <1>1, <1>2, <1>4, <1>5, <1>7
  <2> QED
    BY <1>7, <2>1 DEF AmountAfter, m
<1>8. CASE op.state # "succeeded" /\ op.state # "failed" /\ op.action = "deploy"
  <2>1. m = <<>> \o <<a>> /\ <<>> \in Seq(Nat)
    BY <1>1, <1>2, <1>8
  <2>2. s \o m \in Amounts /\ Last(s \o m) = a
    <3> HIDE DEF a
    <3> QED
      BY <1>1, <1>4, <2>1
  <2> QED
    BY <1>8, <2>2 DEF AmountAfter, m
<1>9. CASE op.state # "succeeded" /\ op.action # "deploy"
  <2>1. m = <<>> /\ s \o m = s
    BY <1>2, <1>3, <1>9
  <2> QED
    BY <1>9, <2>1 DEF AmountAfter, m
<1> QED
  BY <1>6, <1>7, <1>8, <1>9 DEF m

\* The recursion has a solution, and ends in the amount after each change.
LEMMA HeldDefined ==
    ASSUME NEW table \in [Op -> OpRow], Ranked(table)
    PROVE  /\ HeldOf(table) \in [Op -> Amounts]
           /\ \A o \in Op : HeldOf(table)[o] =
                  HeldBefore(table, HeldOf(table), o)
                      \o moves(table[o], GoneAfter(table, table[o].previous))
<1> DEFINE V == Amounts
           first(o, v) == IF table[o].previous = None THEN <<initial(table[o])>> ELSE v
           gone(o) == GoneAfter(table, table[o].previous)
           turn == [x \in Op \X V |-> first(x[1], x[2]) \o moves(table[x[1]], gone(x[1]))]
<1>1. PICK rank : Chained(Op, None, Previous(table), rank)
  BY DEF Ranked
<1>2. ASSUME NEW o \in Op, NEW v \in V
      PROVE  first(o, v) \o moves(table[o], gone(o)) \in V
  <2>1. first(o, v) \in Amounts
    <3>1. initial(table[o]) \in Nat
      BY DEF initial, OpRow
    <3> QED
      BY <3>1 DEF Amounts
  <2>2. gone(o) \in BOOLEAN
    BY DEF GoneAfter
  <2> HIDE DEF first, gone
  <2> QED
    BY <2>1, <2>2, MovesTyped
<1>3. turn \in [Op \X V -> V]
  BY <1>2
<1>4. <<0>> \in V
  BY DEF Amounts
<1>5. PICK f : AlongChain(Op, None, Previous(table), V, <<0>>, turn, f)
  <2> HIDE DEF turn, V
  <2> QED
    BY <1>1, <1>3, <1>4, ChainRecursion
<1>6. /\ None \notin Op /\ \A o \in Op : table[o].previous \in Op \cup {None}
      /\ f \in [Op \cup {None} -> V]
  BY <1>5, NoneAssumption DEF OpRow, AlongChain
<1> DEFINE g == [o \in Op |-> f[o]]
<1>7. ASSUME NEW o \in Op
      PROVE  f[o] = HeldBefore(table, g, o) \o moves(table[o], gone(o))
  <2>1. f[table[o].previous] \in V /\ Previous(table)[o] = table[o].previous
    BY <1>6 DEF Previous
  <2>2. f[o] = turn[<<o, f[table[o].previous]>>] /\ <<o, f[table[o].previous]>> \in Op \X V
    <3> HIDE DEF turn, V
    <3> QED
      BY <1>5, <2>1 DEF AlongChain
  <2>3. f[o] = first(o, f[table[o].previous]) \o moves(table[o], gone(o))
    <3> HIDE DEF first, gone, V
    <3> QED
      BY <2>2
  <2>4. first(o, f[table[o].previous]) = HeldBefore(table, g, o)
    BY <1>6 DEF HeldBefore
  <2> QED
    BY <2>3, <2>4
<1>8. IsHeld(table, g)
  <2>1. g = [o \in Op |-> HeldBefore(table, g, o) \o moves(table[o], gone(o))]
    <3> HIDE DEF gone
    <3>1. \A o \in Op : g[o] = HeldBefore(table, g, o) \o moves(table[o], gone(o))
      BY <1>7
    <3> DEFINE k == [o \in Op |-> HeldBefore(table, g, o) \o moves(table[o], gone(o))]
    <3>2. \A o \in Op : g[o] = k[o]
      BY <3>1
    <3> QED
      BY <3>2
  <2> QED
    BY <2>1 DEF IsHeld
<1>9. IsHeld(table, HeldOf(table))
  <2> HIDE DEF g
  <2> QED
    BY <1>8 DEF HeldOf
<1> HIDE DEF turn, g
<1> DEFINE h == HeldOf(table)
<1>10. h = [o \in Op |-> HeldBefore(table, h, o) \o moves(table[o], gone(o))]
  BY <1>9 DEF IsHeld
<1> HIDE DEF h, gone
<1>11. \A o \in Op : h[o] = HeldBefore(table, h, o) \o moves(table[o], gone(o))
  BY <1>10
<1> DEFINE P == {o \in Op \cup {None} : o # None => h[o] \in Amounts}
<1>12. ASSUME NEW o \in Op, Previous(table)[o] \in P PROVE o \in P
  <2>1. HeldBefore(table, h, o) \in Amounts
    <3>1. initial(table[o]) \in Nat
      BY DEF initial, OpRow
    <3>2. table[o].previous \in P
      BY <1>12 DEF Previous
    <3> QED
      BY <3>1, <3>2 DEF HeldBefore, Amounts
  <2>2. gone(o) \in BOOLEAN
    BY DEF GoneAfter, gone
  <2> QED
    BY <1>11, <2>1, <2>2, MovesTyped
<1>13. Op \subseteq P
  <2>1. None \in P
    OBVIOUS
  <2> HIDE DEF P
  <2> QED
    BY <1>1, <1>12, <2>1, AllOfChain
<1>14. h \in [Op -> Amounts]
  <2>1. \A o \in Op : h[o] \in Amounts
    BY <1>6, <1>13
  <2> QED
    BY <1>10, <2>1
<1> QED
  BY <1>11, <1>14 DEF h, gone

\* The replayed amount after a change, from the one before it.
LEMMA HeldEnds ==
    ASSUME NEW table \in [Op -> OpRow], Ranked(table), NEW o \in Op,
           table[o].action \in Changes
    PROVE  Last(HeldOf(table)[o]) =
               AmountAfter(table[o], GoneAfter(table, table[o].previous),
                           IF table[o].previous = None THEN initial(table[o])
                           ELSE Last(HeldOf(table)[table[o].previous]))
<1> DEFINE h == HeldOf(table)
           p == table[o].previous
           s == HeldBefore(table, h, o)
<1>1. h \in [Op -> Amounts] /\ h[o] = s \o moves(table[o], GoneAfter(table, p))
  BY HeldDefined
<1>2. p \in Op \cup {None} /\ GoneAfter(table, p) \in BOOLEAN /\ initial(table[o]) \in Nat
  BY DEF OpRow, GoneAfter, initial
<1> HIDE DEF h
<1>3. s \in Amounts
  BY <1>1, <1>2 DEF HeldBefore, Amounts
<1>4. Last(s) = IF p = None THEN initial(table[o]) ELSE Last(h[p])
  BY <1>2 DEF HeldBefore, Last
<1>5. Last(h[o]) = AmountAfter(table[o], GoneAfter(table, p), Last(s))
  <2> HIDE DEF s
  <2> QED
    BY <1>1, <1>2, <1>3, MovesTyped
<1> QED
  BY <1>4, <1>5 DEF h

\* The replay of a chain depends on its own operations only.
LEMMA HeldSame ==
    ASSUME NEW table \in [Op -> OpRow], NEW t \in [Op -> OpRow], Ranked(table), Ranked(t),
           NEW S \in SUBSET Op,
           \A o \in S : t[o] = table[o] /\ table[o].previous \in S \cup {None}
    PROVE  /\ \A o \in S \cup {None} : GoneAfter(t, o) = GoneAfter(table, o)
           /\ \A o \in S : HeldOf(t)[o] = HeldOf(table)[o]
<1>1. \A o \in S \cup {None} : /\ LastOf(t)[o] = LastOf(table)[o]
                               /\ LastOf(table)[o] \in S \cup {None}
  BY LastSame
<1>2. \A o \in S \cup {None} : GoneAfter(t, o) = GoneAfter(table, o)
  BY <1>1 DEF GoneAfter
<1> DEFINE P == {o \in Op \cup {None} : o \in S => HeldOf(t)[o] = HeldOf(table)[o]}
<1>3. PICK rank : Chained(Op, None, Previous(table), rank)
  BY DEF Ranked
<1>4. ASSUME NEW o \in Op, Previous(table)[o] \in P PROVE o \in P
  <2> SUFFICES ASSUME o \in S PROVE HeldOf(t)[o] = HeldOf(table)[o]
    OBVIOUS
  <2> DEFINE p == table[o].previous
  <2>1. p \in P /\ t[o] = table[o] /\ p \in S \cup {None}
    BY <1>4 DEF Previous
  <2>2. HeldBefore(t, HeldOf(t), o) = HeldBefore(table, HeldOf(table), o)
    BY <2>1 DEF HeldBefore
  <2>3. GoneAfter(t, p) = GoneAfter(table, p)
    BY <1>2, <2>1
  <2>4. /\ HeldOf(t)[o] = HeldBefore(t, HeldOf(t), o) \o moves(t[o], GoneAfter(t, t[o].previous))
        /\ HeldOf(table)[o] = HeldBefore(table, HeldOf(table), o)
                                  \o moves(table[o], GoneAfter(table, p))
    BY HeldDefined
  <2> QED
    BY <2>1, <2>2, <2>3, <2>4
<1>5. None \in P
  BY NoneAssumption
<1>6. Op \subseteq P
  <2> HIDE DEF P
  <2> QED
    BY <1>3, <1>4, <1>5, AllOfChain
<1> QED
  BY <1>2, <1>6

\* An unfinished change was accepted on a destroyed resource if and only if its
\* row still says so.
LEMMA GoneIsDestroyed ==
    ASSUME NEW table, NEW rows, Tables(table, rows), History(table, rows),
           NEW r \in Resource, NEW o, o = rows[r].operation, o # None
    PROVE  GoneAfter(table, o) <=> rows[r].state = "destroyed"
BY DEF History, RowsShowLast, ShowsLast, GoneAfter

\* An operation changes state, and its resource's amount with it.
LEMMA ReplayChanges ==
    ASSUME NEW table, NEW rows, Tables(table, rows), InvT(table, rows), History(table, rows),
           Explained(table, rows),
           NEW o \in Op, Busy(table, o), NEW new \in OpRow, SameRequest(table[o], new), NEW s,
           \A q \in Resource : s[q].operation = rows[q].operation,
           \A q \in Resource : q # table[o].resource \/ table[o].action \notin Changes =>
               Counted(s[q]) = Counted(rows[q]),
           NEW gone, gone = (rows[table[o].resource].state = "destroyed"),
           table[o].action \in Changes =>
               \A before : Counted(rows[table[o].resource]) = AmountAfter(table[o], gone, before)
                   => Counted(s[table[o].resource]) = AmountAfter(new, gone, before)
    PROVE  Explained([table EXCEPT ![o] = new], s)
<1> DEFINE r == table[o].resource
           t == [table EXCEPT ![o] = new]
           S == {p \in Op : table[p].action \in Changes /\ p # o}
           p0 == table[o].previous
<1>1. /\ r \in Resource /\ table \in [Op -> OpRow] /\ rows \in [Resource -> ResourceRow]
      /\ table[o].action \in Changes => rows[r].operation = o
      /\ o # None /\ table[o].state # "succeeded"
  BY NoneAssumption DEF InvT, Consistent, WellFormed, RowIsHead, Busy, Unfinished, Tables
<1>2. /\ t \in [Op -> OpRow] /\ t[o] = new /\ \A p \in Op : p # o => t[p] = table[p]
      /\ \A p \in Op : SameRequest(table[p], t[p])
  BY <1>1 DEF SameRequest
<1> HIDE DEF t
<1>3. Ranked(table) /\ Ranked(t) /\ ChainsOfChanges(table)
  <2>1. Previous(t) = Previous(table)
    BY <1>2 DEF Previous, SameRequest
  <2> QED
    BY <2>1 DEF History, Chains, Ranked
<1>4. ASSUME NEW p \in Op, table[p].action \in Changes PROVE table[p].previous \in S \cup {None}
  <2> SUFFICES ASSUME table[p].previous # None PROVE table[p].previous \in S
    OBVIOUS
  <2>1. /\ table[p].previous \in Op
        /\ table[table[p].previous].action \in Changes
        /\ table[table[p].previous].resource = table[p].resource
    BY <1>1, <1>3, ChainClosed
  <2>2. table[p].previous # o
    <3>1. table[p].state # "none"
      BY <1>4, NoneAssumption DEF InvT, Unwritten, NoOp, Changes
    <3>2. table[p].previous # rows[table[p].resource].operation
      BY <1>4, <3>1 DEF InvT, Consistent, RowIsHead
    <3> QED
      BY <1>1, <2>1, <3>2
  <2> QED
    BY <2>1, <2>2
<1>5. /\ \A p \in S \cup {None} : GoneAfter(t, p) = GoneAfter(table, p)
      /\ \A p \in S : HeldOf(t)[p] = HeldOf(table)[p]
  <2>1. \A p \in S : t[p] = table[p] /\ table[p].previous \in S \cup {None}
    BY <1>2, <1>4
  <2>2. S \in SUBSET Op
    OBVIOUS
  <2> HIDE DEF S
  <2> QED
    BY <1>1, <1>2, <1>3, <2>1, <2>2, HeldSame
<1>6. ASSUME NEW q \in Resource, s[q].operation # None
      PROVE  Last(HeldOf(t)[s[q].operation]) = Counted(s[q])
  <2> DEFINE h == rows[q].operation
  <2>1. /\ s[q].operation = h /\ h \in Op /\ table[h].action \in Changes
        /\ table[h].resource = q /\ Last(HeldOf(table)[h]) = Counted(rows[q])
    BY <1>1, <1>6 DEF ResourceRow, InvT, Consistent, RowNames, History, Chains, NamesOwn, Explained
  <2>2. CASE h # o
    <3>1. h \in S
      BY <2>1, <2>2
    <3>2. Counted(s[q]) = Counted(rows[q])
      BY <1>1, <2>2
    <3> QED
      BY <1>5, <2>1, <3>1, <3>2
  <2>3. CASE h = o
    <3> DEFINE before == IF p0 = None THEN initial(table[o]) ELSE Last(HeldOf(table)[p0])
    <3>1. q = r /\ table[o].action \in Changes
      BY <2>1, <2>3
    <3>2. p0 \in S \cup {None}
      BY <1>4, <3>1
    <3>3. GoneAfter(table, p0) = gone
      <4>1. LastOf(table)[o] = LastOf(table)[p0]
        BY <1>1, <1>3, LastDefined
      <4>2. GoneAfter(table, o) <=> rows[r].state = "destroyed"
        BY <1>1, <3>1, GoneIsDestroyed
      <4> QED
        BY <4>1, <4>2 DEF GoneAfter
    <3>4. Counted(rows[r]) = AmountAfter(table[o], gone, before)
      BY <1>1, <1>3, <2>1, <2>3, <3>1, <3>3, HeldEnds
    <3>5. Last(HeldOf(t)[o]) = AmountAfter(new, gone, before)
      <4>1. new.previous = p0 /\ new.action \in Changes /\ initial(new) = initial(table[o])
        BY <3>1 DEF SameRequest, initial
      <4>2. GoneAfter(t, p0) = gone /\ (p0 # None => HeldOf(t)[p0] = HeldOf(table)[p0])
        BY <1>5, <3>2, <3>3
      <4>3. Last(HeldOf(t)[o]) =
               AmountAfter(t[o], GoneAfter(t, t[o].previous),
                           IF t[o].previous = None THEN initial(t[o])
                           ELSE Last(HeldOf(t)[t[o].previous]))
        BY <1>2, <1>3, <4>1, HeldEnds
      <4> HIDE DEF p0
      <4> QED
        BY <1>2, <4>1, <4>2, <4>3
    <3> HIDE DEF before
    <3> QED
      BY <2>1, <2>3, <3>1, <3>4, <3>5
  <2> QED
    BY <2>2, <2>3
<1> QED
  BY <1>6 DEF Explained, t

\* A request is accepted: what it reserves is what the replay adds.
LEMMA ReplayGrows ==
    ASSUME NEW table, NEW rows, Tables(table, rows), InvT(table, rows), History(table, rows),
           Explained(table, rows), NEW d \in Draft, NEW r \in Resource,
           d.action = "destroy" => d.previous # None,
           table[d.key].state = "none", AcceptInto(table, rows, d, r)
    PROVE  Explained(ops', resources')
<1> DEFINE k == d.key
           h == rows[r].operation
           S == {o \in Op : table[o].action \in Changes}
<1>1. /\ Chains(ops', resources') /\ ops' \in [Op -> OpRow]
      /\ \A o \in Op : o # k => ops'[o] = table[o]
      /\ ops'[k].state = "queued" /\ ops'[k].action = d.action
      /\ ops'[k].previous = h /\ k \in Op /\ table[k].action \notin Changes
      /\ \A q \in Resource : q # r => resources'[q] = rows[q]
      /\ IF d.action = "drift_check" THEN resources'[r] = rows[r]
         ELSE /\ resources'[r].operation = k
              /\ IF h = None THEN resources'[r].state = "pending"
                 ELSE resources'[r].state = rows[r].state
  BY ChainsGrow DEF History
<1>2. /\ d.previous = h /\ d.action \in {"deploy", "destroy", "drift_check"} /\ d.cost \in Nat
      /\ table \in [Op -> OpRow] /\ rows \in [Resource -> ResourceRow]
      /\ rows[r] \in ResourceRow
  BY DEF Draft, AcceptInto, Unchanged, Tables
<1>3. /\ ops'[k].cost = d.cost
      /\ d.action = "deploy" => ops'[k].previousCost = rows[r].cost
      /\ resources'[r].cost = IF d.action = "deploy" THEN Larger(rows[r].cost, d.cost)
                              ELSE rows[r].cost
  <2>1. ops'[k] = NewOp(d, r, rows[r].cost) /\ resources'[r] = AcceptedRow(d, rows[r])
    BY <1>1, <1>2 DEF AcceptInto
  <2> DEFINE old == rows[r]
  <2> HIDE DEF old
  <2>2. AcceptedRow(d, old).cost = IF d.action = "deploy" THEN Larger(old.cost, d.cost)
                                   ELSE old.cost
    BY <1>2 DEF AcceptedRow, ResourceRow, old
  <2> QED
    BY <2>1, <2>2 DEF NewOp, old
<1> HIDE DEF k
<1>4. Ranked(table) /\ Ranked(ops') /\ ChainsOfChanges(table)
  BY <1>1 DEF History, Chains
<1>5. /\ \A o \in S \cup {None} : GoneAfter(ops', o) = GoneAfter(table, o)
      /\ \A o \in S : HeldOf(ops')[o] = HeldOf(table)[o]
  <2>1. \A o \in S : ops'[o] = table[o] /\ table[o].previous \in S \cup {None}
    BY <1>1, <1>2, <1>4, ChainClosed
  <2>2. S \in SUBSET Op
    OBVIOUS
  <2> HIDE DEF S
  <2> QED
    BY <1>1, <1>2, <1>4, <2>1, <2>2, HeldSame
<1>6. \A q \in Resource : rows[q].operation # None => rows[q].operation \in S
  BY <1>2 DEF ResourceRow, InvT, Consistent, RowNames
<1>7. ASSUME NEW q \in Resource, resources'[q].operation # None
      PROVE  Last(HeldOf(ops')[resources'[q].operation]) = Counted(resources'[q])
  <2>1. CASE q # r \/ d.action = "drift_check"
    <3>1. resources'[q] = rows[q]
      BY <1>1, <2>1
    <3> QED
      BY <1>5, <1>6, <1>7, <3>1 DEF Explained
  <2>2. CASE q = r /\ d.action # "drift_check"
    <3> DEFINE before == IF h = None THEN initial(ops'[k]) ELSE Last(HeldOf(ops')[h])
    <3>1. Last(HeldOf(ops')[k]) = AmountAfter(ops'[k], GoneAfter(ops', h), before)
      <4>1. ops'[k].action \in Changes
        BY <1>1, <1>2, <2>2 DEF Changes
      <4> HIDE DEF h
      <4> QED
        BY <1>1, <1>4, <4>1, HeldEnds
    <3>2. h # None => before = Counted(rows[r])
      BY <1>5, <1>6 DEF Explained
    <3>3. GoneAfter(ops', h) <=> resources'[r].state = "destroyed"
      <4>1. CASE h = None
        BY <1>1, <1>4, <2>2, <4>1, LastDefined DEF GoneAfter
      <4>2. CASE h # None
        BY <1>1, <1>5, <1>6, <2>2, <4>2, GoneIsDestroyed
      <4> QED
        BY <4>1, <4>2
    <3> HIDE DEF before
    <3>4. CASE d.action = "deploy"
      BY <1>1, <1>3, <2>2, <3>1, <3>3, <3>4 DEF AmountAfter, Counted
    <3>5. CASE d.action = "destroy"
      <4>1. h # None
        BY <1>2, <3>5
      <4>2. Counted(resources'[r]) = Counted(rows[r])
        BY <1>1, <1>3, <2>2, <3>5, <4>1 DEF Counted
      <4> QED
        BY <1>1, <2>2, <3>1, <3>2, <3>5, <4>1, <4>2 DEF AmountAfter
    <3> QED
      BY <1>2, <2>2, <3>4, <3>5
  <2> QED
    BY <2>1, <2>2
<1> QED
  BY <1>7 DEF Explained

\* A destroy is requested of a resource that has a change.
LEMMA DraftsFollowStep ==
    ASSUME LedgerInv, HistoryInv, [Next]_vars, DraftsFollow
    PROVE  DraftsFollow'
<1>1. CASE ~Request
  BY <1>1, DraftsStay DEF DraftsFollow
<1>2. CASE Request
  <2>1. ASSUME NEW d, d.action # "destroy" \/ d.previous # None, Validate(d)
        PROVE  DraftsFollow'
    BY <2>1 DEF Validate, DraftsFollow
  <2>2. ASSUME NEW k \in Op, NEW r \in Resource, ValidateDestroy(k, r) PROVE DraftsFollow'
    <3>1. resources[r].operation # None
      BY <2>2 DEF ValidateDestroy, HistoryInv, History, Chains, NamesOwn
    <3> QED
      BY <2>1, <2>2, <3>1 DEF ValidateDestroy
  <2>3. ASSUME drafts' \subseteq drafts PROVE DraftsFollow'
    BY <2>3 DEF DraftsFollow
  <2> QED
    BY <1>2, <2>1, <2>2, <2>3 DEF Request, ValidateCreate, ValidateUpdate, ValidateDriftCheck,
       Accept, AcceptOverExpired, AcceptInto, DropRequest
<1> QED
  BY <1>1, <1>2

\* A destroy is accepted after a change.
LEMMA DestroysFollowStep ==
    ASSUME LedgerInv, LedgerInv', [Next]_vars, DestroysFollow(ops), DraftsFollow
    PROVE  DestroysFollow(ops')
<1>1. ops \in [Op -> OpRow] /\ drafts \subseteq Draft /\ None \notin Changes
  BY NoneAssumption DEF LedgerInv, TypeOK, Changes
<1>2. ASSUME NEW d \in drafts, NEW table \in [Op -> OpRow], NEW rows, NEW r,
             \A p \in Op : table[p].action = ops[p].action /\ table[p].previous = ops[p].previous,
             AcceptInto(table, rows, d, r)
      PROVE  DestroysFollow(ops')
  <2>1. d.key \in Op /\ ops' = [table EXCEPT ![d.key] = NewOp(d, r, rows[r].cost)]
    BY <1>1, <1>2 DEF AcceptInto, Draft
  <2>2. NewOp(d, r, rows[r].cost).action = d.action
        /\ NewOp(d, r, rows[r].cost).previous = d.previous
    BY DEF NewOp
  <2> QED
    BY <1>2, <2>1, <2>2 DEF DestroysFollow, DraftsFollow
<1>3. CASE UNCHANGED <<ops, resources>>
  BY <1>3 DEF DestroysFollow
<1>4. ASSUME NEW d \in drafts, Accept(d) PROVE DestroysFollow(ops')
  BY <1>1, <1>2, <1>4 DEF Accept
<1>5. ASSUME NEW d \in drafts, AcceptOverExpired(d) PROVE DestroysFollow(ops')
  <2>1. PICK r \in Target(d) : \E b \in Active(r) :
          AcceptInto([ops EXCEPT ![b].state = "failed"],
                     [resources EXCEPT ![r] = Restored(@, ops[b])], d, r)
    BY <1>5 DEF AcceptOverExpired
  <2>2. PICK b \in Active(r) :
          AcceptInto([ops EXCEPT ![b].state = "failed"],
                     [resources EXCEPT ![r] = Restored(@, ops[b])], d, r)
    BY <2>1
  <2> DEFINE table == [ops EXCEPT ![b].state = "failed"]
             rows == [resources EXCEPT ![r] = Restored(@, ops[b])]
  <2>3. table \in [Op -> OpRow]
        /\ \A p \in Op : table[p].action = ops[p].action /\ table[p].previous = ops[p].previous
    BY <1>1, Names DEF Active, OpRow
  <2>4. AcceptInto(table, rows, d, r)
    BY <2>2
  <2> HIDE DEF table, rows
  <2> QED
    BY <1>2, <2>3, <2>4
<1>6. ASSUME NEW o \in Op, NEW new \in OpRow,
             Moves(o, new) \/ Fails(o, new) \/ Succeeds(o, new) \/ Checks(o, new)
      PROVE  DestroysFollow(ops')
  BY <1>1, <1>6 DEF Moves, Fails, Succeeds, Checks, Becomes, SameRequest, DestroysFollow
<1> QED
  BY <1>3, <1>4, <1>5, <1>6, StepShape

\* The table s shows what the change of o to new does to the counted amounts.
AmountsFollow(o, new, s, gone) ==
    /\ gone = (resources[ops[o].resource].state = "destroyed")
    /\ \A q \in Resource :
           /\ s[q].operation = resources[q].operation
           /\ q # ops[o].resource \/ ops[o].action \notin Changes =>
                  Counted(s[q]) = Counted(resources[q])
    /\ ops[o].action \in Changes =>
           \A before : Counted(resources[ops[o].resource]) = AmountAfter(ops[o], gone, before)
               => Counted(s[ops[o].resource]) = AmountAfter(new, gone, before)

\* The step lemma of the replay: one step per kind.
LEMMA ReplayStep ==
    ASSUME LedgerInv, LedgerInv', HistoryInv, [Next]_vars, ReplayInv
    PROVE  ReplayInv'
<1> SUFFICES Explained(ops', resources')
  <2>1. DraftsFollow' /\ DestroysFollow(ops')
    BY DraftsFollowStep, DestroysFollowStep DEF ReplayInv
  <2> QED
    BY <2>1 DEF ReplayInv, Explained, DestroysFollow, HeldOf, IsHeld, HeldBefore, GoneAfter,
       LastOf, IsLast
<1>0. Explained(ops, resources) /\ DraftsFollow /\ History(ops, resources)
  BY DEF ReplayInv, HistoryInv
<1>1. /\ TypeOK /\ Tables(ops, resources) /\ InvT(ops, resources) /\ Tables(ops', resources')
  BY DEF LedgerInv, TypeOK, Tables, InvT
<1>2. CASE UNCHANGED <<ops, resources>>
  BY <1>0, <1>2
<1>3. ASSUME NEW d \in drafts, Accept(d) PROVE Explained(ops', resources')
  <2>1. PICK r \in Target(d) : AcceptInto(ops, resources, d, r)
    BY <1>3 DEF Accept
  <2>2. d \in Draft /\ r \in Resource /\ ops[d.key].state = "none"
    BY <1>1, <2>1 DEF TypeOK, Target, Draft, AcceptInto
  <2> QED
    BY <1>0, <1>1, <2>1, <2>2, ReplayGrows DEF DraftsFollow
<1>4. ASSUME NEW o \in Op, Busy(ops, o), NEW new \in OpRow, SameRequest(ops[o], new),
             new.state = "failed"
      PROVE  Explained([ops EXCEPT ![o] = new],
                       [resources EXCEPT ![ops[o].resource] =
                            Restored(resources[ops[o].resource], ops[o])])
  <2> DEFINE r == ops[o].resource
             old == resources[r]
             row == Restored(old, ops[o])
             rows == [resources EXCEPT ![r] = row]
             gone == old.state = "destroyed"
  <2>1. r \in Resource /\ old \in ResourceRow /\ ops[o] \in OpRow
    BY <1>1, <1>4 DEF InvT, Consistent, WellFormed, Busy, Unfinished, Tables
  <2>2. /\ row.operation = old.operation /\ row.state = old.state
        /\ row.cost = IF ops[o].action = "deploy" THEN ops[o].previousCost ELSE old.cost
    <3> HIDE DEF old
    <3> QED
      BY <2>1 DEF Restored, ResourceRow
  <2>3. \A q \in Resource : /\ rows[q].operation = resources[q].operation
                            /\ q # r => rows[q] = resources[q]
    BY <1>1, <2>1, <2>2 DEF Tables
  <2>4. rows[r] = row
    BY <1>1, <2>1 DEF Tables
  <2>5. ASSUME NEW before, Counted(old) = AmountAfter(ops[o], gone, before)
        PROVE  Counted(row) = AmountAfter(new, gone, before)
    <3>1. CASE ops[o].action = "deploy"
      BY <1>4, <2>2, <3>1 DEF Counted, AmountAfter, SameRequest
    <3>2. CASE ops[o].action # "deploy"
      BY <1>4, <2>2, <2>5, <3>2 DEF Counted, AmountAfter, SameRequest, Busy, Unfinished
    <3> QED
      BY <3>1, <3>2
  <2>6. ops[o].action \notin Changes => Counted(row) = Counted(old)
    BY <2>2 DEF Changes, Counted
  <2> HIDE DEF row, rows
  <2>7. \A q \in Resource : q # ops[o].resource \/ ops[o].action \notin Changes =>
               Counted(rows[q]) = Counted(resources[q])
    BY <2>3, <2>4, <2>6
  <2>8. ops[o].action \in Changes =>
               \A before : Counted(resources[ops[o].resource]) = AmountAfter(ops[o], gone, before)
                   => Counted(rows[ops[o].resource]) = AmountAfter(new, gone, before)
    BY <2>4, <2>5
  <2>9. gone = (resources[ops[o].resource].state = "destroyed")
    OBVIOUS
  <2>10. \A q \in Resource : rows[q].operation = resources[q].operation
    BY <2>3
  <2> HIDE DEF gone
  <2>11. Explained([ops EXCEPT ![o] = new], rows)
    BY <1>0, <1>1, <1>4, <2>7, <2>8, <2>9, <2>10, ReplayChanges
  <2> QED
    BY <2>11 DEF rows, row
<1>5. ASSUME NEW d \in drafts, AcceptOverExpired(d) PROVE Explained(ops', resources')
  <2>0. PICK r \in Target(d) : \E b \in Active(r) :
          AcceptInto([ops EXCEPT ![b].state = "failed"],
                     [resources EXCEPT ![r] = Restored(@, ops[b])], d, r)
    BY <1>5 DEF AcceptOverExpired
  <2>1. PICK b \in Active(r) :
          AcceptInto([ops EXCEPT ![b].state = "failed"],
                     [resources EXCEPT ![r] = Restored(@, ops[b])], d, r)
    BY <2>0
  <2> DEFINE new == [ops[b] EXCEPT !.state = "failed"]
             table == [ops EXCEPT ![b] = new]
             rows == [resources EXCEPT ![r] = Restored(resources[r], ops[b])]
  <2>2. /\ d \in Draft /\ r \in Resource /\ b \in Op
        /\ ops[b].resource = r /\ Busy(ops, b) /\ ops[b] \in OpRow
    BY <1>1 DEF TypeOK, Target, Draft, Active, Busy
  <2>3. new \in OpRow /\ SameRequest(ops[b], new) /\ new.state = "failed"
    BY <2>2, Names, StateChanged
  <2>4. AcceptInto(table, rows, d, r)
    BY <2>1
  <2> HIDE DEF new
  <2>5. Tables(table, rows) /\ InvT(table, rows)
    BY <1>1, <2>2, <2>3, RestoredTyped, ReleaseKeeps DEF Tables, TypeOK, Final
  <2>6. table[d.key].state = "none"
    BY <1>1, <2>2, <2>3, <2>4 DEF TypeOK, AcceptInto, Busy, Unfinished, Draft
  <2>7. Explained(table, rows)
    BY <1>4, <2>2, <2>3
  <2>8. History(table, rows)
    BY <1>0, <1>1, <2>2, <2>3, HistoryFails
  <2> HIDE DEF table, rows
  <2> QED
    BY <1>0, <2>2, <2>4, <2>5, <2>6, <2>7, <2>8, ReplayGrows DEF DraftsFollow
<1>6. ASSUME NEW o \in Op, NEW new \in OpRow, Busy(ops, o), SameRequest(ops[o], new), NEW s,
             NEW gone, AmountsFollow(o, new, s, gone)
      PROVE  Explained([ops EXCEPT ![o] = new], s)
  <2>1. /\ \A q \in Resource : s[q].operation = resources[q].operation
        /\ \A q \in Resource : q # ops[o].resource \/ ops[o].action \notin Changes =>
               Counted(s[q]) = Counted(resources[q])
        /\ gone = (resources[ops[o].resource].state = "destroyed")
        /\ ops[o].action \in Changes =>
               \A before : Counted(resources[ops[o].resource]) = AmountAfter(ops[o], gone, before)
                   => Counted(s[ops[o].resource]) = AmountAfter(new, gone, before)
    BY <1>6 DEF AmountsFollow
  <2> QED
    BY <1>0, <1>1, <1>6, <2>1, ReplayChanges
<1>7. ASSUME NEW o \in Op, NEW new \in OpRow,
             Moves(o, new) \/ Fails(o, new) \/ Succeeds(o, new) \/ Checks(o, new)
      PROVE  Explained(ops', resources')
  <2> DEFINE r == ops[o].resource
             old == resources[r]
             gone == old.state = "destroyed"
  <2>1. Becomes(o, new) /\ Busy(ops, o) /\ SameRequest(ops[o], new) /\ new.action = ops[o].action
        /\ ops' = [ops EXCEPT ![o] = new]
    BY <1>7 DEF Moves, Fails, Succeeds, Checks, Becomes, SameRequest
  <2>2. /\ r \in Resource /\ old \in ResourceRow /\ resources \in [Resource -> ResourceRow]
        /\ ops[o].action \in Changes => old.operation = o
    BY <1>1, <2>1 DEF InvT, Consistent, WellFormed, RowIsHead, Busy, Unfinished, Tables
  <2>3. ASSUME NEW row, resources' = [resources EXCEPT ![r] = row],
               row.operation = old.operation,
               ops[o].action \notin Changes => Counted(row) = Counted(old),
               ops[o].action \in Changes =>
                   \A before : Counted(old) = AmountAfter(ops[o], gone, before)
                       => Counted(row) = AmountAfter(new, gone, before)
        PROVE  Explained(ops', resources')
    <3> SUFFICES ASSUME NEW s, s = resources' PROVE Explained([ops EXCEPT ![o] = new], s)
      BY <2>1
    <3>1. s[r] = row /\ \A q \in Resource : q # r => s[q] = resources[q]
      BY <2>2, <2>3
    <3>2. \A q \in Resource : s[q].operation = resources[q].operation
      BY <2>3, <3>1
    <3>3. \A q \in Resource : q # ops[o].resource \/ ops[o].action \notin Changes =>
               Counted(s[q]) = Counted(resources[q])
      BY <2>3, <3>1
    <3>4. ops[o].action \in Changes =>
               \A before : Counted(resources[ops[o].resource]) = AmountAfter(ops[o], gone, before)
                   => Counted(s[ops[o].resource]) = AmountAfter(new, gone, before)
      BY <2>3, <3>1
    <3>5. gone = (resources[ops[o].resource].state = "destroyed")
      OBVIOUS
    <3> HIDE DEF gone
    <3>6. AmountsFollow(o, new, s, gone)
      BY <3>2, <3>3, <3>4, <3>5 DEF AmountsFollow
    <3> QED
      BY <2>1, <3>6, <1>6
  <2>4. CASE Moves(o, new)
    <3>1. resources' = [resources EXCEPT ![r] = old]
      BY <2>2, <2>4 DEF Moves
    <3>2. \A before : AmountAfter(ops[o], gone, before) = AmountAfter(new, gone, before)
      <4>1. ops[o].state \notin Final /\ new.state \notin Final
        BY <2>1, <2>4 DEF Moves, Busy, Unfinished, Final
      <4> QED
        BY <2>1, <4>1 DEF AmountAfter, SameRequest, Final
    <3> HIDE DEF old, gone
    <3> QED
      BY <2>3, <3>1, <3>2
  <2>5. CASE Fails(o, new)
    BY <1>4, <2>1, <2>5 DEF Fails
  <2>6. CASE Succeeds(o, new)
    <3>1. PICK row \in ResourceRow :
              Shows(row, o) /\ resources' = [resources EXCEPT ![r] = row]
      BY <2>6 DEF Succeeds
    <3>2. new.action \in Changes /\ new.state = "succeeded"
      BY <2>6 DEF Succeeds
    <3>3. \A before : Counted(row) = AmountAfter(new, gone, before)
      BY <2>1, <3>1, <3>2 DEF Shows, Counted, AmountAfter, SameRequest, Changes
    <3>4. row.operation = old.operation
      BY <2>1, <2>2, <3>1, <3>2 DEF Shows
    <3> HIDE DEF old, gone
    <3> QED
      BY <2>1, <2>3, <3>1, <3>2, <3>3, <3>4
  <2>7. CASE Checks(o, new)
    <3>1. PICK verdict \in Verdict : resources' = [resources EXCEPT ![r].drift = verdict]
      BY <2>7 DEF Checks
    <3> DEFINE row == [old EXCEPT !.drift = verdict]
    <3>2. /\ row.operation = old.operation /\ Counted(row) = Counted(old)
      <4> HIDE DEF old
      <4> QED
        BY <2>2 DEF ResourceRow, Counted
    <3>3. resources' = [resources EXCEPT ![r] = row]
      BY <3>1
    <3>4. ops[o].action \notin Changes
      BY <2>1, <2>7 DEF Checks, Changes
    <3> HIDE DEF row, old, gone
    <3> QED
      BY <2>3, <3>2, <3>3, <3>4
  <2> QED
    BY <1>7, <2>4, <2>5, <2>6, <2>7
<1> QED
  BY <1>2, <1>3, <1>5, <1>6, <1>7, StepShape

\* The amount replayed from a resource's operations is what its row counts for:
\* the correction of replay() is never needed.
THEOREM ReplayIsRight == Spec => []ReplayExplainsRow
<1>1. Init => ReplayInv
  <2> SUFFICES ASSUME Init PROVE ReplayInv
    OBVIOUS
  <2>1. \A o \in Op : ops[o].action # "destroy"
    BY NoneAssumption DEF Init, NoOp
  <2>2. \A r \in Resource : resources[r].operation = None
    BY DEF Init, NoResource
  <2> QED
    BY <2>1, <2>2 DEF Init, ReplayInv, Explained, DestroysFollow, DraftsFollow
<1>2. Held = HeldOf(ops)
  BY DEF Held, HeldOf, IsHeld, HeldBefore, GoneAfter, Destroyed, LastSuccess, LastOf, IsLast
<1>3. ReplayInv => ReplayExplainsRow
  <2> SUFFICES ASSUME ReplayInv, NEW r \in Resource PROVE Last(replay(r)) = _current(r)
    BY DEF ReplayExplainsRow
  <2>1. _current(r) = Counted(resources[r])
    BY DEF _current, Counted
  <2>2. CASE resources[r].operation = None
    BY <2>2 DEF replay, Last
  <2>3. CASE resources[r].operation # None
    BY <1>2, <2>1, <2>3 DEF replay, ReplayInv, Explained
  <2> QED
    BY <2>2, <2>3
<1> QED
  BY <1>1, <1>3, ReplayStep, LedgerSound, HistorySound, PTL DEF Spec

-----------------------------------------------------------------------------
(* Every step is a ledger step or leaves the ledger alone.                  *)

\* A step of PhaseExecution is one ledger transaction or none.
LEMMA PhaseStepIsLedgerStep == [PNext]_pvars => [Next]_vars
<1> SUFFICES ASSUME [PNext]_pvars PROVE Next \/ UNCHANGED vars
  OBVIOUS
<1>1. CASE Ask
  BY <1>1 DEF Ask, Next, Request
<1>2. ASSUME NEW d \in drafts, AcceptRequest(d) PROVE Next
  BY <1>2 DEF AcceptRequest, Next, Request
<1>3. ASSUME NEW o \in Op, RemoveExpired(o) \/ ReleasePlanFile(o) \/ ReleaseLost(o) \/ Approve(o)
      PROVE  Next \/ UNCHANGED vars
  BY <1>3 DEF RemoveExpired, ReleasePlanFile, ReleaseLost, Approve, Next, Decide
<1>4. ASSUME NEW o \in Op, OperatorDecides(o) PROVE Next
  BY <1>4 DEF OperatorDecides, Next, Reconcile
<1>5. ASSUME NEW o \in Op, NEW ph \in Phase,
             Dispatch(o, ph) \/ PhaseFails(o, ph) \/ PhaseTimesOut(o, ph) \/ Mark(o, ph)
      PROVE  Next \/ UNCHANGED vars
  <2>1. Interrupted(o) => Next
    BY DEF Next, Work
  <2> QED
    BY <1>5, <2>1 DEF Dispatch, PhaseFails, PhaseTimesOut, Mark
<1>6. ASSUME NEW o \in Op, Act(o) PROVE Next \/ UNCHANGED vars
  <2>1. Work(o) => Next
    BY DEF Next
  <2>2. CASE StartPlan(o) \/ StartApply(o) \/ ReportPlanned(o) \/ ReportDriftCheck(o)
    BY <2>1, <2>2 DEF StartPlan, StartApply, ReportPlanned, ReportDriftCheck, Work
  <2>3. ASSUME NEW s \in {"planning", "applying"}, Report(o, s) \/ WorkerDies(o, s)
        PROVE  Work(o)
    BY <2>3 DEF Report, WorkerDies, Work
  <2>4. CASE \/ Prepare(o) \/ WritePlan(o) \/ PlanFails(o) \/ CheckPlan(o) \/ ApplyBegins(o)
             \/ ApplyRefused(o) \/ ApplyCompletes(o) \/ ApplyBreaks(o) \/ RemoveApplied(o)
             \/ RemoveFailed(o)
    BY <2>4 DEF Prepare, WritePlan, PlanFails, CheckPlan, ApplyBegins, ApplyRefused,
       ApplyCompletes, ApplyBreaks, RemoveApplied, RemoveFailed
  <2>5. ASSUME NEW s \in {"prepared", "applying"}, OrphanEnds(o, s) PROVE UNCHANGED vars
    BY <2>5 DEF OrphanEnds
  <2> QED
    BY <1>6, <2>1, <2>2, <2>3, <2>4, <2>5 DEF Act
<1>7. CASE UNCHANGED pvars
  BY <1>7 DEF pvars
<1> QED
  BY <1>1, <1>2, <1>3, <1>4, <1>5, <1>6, <1>7 DEF PNext, Serve, Orchestrate

\* Whatever workflows, workers and the API do to carry operations out, the
\* ledger behaves as OperationLedger: all its theorems hold of PSpec too.
THEOREM PhasesImplementLedger == PSpec => Spec
<1>1. PInit => Init
  BY DEF PInit
<1> QED
  BY <1>1, PhaseStepIsLedgerStep, PTL DEF PSpec, Spec

\* The inductive invariant of the ledger holds while operations are carried out.
COROLLARY LedgerSoundInPhases == PSpec => []LedgerInv
BY PhasesImplementLedger, LedgerSound, PTL

-----------------------------------------------------------------------------
(* Types.                                                                   *)

\* An accepted operation stays accepted, and keeps what was asked for.
LEMMA RequestsKept ==
    ASSUME LedgerInv, [Next]_vars, NEW o \in Op, ops[o].state # "none"
    PROVE  /\ ops'[o].state # "none"
           /\ ops'[o].resource = ops[o].resource /\ ops'[o].action = ops[o].action
           /\ ops'[o].version = ops[o].version
<1> DEFINE Kept == /\ ops'[o].state # "none"
                   /\ ops'[o].resource = ops[o].resource /\ ops'[o].action = ops[o].action
                   /\ ops'[o].version = ops[o].version
<1>1. /\ ops \in [Op -> OpRow] /\ \A d \in drafts : d.key \in Op
      /\ \A p \in Op : ops[p] \in OpRow
  BY DEF LedgerInv, TypeOK, Draft
<1>2. CASE Request
  <2>1. ASSUME NEW d \in drafts, Accept(d) PROVE Kept
    BY <1>1, <2>1 DEF Accept, AcceptInto
  <2>2. ASSUME NEW d \in drafts, AcceptOverExpired(d) PROVE Kept
    BY <1>1, <2>2 DEF AcceptOverExpired, AcceptInto, Active, OpRow
  <2> QED
    BY <1>2, <2>1, <2>2 DEF Request, ValidateCreate, ValidateUpdate,
       ValidateDestroy, ValidateDriftCheck, Validate, DropRequest
<1>3. ASSUME NEW p \in Op, Decide(p) PROVE Kept
  BY <1>1, <1>3 DEF Decide, Execute, ExecuteExpired, Discard, PlanAges, ReleasePlan, OpRow
<1>4. ASSUME NEW p \in Op, Work(p) PROVE Kept
  BY <1>1, <1>4 DEF Work, ClaimPlan, ClaimApply, FinishPlanned, FinishSucceeded,
     FinishUncertain, FinishFailed, FinishDriftCheck, Finish, LateResult,
     WorkerLost, Interrupted, OpRow
<1>5. ASSUME NEW p \in Op, Reconcile(p) PROVE Kept
  BY <1>1, <1>5 DEF Reconcile, ReconcileSucceeded, ReconcileFailed, OpRow
<1>6. CASE UNCHANGED vars
  BY <1>6 DEF vars
<1> QED
  BY <1>2, <1>3, <1>4, <1>5, <1>6 DEF Next

Base == LedgerInv /\ PhaseTypeOK /\ WorkAccepted

\* What an operation that is worked on is about.
LEMMA HomeTyped ==
    ASSUME Base, NEW o \in Op, Working(o)
    PROVE  /\ ops[o] \in OpRow /\ ops[o].state # "none"
           /\ Home(o) \in Resource /\ file[Home(o)] \in SavedPlan \cup {None}
           /\ PlanOf(o) \in SavedPlan
<1>1. ops[o] \in OpRow /\ ops[o].state # "none" /\ Home(o) \in Resource
  BY DEF Base, LedgerInv, TypeOK, Consistent, WellFormed, WorkAccepted, Home
<1>2. file[Home(o)] \in SavedPlan \cup {None}
  BY <1>1 DEF Base, PhaseTypeOK
<1>3. PlanOf(o) \in SavedPlan
  BY <1>1 DEF Base, PhaseTypeOK, PlanOf, SavedPlan
<1> QED
  BY <1>1, <1>2, <1>3

\* Every step keeps the types and starts work only on accepted operations.
LEMMA BaseStep == Base /\ [PNext]_pvars => Base'
<1> SUFFICES ASSUME Base, [PNext]_pvars PROVE Base'
  OBVIOUS
<1>1. LedgerInv' /\ TypeOK' /\ [Next]_vars
  BY PhaseStepIsLedgerStep, InvStep DEF Base, LedgerInv
<1>2. \A o \in Op : ops[o].state # "none" => ops'[o].state # "none"
  BY <1>1, RequestsKept DEF Base
<1>t. PhaseTypeOK /\ ops \in [Op -> OpRow]
  BY DEF Base, LedgerInv, TypeOK
<1> DEFINE Good == /\ phase' \in [Op -> [Phase -> Progress]]
                   /\ step' \in [Op -> Step]
                   /\ orphans' \subseteq Op \X {"prepared", "applying"}
                   /\ workspace' \in [Resource -> Version \cup {None}]
                   /\ file' \in [Resource -> SavedPlan \cup {None}]
                   /\ infra' \in [Resource -> Op \cup {None}]
                   /\ digest' \in [Op -> SavedPlan \cup {None}]
                   /\ consumed' \in [Op -> SavedPlan \cup {None}]
                   /\ unlinks' \subseteq Op
           Fresh == \A o \in Op : Working(o)' => Working(o) \/ ops'[o].state # "none"
<1>3. Good /\ Fresh => Base'
  BY <1>1, <1>2 DEF Base, WorkAccepted, PhaseTypeOK
<1>4. CASE Ask \/ (\E o \in Op : Approve(o) \/ OperatorDecides(o)) \/ UNCHANGED pvars
  <2>1. UNCHANGED phaseVars
    BY <1>4 DEF Ask, Approve, OperatorDecides, pvars
  <2>2. Good /\ Fresh
    BY <1>t, <2>1 DEF phaseVars, diskVars, planVars, PhaseTypeOK, Working
  <2> HIDE DEF Good, Fresh
  <2> QED
    BY <2>2, <1>3
<1>5. ASSUME NEW d \in drafts, AcceptRequest(d) PROVE Good /\ Fresh
  BY <1>t, <1>5 DEF AcceptRequest, diskVars, planVars, PhaseTypeOK, Working
<1>6. ASSUME NEW o \in Op, RemoveExpired(o) \/ ReleasePlanFile(o) \/ ReleaseLost(o)
      PROVE  Good /\ Fresh
  BY <1>t, <1>6 DEF RemoveExpired, ReleasePlanFile, ReleaseLost, RemoveFile, diskVars, planVars,
     PhaseTypeOK, Working
<1>7. ASSUME NEW o \in Op, NEW ph \in Phase,
             Dispatch(o, ph) \/ PhaseFails(o, ph) \/ PhaseTimesOut(o, ph) \/ Mark(o, ph)
      PROVE  Good /\ Fresh
  <2>1. /\ \E new \in Progress : phase' = [phase EXCEPT ![o][ph] = new]
        /\ UNCHANGED <<step, orphans, diskVars, planVars, unlinks>>
    BY <1>7 DEF Dispatch, PhaseFails, PhaseTimesOut, Mark, Progress
  <2> QED
    BY <1>t, <2>1 DEF diskVars, planVars, PhaseTypeOK, Working
<1>8. ASSUME NEW o \in Op, Act(o) PROVE Good /\ Fresh
  <2>1. /\ step[o] # "idle" => Working(o)
        /\ \A new : (step' = [step EXCEPT ![o] = new] /\ orphans' = orphans
                       /\ (step[o] # "idle" \/ new = "idle" \/ ops'[o].state # "none")) => Fresh
    BY <1>t DEF Working, PhaseTypeOK
  <2>2. CASE StartPlan(o) \/ StartApply(o)
    <3>1. /\ \E new \in Step : step' = [step EXCEPT ![o] = new]
          /\ UNCHANGED <<phase, orphans, diskVars, planVars, unlinks>>
          /\ ops[o].state # "none"
      BY <2>2 DEF StartPlan, StartApply, ClaimPlan, ClaimApply, Goto, Step
    <3> QED
      BY <1>t, <1>2, <2>1, <3>1 DEF diskVars, planVars, PhaseTypeOK
  <2>3. ASSUME NEW s \in {"planning", "applying"}, Ends(o, s), orphans' = orphans
        PROVE  Fresh /\ phase' \in [Op -> [Phase -> Progress]] /\ step' \in [Op -> Step]
    <3> DEFINE ph == PhaseOf(s)
               Next1(w) == IF w = "running" THEN "done" ELSE w
               Next2(w) == IF w = "running" THEN "marking" ELSE w
    <3>1. ph \in Phase /\ phase[o] \in [Phase -> Progress] /\ phase[o][ph] \in Progress
      BY <1>t DEF PhaseTypeOK, PhaseOf, Phase
    <3>2. \/ phase' = [phase EXCEPT ![o] = [phase[o] EXCEPT ![ph] = Next1(phase[o][ph])]]
          \/ phase' = [phase EXCEPT ![o] = [phase[o] EXCEPT ![ph] = Next2(phase[o][ph])]]
      BY <2>3, <1>t, <3>1 DEF Ends, PhaseTypeOK
    <3>3. Next1(phase[o][ph]) \in Progress /\ Next2(phase[o][ph]) \in Progress
      BY <3>1 DEF Progress
    <3>4. phase' \in [Op -> [Phase -> Progress]]
      <4> HIDE DEF ph, Next1, Next2
      <4>1. \A w \in Progress : [phase[o] EXCEPT ![ph] = w] \in [Phase -> Progress]
        BY <3>1
      <4>2. \A f \in [Phase -> Progress] : [phase EXCEPT ![o] = f] \in [Op -> [Phase -> Progress]]
        BY <1>t DEF PhaseTypeOK
      <4> QED
        BY <3>2, <3>3, <4>1, <4>2
    <3>5. step' = [step EXCEPT ![o] = "idle"]
      BY <2>3 DEF Ends, Goto
    <3> QED
      BY <1>t, <2>1, <2>3, <3>4, <3>5 DEF PhaseTypeOK, Step
  <2>4. CASE Prepare(o)
    BY <1>t, <2>1, <2>4 DEF Prepare, Goto, RemoveFile, planVars, PhaseTypeOK, Step, OpRow
  <2>5. CASE WritePlan(o)
    BY <1>t, <2>1, <2>5, HomeTyped DEF WritePlan, Goto, planVars, PhaseTypeOK, Step
  <2>6. CASE ReportPlanned(o)
    BY <1>t, <2>1, <2>3, <2>6, HomeTyped DEF ReportPlanned, diskVars, PhaseTypeOK
  <2>7. CASE ReportDriftCheck(o)
    BY <1>t, <2>3, <2>7 DEF ReportDriftCheck, diskVars, planVars, PhaseTypeOK
  <2>8. CASE PlanFails(o) \/ CheckPlan(o) \/ ApplyRefused(o) \/ ApplyCompletes(o) \/ ApplyBreaks(o)
    <3>1. /\ \E new \in Step : step' = [step EXCEPT ![o] = new]
          /\ UNCHANGED <<phase, orphans, diskVars, planVars, unlinks>>
          /\ step[o] # "idle"
      BY <2>8 DEF PlanFails, CheckPlan, ApplyRefused, ApplyCompletes, ApplyBreaks, Failing,
         Goto, Step
    <3> QED
      BY <1>t, <2>1, <3>1 DEF diskVars, planVars, PhaseTypeOK
  <2>9. CASE ApplyBegins(o)
    BY <1>t, <2>1, <2>9, HomeTyped DEF ApplyBegins, Goto, PhaseTypeOK, Step
  <2>10. CASE RemoveApplied(o) \/ RemoveFailed(o)
    <3>1. /\ \E new \in Step : step' = [step EXCEPT ![o] = new]
          /\ RemoveFile(Home(o))
          /\ UNCHANGED <<phase, orphans, workspace, infra, planVars, unlinks>>
          /\ step[o] # "idle"
      BY <2>10 DEF RemoveApplied, RemoveFailed, Goto, Step
    <3> QED
      BY <1>t, <2>1, <3>1 DEF planVars, RemoveFile, PhaseTypeOK
  <2>11. ASSUME NEW s \in {"planning", "applying"}, Report(o, s) PROVE Good /\ Fresh
    BY <1>t, <2>3, <2>11 DEF Report, diskVars, planVars, PhaseTypeOK
  <2>12. ASSUME NEW s \in {"planning", "applying"}, WorkerDies(o, s) PROVE Good /\ Fresh
    <3>1. /\ step' = [step EXCEPT ![o] = "idle"] /\ step[o] # "idle"
          /\ orphans' = orphans \/ orphans' = orphans \cup {<<o, step[o]>>}
          /\ orphans' # orphans => step[o] \in {"prepared", "applying"}
          /\ UNCHANGED <<phase, diskVars, planVars, unlinks>>
      BY <2>12 DEF WorkerDies, Goto
    <3> QED
      BY <1>t, <2>1, <3>1 DEF diskVars, planVars, PhaseTypeOK, Working, Step
  <2>13. ASSUME NEW s \in {"prepared", "applying"}, OrphanEnds(o, s) PROVE Good /\ Fresh
    <3>1. Working(o)
      BY <2>13 DEF OrphanEnds, Working, Step
    <3> QED
      BY <1>t, <3>1, <2>13, HomeTyped DEF OrphanEnds, planVars, PhaseTypeOK, Working
  <2> QED
    BY <1>8, <2>2, <2>4, <2>5, <2>6, <2>7, <2>8, <2>9, <2>10, <2>11, <2>12, <2>13 DEF Act
<1> HIDE DEF Good, Fresh
<1> QED
  BY <1>3, <1>4, <1>5, <1>6, <1>7, <1>8 DEF PNext, Serve, Orchestrate

\* Every reachable state of workflows, activities and workspaces is well typed,
\* whatever operators do.
THEOREM PhaseTypeCorrect == PSpec => [](LedgerInv /\ PhaseTypeOK /\ WorkAccepted)
<1>1. PInit => Init
  BY DEF PInit
<1>2. PInit /\ LedgerInv => Base
  BY DEF PInit, Base, LedgerInv, PhaseTypeOK, WorkAccepted, Working, Phase, Progress, Step
<1> QED
  BY <1>1, <1>2, BaseStep, LedgerSoundInPhases, PTL DEF PSpec, Base

-----------------------------------------------------------------------------
(* Careful operators: who works in a workspace, and on which plan.          *)

\* The three parts of PhaseInv that need careful operators, for one operation.
OpInv(o) ==
    /\ Working(o) => ops[o].state \in {"planning", "applying", "uncertain"} \/ GivenUp(o)
    /\ step[o] \in ApplySteps => ops[o].state \in {"applying", "uncertain"}
    /\ step[o] = "written" => ops[o].action # "drift_check"
    /\ \A s \in Step : <<o, s>> \in orphans => step[o] = "idle" /\ ops[o].action # "drift_check"
    /\ consumed[o] # None =>
           /\ ops[o].state \in {"applying", "uncertain", "succeeded"}
           /\ step[o] \in {"idle", "applying", "applied", "recording", "broken"}
    /\ step[o] = "written" /\ file[Home(o)] # None => file[Home(o)].by = o
    /\ step[o] = "checked" /\ file[Home(o)] # None => file[Home(o)] = digest[o]
    /\ digest[o] # None => digest[o].by = o
    /\ consumed[o] # None => consumed[o] = digest[o]

CarefulInv == Base /\ \A o \in Op : OpInv(o)

\* CarefulInv is the invariant that PhaseExecution names in parts.
LEMMA CarefulParts == CarefulInv <=> Base /\ WorkOwned /\ BegunCounts /\ FileOwned
BY DEF CarefulInv, OpInv, WorkOwned, BegunCounts, FileOwned

\* Of two changes of one resource only one is worked on.
LEMMA Alone ==
    ASSUME CarefulInv, NEW o \in Op, NEW p \in Op, Home(o) = Home(p), Working(o), Working(p),
           ~GivenUp(o), ~GivenUp(p)
    PROVE  o = p
BY DEF CarefulInv, OpInv, Base, LedgerInv, Consistent, Exclusive, Busy, Unfinished, Home

\* A check is never in an apply or uncertain.
LEMMA CheckStates ==
    ASSUME Base, NEW o \in Op, ops[o].action = "drift_check"
    PROVE  ops[o].state \in {"none", "queued", "planning", "succeeded", "failed"}
BY DEF Base, LedgerInv, Consistent, WellFormed

\* What others do leaves an operation's part of the invariant alone, unless they
\* write a plan into its workspace while it relies on the one there.
LEMMA OthersKept ==
    ASSUME CarefulInv, NEW o \in Op, NEW q \in Op, q # o,
           ops'[q] = ops[q], step'[q] = step[q], digest'[q] = digest[q],
           consumed'[q] = consumed[q],
           \A s \in Step : <<q, s>> \in orphans' => <<q, s>> \in orphans,
           \/ Home(q) \in Resource => file'[Home(q)] \in {file[Home(q)], None}
           \/ Home(q) = Home(o) /\ Working(o) /\ ops[o].action # "drift_check"
    PROVE  OpInv(q)'
<1>1. OpInv(q) /\ Home(q)' = Home(q)
  BY DEF CarefulInv, Home
<1>2. ASSUME step[q] \in {"written", "checked"}
      PROVE  file'[Home(q)] \in {file[Home(q)], None}
  <2>1. Working(q) /\ ops[q].action # "drift_check"
    BY <1>1, <1>2, CheckStates DEF OpInv, Working, CarefulInv, ApplySteps
  <2>2. Home(q) \in Resource
    BY <2>1, HomeTyped DEF CarefulInv
  <2> QED
    BY <2>1, <2>2, Alone DEF GivenUp
<1>3. Working(q)' => Working(q)
  BY DEF Working
<1> QED
  BY <1>1, <1>2, <1>3 DEF OpInv, GivenUp

\* A step of requests, operators or workflows: nothing that is worked on moves,
\* except that its operation may be found interrupted.
Allowed(q) ==
    \/ ops'[q].state = ops[q].state
    \/ ops[q].state \in {"planning", "applying"} /\ ops'[q].state = "uncertain"
    \/ /\ ops[q].state = "planning" /\ ops[q].action = "drift_check"
       /\ ops'[q].state = "failed"
    \/ ~Working(q) /\ (consumed[q] = None \/ ops'[q].state = "succeeded")

\* A step that moves no activity and writes no plan preserves the invariant.
LEMMA Undisturbed ==
    ASSUME CarefulInv, Base', [Next]_vars, UNCHANGED <<step, orphans, planVars>>,
           \A q \in Op : Allowed(q) \/ ops[q].state = "none",
           \A r \in Resource : file'[r] \in {file[r], None}
    PROVE  CarefulInv'
<1> SUFFICES ASSUME NEW q \in Op PROVE OpInv(q)'
  BY DEF CarefulInv
<1>1. OpInv(q) /\ Working(q)' = Working(q) /\ UNCHANGED <<digest, consumed>>
  BY DEF CarefulInv, Working, planVars
<1>2. CASE ops[q].state = "none"
  <2>1. ~Working(q) /\ consumed[q] = None
    BY <1>1, <1>2 DEF OpInv, CarefulInv, Base, WorkAccepted
  <2> QED
    BY <1>1, <2>1 DEF OpInv, Working, ApplySteps, planVars
<1>3. CASE ops[q].state # "none"
  <2>1. /\ ops'[q].action = ops[q].action /\ Home(q)' = Home(q)
    BY <1>3, RequestsKept DEF CarefulInv, Base, Home
  <2>2. Home(q) \in Resource
    BY <1>3 DEF CarefulInv, Base, LedgerInv, Consistent, WellFormed, Home
  <2>3. file'[Home(q)] \in {file[Home(q)], None} /\ Allowed(q)
    BY <1>3, <2>2
  <2>4. ops[q].action = "drift_check" => ops[q].state \notin {"applying", "uncertain"}
    BY CheckStates DEF CarefulInv
  <2>5. step[q] # "idle" => Working(q)
    BY DEF Working
  <2> QED
    BY <1>1, <2>1, <2>3, <2>4, <2>5 DEF OpInv, GivenUp, Allowed, Working, ApplySteps
<1> QED
  BY <1>2, <1>3

\* Requests, decisions, workflows: none of them moves an activity.
LEMMA QuietStep ==
    ASSUME CarefulOperator, CarefulInv, Base', [Next]_vars,
           \/ Ask
           \/ \E d \in drafts : AcceptRequest(d)
           \/ \E o \in Op : \/ RemoveExpired(o) \/ ReleasePlanFile(o) \/ ReleaseLost(o)
                            \/ Approve(o) \/ OperatorDecides(o)
                            \/ \E ph \in Phase : Dispatch(o, ph)
           \/ Orchestrate
           \/ UNCHANGED pvars
    PROVE  CarefulInv'
<1> DEFINE Quiet == UNCHANGED <<step, orphans, planVars>>
           Kept == \A q \in Op : Allowed(q) \/ ops[q].state = "none"
           Files == \A r \in Resource : file'[r] \in {file[r], None}
<1>1. Quiet /\ Kept /\ Files => CarefulInv'
  BY Undisturbed
<1>t. /\ file \in [Resource -> SavedPlan \cup {None}] /\ ops \in [Op -> OpRow]
      /\ \A d \in drafts : d.key \in Op
      /\ \A q \in Op : ops[q] \in OpRow
  BY DEF CarefulInv, Base, PhaseTypeOK, LedgerInv, TypeOK, Draft
<1>0. file' = file => Files
  OBVIOUS
<1>k. ASSUME NEW o \in Op, \A q \in Op \ {o} : ops'[q] = ops[q] \/ ops[q].state = "none", Allowed(o)
      PROVE  Kept
  BY <1>k DEF Allowed
<1>s. ASSUME NEW o \in Op, NEW new, ops' = [ops EXCEPT ![o].state = new]
      PROVE  ops'[o].state = new /\ \A q \in Op \ {o} : ops'[q] = ops[q]
  BY <1>t, <1>s DEF OpRow
<1>2. CASE Ask \/ UNCHANGED pvars
  <2>1. ops' = ops /\ UNCHANGED phaseVars
    BY <1>2 DEF Ask, ValidateCreate, ValidateUpdate, ValidateDestroy, ValidateDriftCheck,
       Validate, DropRequest, pvars, vars
  <2>2. Quiet /\ Kept /\ Files
    BY <2>1, <1>0 DEF phaseVars, diskVars, Allowed
  <2> HIDE DEF Quiet, Kept, Files
  <2> QED
    BY <2>2, <1>1
<1>3. ASSUME NEW d \in drafts, AcceptRequest(d) PROVE Quiet /\ Kept /\ Files
  <2>1. Quiet /\ Files
    BY <1>3, <1>0 DEF AcceptRequest, diskVars
  <2>2. CASE Accept(d)
    <3>1. ops[d.key].state = "none" /\ \E new : ops' = [ops EXCEPT ![d.key] = new]
      BY <2>2 DEF Accept, AcceptInto
    <3>2. \A q \in Op : q # d.key => ops'[q] = ops[q]
      BY <3>1, <1>t
    <3> QED
      BY <2>1, <3>1, <3>2 DEF Allowed
  <2>3. CASE AcceptOverExpired(d)
    <3>1. PICK b \in Op :
             /\ ops[b].state = "planned"
             /\ ops[d.key].state = "none"
             /\ \E new : ops' = [[ops EXCEPT ![b].state = "failed"] EXCEPT ![d.key] = new]
      BY <2>3 DEF AcceptOverExpired, AcceptInto, Active, Expired
    <3>2. ops[b].state = "planned"
      BY <3>1
    <3>3. ~Working(b) /\ consumed[b] = None
      BY <3>2 DEF CarefulInv, OpInv, GivenUp
    <3>4. d.key # b /\ \A q \in Op \ {b} : ops'[q] = ops[q] \/ ops[q].state = "none"
      BY <3>1, <1>t
    <3>5. Allowed(b)
      BY <3>3 DEF Allowed
    <3> QED
      BY <2>1, <3>4, <3>5, <1>k
  <2> QED
    BY <1>3, <2>1, <2>2, <2>3 DEF AcceptRequest
<1>4. ASSUME NEW o \in Op, RemoveExpired(o) \/ ReleaseLost(o) PROVE Quiet /\ Kept /\ Files
  BY <1>4, <1>t DEF RemoveExpired, ReleaseLost, RemoveFile, vars, Allowed
<1>5. ASSUME NEW o \in Op, ReleasePlanFile(o) PROVE Quiet /\ Kept /\ Files
  <2>1. Quiet /\ Files
    BY <1>5, <1>t DEF ReleasePlanFile, RemoveFile
  <2>2. ops[o].state = "planned" /\ ops' = [ops EXCEPT ![o].state = "failed"]
    BY <1>5, <1>t DEF ReleasePlanFile, Discard, ExecuteExpired, Expired, ReleasePlan
  <2>3. ~Working(o) /\ consumed[o] = None
    BY <2>2 DEF CarefulInv, OpInv, GivenUp
  <2>4. Allowed(o)
    BY <2>3 DEF Allowed
  <2> QED
    BY <2>1, <2>2, <2>4, <1>s, <1>k
<1>6. ASSUME NEW o \in Op, Approve(o) PROVE Quiet /\ Kept /\ Files
  <2>1. Quiet /\ Files
    BY <1>6, <1>0 DEF Approve, phaseVars, diskVars
  <2>2. CASE Execute(o)
    <3>1. ops[o].state = "planned" /\ ops' = [ops EXCEPT ![o].state = "apply_queued"]
      BY <2>2 DEF Execute
    <3>2. ~Working(o) /\ consumed[o] = None
      BY <3>1 DEF CarefulInv, OpInv, GivenUp
    <3>3. Allowed(o)
      BY <3>2 DEF Allowed
    <3> QED
      BY <2>1, <3>1, <3>3, <1>s, <1>k
  <2>3. CASE PlanAges(o)
    <3>1. ops' = [ops EXCEPT ![o].aged = TRUE]
      BY <2>3 DEF PlanAges
    <3>2. ops'[o].state = ops[o].state /\ \A q \in Op \ {o} : ops'[q] = ops[q]
      BY <3>1, <1>t DEF OpRow
    <3> QED
      BY <2>1, <3>2, <1>k DEF Allowed
  <2> QED
    BY <1>6, <2>2, <2>3 DEF Approve
<1>7. ASSUME NEW o \in Op, OperatorDecides(o) PROVE Quiet /\ Kept /\ Files
  <2>1. Quiet /\ Files /\ ~Working(o)
    BY <1>7, <1>0 DEF OperatorDecides, phaseVars, diskVars, Working
  <2>2. \/ ops' = [ops EXCEPT ![o].state = "succeeded", ![o].recon = "succeeded"]
        \/ ops' = [ops EXCEPT ![o].state = "failed", ![o].recon = "failed"] /\ consumed[o] = None
    BY <1>7 DEF OperatorDecides, ReconcileSucceeded, ReconcileFailed
  <2>3. /\ ops'[o].state = "succeeded" \/ (ops'[o].state = "failed" /\ consumed[o] = None)
        /\ \A q \in Op \ {o} : ops'[q] = ops[q]
    BY <2>2, <1>t DEF OpRow
  <2>4. Allowed(o)
    BY <2>1, <2>3 DEF Allowed
  <2> QED
    BY <2>1, <2>3, <2>4, <1>k
<1>8. ASSUME NEW o \in Op, NEW ph \in Phase,
             Dispatch(o, ph) \/ PhaseFails(o, ph) \/ PhaseTimesOut(o, ph) \/ Mark(o, ph)
      PROVE  Quiet /\ Kept /\ Files
  <2>1. Quiet /\ Files /\ (ops' = ops \/ Interrupted(o))
    BY <1>8, <1>0 DEF Dispatch, PhaseFails, PhaseTimesOut, Mark, diskVars, vars
  <2>2. CASE ops' = ops
    BY <2>1, <2>2 DEF Allowed
  <2>3. CASE Interrupted(o)
    <3>1. /\ ops[o].state \in {"queued", "planning", "apply_queued", "applying"}
          /\ \/ ops[o].action = "drift_check" /\ ops' = [ops EXCEPT ![o].state = "failed"]
             \/ ops[o].action # "drift_check" /\ ops' = [ops EXCEPT ![o].state = "uncertain"]
      BY <2>3 DEF Interrupted
    <3>2. ops[o].action = "drift_check" => ops[o].state \in {"queued", "planning"}
      BY <3>1, CheckStates DEF CarefulInv
    <3>3. ops[o].state \in {"queued", "apply_queued"} => ~Working(o) /\ consumed[o] = None
      BY DEF CarefulInv, OpInv, GivenUp
    <3>4. Allowed(o) /\ \A q \in Op \ {o} : ops'[q] = ops[q]
      BY <3>1, <3>2, <3>3, <1>s DEF Allowed
    <3> QED
      BY <2>1, <3>4, <1>k
  <2> QED
    BY <2>1, <2>2, <2>3
<1> HIDE DEF Quiet, Kept, Files
<1> QED
  BY <1>1, <1>2, <1>3, <1>4, <1>5, <1>6, <1>7, <1>8 DEF Orchestrate

\* What an activity does to its own operation's part of the invariant.
LEMMA ActStep ==
    ASSUME CarefulInv, Base', [Next]_vars, NEW o \in Op, Act(o)
    PROVE  CarefulInv'
<1>t. /\ Base /\ OpInv(o) /\ PhaseTypeOK /\ ops \in [Op -> OpRow] /\ ops[o] \in OpRow
  BY DEF CarefulInv, Base, PhaseTypeOK, TypeOK
<1> DEFINE
      Others(q) == /\ ops'[q] = ops[q] /\ step'[q] = step[q] /\ digest'[q] = digest[q]
                   /\ consumed'[q] = consumed[q]
                   /\ \A s \in Step : <<q, s>> \in orphans' => <<q, s>> \in orphans
      Files(q) == \/ Home(q) \in Resource => file'[Home(q)] \in {file[Home(q)], None}
                  \/ Home(q) = Home(o) /\ Working(o) /\ ops[o].action # "drift_check"
<1>1. ASSUME OpInv(o)', \A q \in Op \ {o} : Others(q) /\ Files(q) PROVE CarefulInv'
  <2> SUFFICES ASSUME NEW q \in Op, q # o PROVE OpInv(q)'
    BY <1>1 DEF CarefulInv
  <2> QED
    BY <1>1, OthersKept
<1>i. step[o] # "idle" => /\ Working(o) /\ ops[o].state # "none" /\ Home(o) \in Resource
                          /\ \A s \in Step : <<o, s>> \notin orphans
  BY <1>t, HomeTyped DEF Working, OpInv
<1>d. ops[o].action = "drift_check" => ops[o].state \notin {"applying", "uncertain"}
  BY <1>t, CheckStates
<1>h. ops[o].state # "none" => ops'[o].action = ops[o].action /\ Home(o)' = Home(o)
  BY <1>t, RequestsKept DEF Base, Home
\* A step of the activity that no transaction accompanies.
<1>e. ASSUME NEW new, step' = [step EXCEPT ![o] = new], UNCHANGED <<vars, orphans, planVars>>,
             \A q \in Op \ {o} : Files(q), OpInv(o)'
      PROVE  CarefulInv'
  <2>1. \A q \in Op \ {o} : Others(q)
    BY <1>t, <1>e DEF vars, planVars, PhaseTypeOK
  <2> QED
    BY <1>1, <1>e, <2>1
<1>f. file' = file \/ RemoveFile(Home(o)) \/ file' = [file EXCEPT ![Home(o)] = None]
        => \A q \in Op \ {o} : Files(q)
  BY <1>t DEF PhaseTypeOK, RemoveFile
\* A last transaction: whatever becomes of the operation, its activity is gone.
<1>g. ASSUME NEW s \in {"planning", "applying"}, Ends(o, s), step[o] # "idle",
             \A q \in Op \ {o} : ops'[q] = ops[q] /\ digest'[q] = digest[q],
             UNCHANGED <<orphans, diskVars, consumed>>,
             consumed[o] # None => /\ ops'[o].state \in {"applying", "uncertain", "succeeded"}
                                   /\ digest'[o] = digest[o],
             digest'[o] # None => digest'[o].by = o
      PROVE  CarefulInv'
  <2>1. step' = [step EXCEPT ![o] = "idle"] /\ step'[o] = "idle" /\ file' = file
    BY <1>t, <1>g DEF Ends, Goto, diskVars, PhaseTypeOK
  <2>2. \A q \in Op \ {o} : Others(q) /\ Files(q)
    BY <1>t, <1>g, <1>f, <2>1 DEF PhaseTypeOK
  <2>3. ~Working(o)'
    BY <1>g, <1>i, <2>1 DEF Working
  <2>4. OpInv(o)'
    BY <1>g, <1>t, <1>i, <2>1, <2>3 DEF OpInv, ApplySteps
  <2> QED
    BY <1>1, <2>2, <2>4
<1> HIDE DEF Others, Files
<1>2. CASE StartPlan(o) \/ StartApply(o)
  <2>1. /\ \/ ops[o].state = "queued" /\ ops' = [ops EXCEPT ![o].state = "planning"]
              /\ step' = [step EXCEPT ![o] = "preparing"]
           \/ ops[o].state = "apply_queued" /\ ops' = [ops EXCEPT ![o].state = "applying"]
              /\ step' = [step EXCEPT ![o] = "checking"]
        /\ UNCHANGED <<orphans, diskVars, planVars>>
    BY <1>2 DEF StartPlan, StartApply, ClaimPlan, ClaimApply, Goto
  <2>2. ~Working(o) /\ consumed[o] = None
    BY <1>t, <2>1 DEF OpInv, GivenUp
  <2>3. /\ \/ ops'[o].state = "planning" /\ step'[o] = "preparing"
           \/ ops'[o].state = "applying" /\ step'[o] = "checking"
        /\ ops'[o].action = ops[o].action
        /\ \A q \in Op \ {o} : ops'[q] = ops[q] /\ step'[q] = step[q]
    BY <1>t, <2>1 DEF PhaseTypeOK, OpRow
  <2>4. OpInv(o)'
    BY <1>t, <2>1, <2>2, <2>3 DEF OpInv, Working, planVars, ApplySteps
  <2>5. \A q \in Op \ {o} : Others(q) /\ Files(q)
    BY <1>f, <2>1, <2>3 DEF Others, planVars, diskVars
  <2> QED
    BY <1>1, <2>4, <2>5
<1>3. CASE Prepare(o)
  <2>1. /\ step[o] = "preparing" /\ step' = [step EXCEPT ![o] = "prepared"]
        /\ UNCHANGED <<vars, orphans, planVars>>
        /\ file' = file \/ RemoveFile(Home(o))
    BY <1>3 DEF Prepare, Goto
  <2>2. OpInv(o)'
    BY <1>t, <1>i, <2>1 DEF OpInv, Working, vars, planVars, PhaseTypeOK, GivenUp, ApplySteps
  <2> QED
    BY <1>e, <1>f, <2>1, <2>2
<1>4. CASE WritePlan(o)
  <2>1. /\ step[o] = "prepared" /\ step' = [step EXCEPT ![o] = "written"]
        /\ ops[o].action # "drift_check"
        /\ UNCHANGED <<vars, orphans, planVars>>
        /\ file' = [file EXCEPT ![Home(o)] = PlanOf(o)]
    BY <1>4 DEF WritePlan, Goto
  <2>2. file'[Home(o)].by = o
    BY <1>t, <1>i, <2>1 DEF PlanOf, PhaseTypeOK
  <2>3. OpInv(o)'
    BY <1>t, <1>i, <2>1, <2>2 DEF OpInv, Working, vars, planVars, PhaseTypeOK, GivenUp, Home, ApplySteps
  <2>4. \A q \in Op \ {o} : Files(q)
    BY <1>t, <1>i, <2>1 DEF Files, PhaseTypeOK
  <2> QED
    BY <1>e, <2>1, <2>3, <2>4
<1>5. CASE ReportPlanned(o)
  <2>1. /\ step[o] = "written" /\ file[Home(o)] # None
        /\ ops' = [ops EXCEPT ![o].state = "planned", ![o].digest = TRUE]
        /\ digest' = [digest EXCEPT ![o] = file[Home(o)]]
        /\ Ends(o, "planning") /\ UNCHANGED <<orphans, diskVars, consumed>>
    BY <1>5 DEF ReportPlanned, FinishPlanned
  <2>2. consumed[o] = None /\ file[Home(o)].by = o
    BY <1>t, <2>1 DEF OpInv
  <2>3. digest'[o].by = o /\ \A q \in Op \ {o} : ops'[q] = ops[q] /\ digest'[q] = digest[q]
    BY <1>t, <2>1, <2>2 DEF PhaseTypeOK
  <2> QED
    BY <1>g, <2>1, <2>2, <2>3
<1>6. CASE PlanFails(o) \/ ApplyRefused(o)
  <2>1. /\ step[o] \in {"preparing", "prepared", "written", "checked"}
        /\ \E new \in {"failing", "failed"} : step' = [step EXCEPT ![o] = new]
        /\ UNCHANGED <<vars, orphans, planVars, file>>
    BY <1>6 DEF PlanFails, ApplyRefused, Failing, Goto, diskVars
  <2>2. OpInv(o)'
    BY <1>t, <1>i, <2>1 DEF OpInv, Working, vars, planVars, PhaseTypeOK, GivenUp, ApplySteps
  <2> QED
    BY <1>e, <1>f, <2>1, <2>2
<1>7. CASE ReportDriftCheck(o)
  <2>1. /\ step[o] \in {"prepared", "preparing"} /\ \E new : ops' = [ops EXCEPT ![o].state = new]
        /\ Ends(o, "planning") /\ UNCHANGED <<orphans, diskVars, planVars>>
    BY <1>7 DEF ReportDriftCheck, FinishDriftCheck, Finish
  <2>2. consumed[o] = None /\ (digest[o] # None => digest[o].by = o)
    BY <1>t, <2>1 DEF OpInv
  <2>3. \A q \in Op \ {o} : ops'[q] = ops[q]
    BY <1>t, <2>1
  <2> QED
    BY <1>g, <2>1, <2>2, <2>3 DEF planVars
<1>8. CASE CheckPlan(o)
  <2>1. /\ step[o] = "checking"
        /\ \E new \in {"checked", "failing", "failed"} :
               /\ step' = [step EXCEPT ![o] = new]
               /\ new = "checked" => file[Home(o)] = digest[o]
        /\ UNCHANGED <<vars, orphans, planVars, file>>
    BY <1>8 DEF CheckPlan, Failing, Goto, diskVars
  <2>2. OpInv(o)'
    BY <1>t, <1>i, <2>1 DEF OpInv, Working, vars, planVars, PhaseTypeOK, GivenUp, ApplySteps, Home
  <2> QED
    BY <1>e, <1>f, <2>1, <2>2
<1>9. CASE ApplyBegins(o)
  <2>1. /\ step[o] = "checked" /\ file[Home(o)] # None
        /\ step' = [step EXCEPT ![o] = "applying"]
        /\ consumed' = [consumed EXCEPT ![o] = file[Home(o)]]
        /\ UNCHANGED <<vars, orphans, file, digest>>
    BY <1>9 DEF ApplyBegins, Goto
  <2>2. /\ consumed'[o] = digest[o] /\ step'[o] = "applying"
        /\ ops[o].state \in {"applying", "uncertain"}
    BY <1>t, <2>1 DEF OpInv, PhaseTypeOK, ApplySteps
  <2>3. OpInv(o)'
    BY <1>t, <1>i, <2>1, <2>2 DEF OpInv, Working, vars, GivenUp, ApplySteps
  <2>4. \A q \in Op \ {o} : Others(q) /\ Files(q)
    BY <1>t, <1>f, <2>1 DEF Others, vars, PhaseTypeOK
  <2> QED
    BY <1>1, <2>3, <2>4
<1>10. CASE ApplyCompletes(o) \/ ApplyBreaks(o) \/ RemoveApplied(o)
  <2>1. /\ step[o] \in {"checked", "applying", "applied", "recording"}
        /\ \E new \in {"applied", "recording", "broken"} : step' = [step EXCEPT ![o] = new]
        /\ UNCHANGED <<vars, orphans, planVars>>
        /\ file' = file \/ RemoveFile(Home(o))
    BY <1>10 DEF ApplyCompletes, ApplyBreaks, RemoveApplied, Goto, diskVars
  <2>2. OpInv(o)'
    BY <1>t, <1>i, <2>1 DEF OpInv, Working, vars, planVars, PhaseTypeOK, GivenUp, ApplySteps
  <2> QED
    BY <1>e, <1>f, <2>1, <2>2
<1>11. CASE RemoveFailed(o)
  <2>1. /\ step[o] = "failing" /\ step' = [step EXCEPT ![o] = "failed"]
        /\ UNCHANGED <<vars, orphans, planVars>>
        /\ RemoveFile(Home(o))
    BY <1>11 DEF RemoveFailed, Goto
  <2>2. OpInv(o)'
    BY <1>t, <1>i, <2>1 DEF OpInv, Working, vars, planVars, PhaseTypeOK, GivenUp, ApplySteps
  <2> QED
    BY <1>e, <1>f, <2>1, <2>2
<1>12. ASSUME NEW s \in {"planning", "applying"}, Report(o, s) PROVE CarefulInv'
  <2>1. /\ step[o] \in Reporting(o) \cup {"failed", "recording", "broken"}
        /\ \/ step[o] = "failed" /\ ops' = [ops EXCEPT ![o].state = "failed"]
           \/ ops' = [ops EXCEPT ![o].state = "succeeded"]
           \/ ops' = [ops EXCEPT ![o].state = "uncertain"]
           \/ ops' = ops
        /\ Ends(o, s) /\ UNCHANGED <<orphans, diskVars, planVars>>
    BY <1>12 DEF Report, FinishFailed, FinishSucceeded, FinishUncertain, Finish, LateResult
  <2>2. step[o] # "idle" /\ (digest[o] # None => digest[o].by = o)
    BY <1>t, <2>1 DEF Reporting, OpInv
  <2>3. consumed[o] # None => ops'[o].state \in {"applying", "uncertain", "succeeded"}
    BY <1>t, <2>1 DEF OpInv, OpRow
  <2>4. \A q \in Op \ {o} : ops'[q] = ops[q]
    BY <1>t, <2>1
  <2> QED
    BY <1>g, <2>1, <2>2, <2>3, <2>4 DEF planVars
<1>13. ASSUME NEW s \in {"planning", "applying"}, WorkerDies(o, s) PROVE CarefulInv'
  <2>1. /\ step[o] # "idle" /\ step' = [step EXCEPT ![o] = "idle"]
        /\ \/ orphans' = orphans
           \/ orphans' = orphans \cup {<<o, step[o]>>}
              /\ (step[o] = "applying" \/ ops[o].action # "drift_check")
        /\ UNCHANGED <<ops, file, planVars>>
    BY <1>13 DEF WorkerDies, WorkerLost, Goto, diskVars
  <2>2. orphans' # orphans => ops[o].action # "drift_check"
    BY <1>t, <1>d, <2>1 DEF OpInv, ApplySteps
  <2>3. OpInv(o)'
    BY <1>t, <1>i, <2>1, <2>2 DEF OpInv, Working, planVars, PhaseTypeOK, GivenUp, ApplySteps, Home
  <2>4. \A q \in Op \ {o} : Others(q) /\ Files(q)
    BY <1>t, <1>f, <2>1 DEF Others, planVars, PhaseTypeOK
  <2> QED
    BY <1>1, <2>3, <2>4
<1>14. ASSUME NEW s \in {"prepared", "applying"}, OrphanEnds(o, s) PROVE CarefulInv'
  <2>1. /\ <<o, s>> \in orphans /\ orphans' \subseteq orphans
        /\ file' = file \/ file' = [file EXCEPT ![Home(o)] = PlanOf(o)]
        /\ UNCHANGED <<vars, step, planVars>>
    BY <1>14 DEF OrphanEnds
  <2>2. s \in Step /\ Working(o)
    BY <2>1 DEF Working, Step
  <2>3. step[o] = "idle" /\ ops[o].action # "drift_check" /\ Home(o) \in Resource
    BY <1>t, <2>1, <2>2, HomeTyped DEF OpInv
  <2>4. OpInv(o)'
    BY <1>t, <2>1, <2>2, <2>3 DEF OpInv, Working, vars, planVars, GivenUp, ApplySteps
  <2>5. \A q \in Op \ {o} : Others(q) /\ Files(q)
    BY <1>t, <2>1, <2>2, <2>3 DEF Others, Files, vars, planVars, PhaseTypeOK
  <2> QED
    BY <1>1, <2>4, <2>5
<1> QED
  BY <1>2, <1>3, <1>4, <1>5, <1>6, <1>7, <1>8, <1>9, <1>10, <1>11, <1>12, <1>13, <1>14 DEF Act

\* With careful operators every step preserves the invariant.
LEMMA CarefulStep == CarefulOperator /\ CarefulInv /\ [PNext]_pvars => CarefulInv'
<1> SUFFICES ASSUME CarefulOperator, CarefulInv, [PNext]_pvars PROVE CarefulInv'
  OBVIOUS
<1>1. Base' /\ [Next]_vars
  BY BaseStep, PhaseStepIsLedgerStep DEF CarefulInv
<1>2. ASSUME NEW o \in Op, Act(o) PROVE CarefulInv'
  BY <1>1, <1>2, ActStep
<1> QED
  BY <1>1, <1>2, QuietStep DEF PNext, Serve

\* With careful operators the invariant holds in every reachable state.
LEMMA Careful ==
    ASSUME CarefulOperator
    PROVE  PSpec => []CarefulInv
<1>1. PInit => \A o \in Op : OpInv(o)
  BY DEF PInit, OpInv, Working, Step, ApplySteps
<1>2. PInit /\ Base => CarefulInv
  BY <1>1 DEF CarefulInv
<1>3. CarefulInv /\ [PNext]_pvars => CarefulInv'
  BY CarefulStep
<1> QED
  BY <1>2, <1>3, PhaseTypeCorrect, PTL DEF PSpec, Base

\* Only one change is worked on in a workspace at a time, late activities and
\* surviving Terraform commands included (resource_busy with the rule that
\* uncertain operations keep their resource).
THEOREM WorkspaceHasOneWorker ==
    ASSUME CarefulOperator
    PROVE  PSpec => []SoleWorker
<1>1. CarefulInv => SoleWorker
  BY Alone DEF SoleWorker, GivenUp
<1> QED
  BY <1>1, Careful, PTL

\* Terraform never applies a plan other than the one that was reviewed, though
\* the file is checked and read in separate steps (agent-architecture.md,
\* "Never apply a different plan").
THEOREM OnlyReviewedPlansApplied ==
    ASSUME CarefulOperator
    PROVE  PSpec => []AppliedIsReviewed
<1>1. CarefulInv => AppliedIsReviewed
  BY DEF CarefulInv, OpInv, AppliedIsReviewed
<1> QED
  BY <1>1, Careful, PTL

\* An operation that failed never began to change the infrastructure, so that
\* giving its reservation back is right.
THEOREM FailedMeansUnchanged ==
    ASSUME CarefulOperator
    PROVE  PSpec => []FailedChangedNothing
<1>1. CarefulInv => FailedChangedNothing
  BY DEF CarefulInv, OpInv, FailedChangedNothing
<1> QED
  BY <1>1, Careful, PTL


-----------------------------------------------------------------------------
(* The infrastructure and the resource's row.                               *)

\* What a step of the ledger does to the change a row names and to the last
\* success before it: nothing but, perhaps, a failure; the change succeeds; or
\* another one is accepted after it, once it has ended.
LEMMA LastFollows ==
    ASSUME LedgerInv, LedgerInv', [Next]_vars, History(ops, resources), History(ops', resources'),
           NEW r \in Resource, NEW h, h = resources[r].operation,
           NEW k, k = resources'[r].operation
    PROVE  \/ /\ k = h /\ LastOf(ops')[h] = LastOf(ops)[h]
              /\ h # None => \/ ops'[h].state \in Unfinished <=> ops[h].state \in Unfinished
                             \/ ops'[h].state = "failed"
           \/ k = h /\ h # None /\ ops[h].state \in Unfinished
              /\ ops'[h].state = "succeeded" /\ LastOf(ops')[h] = h
           \/ /\ k # None /\ ops[k].state = "none" /\ LastOf(ops')[k] = LastOf(ops)[h]
              /\ h # None => ops[h].state \notin Unfinished \/ ops'[h].state = "failed"
<1> DEFINE S == {o \in Op : ops[o].action \in Changes}
           Goal == \/ /\ k = h /\ LastOf(ops')[h] = LastOf(ops)[h]
                      /\ h # None => \/ ops'[h].state \in Unfinished <=> ops[h].state \in Unfinished
                                     \/ ops'[h].state = "failed"
                   \/ k = h /\ h # None /\ ops[h].state \in Unfinished
                      /\ ops'[h].state = "succeeded" /\ LastOf(ops')[h] = h
                   \/ /\ k # None /\ ops[k].state = "none" /\ LastOf(ops')[k] = LastOf(ops)[h]
                      /\ h # None => ops[h].state \notin Unfinished \/ ops'[h].state = "failed"
<1>1. /\ ops \in [Op -> OpRow] /\ ops' \in [Op -> OpRow]
      /\ resources \in [Resource -> ResourceRow] /\ \A d \in drafts : d \in Draft
  BY DEF LedgerInv, TypeOK
<1>2. /\ Ranked(ops) /\ Ranked(ops') /\ ChainsOfChanges(ops) /\ NamesOwn(ops, resources)
  BY DEF History, Chains
<1>3. h \in Op \cup {None} /\ (h # None => h \in S /\ ops[h].resource = r)
  BY <1>1, <1>2 DEF LedgerInv, Consistent, RowNames, NamesOwn, ResourceRow
<1>4. \A o \in S : ops[o].state # "none" /\ SameRequest(ops[o], ops'[o])
  <2>1. \A o \in S : ops[o].state # "none"
    BY NoneAssumption DEF LedgerInv, Unwritten, NoOp, Changes
  <2> QED
    BY <2>1, AcceptedStays
\* A part of the changes, none of which succeeds in this step.
<1>5. ASSUME NEW T \in SUBSET S, \A o \in T : ops[o].previous \in T \cup {None},
             \A o \in T : ops'[o].state = "succeeded" <=> ops[o].state = "succeeded"
      PROVE  \A o \in T \cup {None} : LastOf(ops')[o] = LastOf(ops)[o]
  <2>1. \A o \in T : /\ ops'[o].previous = ops[o].previous
                     /\ ops[o].previous \in T \cup {None}
                     /\ ops'[o].state = "succeeded" <=> ops[o].state = "succeeded"
    BY <1>4, <1>5 DEF SameRequest
  <2>2. T \in SUBSET Op
    OBVIOUS
  <2> HIDE DEF S
  <2> QED
    BY <1>1, <1>2, <2>1, <2>2, LastSame
<1>6. \A o \in S : ops[o].previous \in S \cup {None}
  BY <1>1, <1>2, ChainClosed
<1> HIDE DEF Goal
<1>7. CASE UNCHANGED <<ops, resources>>
  BY <1>7 DEF Goal
\* A request is accepted, perhaps over a plan that failed.
<1>8. ASSUME NEW d \in Draft, NEW q \in Resource, NEW table \in [Op -> OpRow],
             NEW rows \in [Resource -> ResourceRow],
             AcceptInto(table, rows, d, q),
             \A p \in Op : \/ table[p] = ops[p]
                           \/ (ops[p].state \in Unfinished /\ table[p].state = "failed"),
             \A p \in Op : ops[p].state \in Unfinished /\ ops[p].resource = q =>
                               table[p].state = "failed",
             \A p \in Resource : rows[p].operation = resources[p].operation
      PROVE  Goal
  <2>1. /\ ops[d.key].state = "none" /\ d.previous = rows[q].operation /\ d.key \in Op
        /\ ops' = [table EXCEPT ![d.key] = NewOp(d, q, rows[q].cost)]
        /\ resources' = [rows EXCEPT ![q] = AcceptedRow(d, rows[q])]
    BY <1>8 DEF AcceptInto, Unchanged, Draft
  <2>2. /\ ops'[d.key].state = "queued" /\ ops'[d.key].previous = resources[q].operation
        /\ \A p \in Op : p # d.key => ops'[p] = table[p]
    BY <1>8, <2>1 DEF NewOp
  <2>3. /\ q # r => k = h
        /\ q = r => k \in {h, d.key}
    BY <1>8, <2>1 DEF AcceptedRow, ResourceRow
  <2>4. \A o \in S : ops'[o].state = "succeeded" <=> ops[o].state = "succeeded"
    BY <1>4, <1>8, <2>1, <2>2 DEF Unfinished
  <2>5. \A o \in S \cup {None} : LastOf(ops')[o] = LastOf(ops)[o]
    BY <1>5, <1>6, <2>4
  <2>6. h # None => h # d.key /\ (ops'[h] = ops[h] \/ ops'[h].state = "failed")
    BY <1>3, <1>4, <1>8, <2>1, <2>2
  <2>7. CASE k = h
    BY <1>3, <2>5, <2>6, <2>7 DEF Goal
  <2>8. CASE q = r /\ k = d.key
    <3>1. LastOf(ops')[k] = LastOf(ops')[h]
      <4>1. \A o \in Op : LastOf(ops')[o] =
                IF ops'[o].state = "succeeded" THEN o ELSE LastOf(ops')[ops'[o].previous]
        BY <1>1, <1>2, LastDefined
      <4>2. d.key \in Op /\ k = d.key /\ ops'[k].state = "queued" /\ ops'[k].previous = h
        BY <2>1, <2>2, <2>8
      <4> QED
        BY <4>1, <4>2
    <3>2. k # None
      BY <2>1, <2>8, NoneAssumption
    <3>3. h # None => ops[h].state \notin Unfinished \/ ops'[h].state = "failed"
      BY <1>3, <1>8, <2>2, <2>6, <2>8
    <3> QED
      BY <1>3, <2>1, <2>5, <2>8, <3>1, <3>2, <3>3 DEF Goal
  <2> QED
    BY <2>3, <2>7, <2>8
<1>9. ASSUME NEW d \in drafts, Accept(d) PROVE Goal
  <2>1. PICK q \in Target(d) : Active(q) = {} /\ AcceptInto(ops, resources, d, q)
    BY <1>9 DEF Accept
  <2>2. d \in Draft /\ q \in Resource
    BY <1>1 DEF Target, Draft
  <2>3. \A p \in Op : ~(ops[p].state \in Unfinished /\ ops[p].resource = q)
    BY <2>1 DEF Active
  <2> QED
    BY <1>1, <1>8, <2>1, <2>2, <2>3
<1>10. ASSUME NEW d \in drafts, AcceptOverExpired(d) PROVE Goal
  <2>1. PICK q \in Target(d) : \E b \in Active(q) :
          AcceptInto([ops EXCEPT ![b].state = "failed"],
                     [resources EXCEPT ![q] = Restored(@, ops[b])], d, q)
    BY <1>10 DEF AcceptOverExpired
  <2>2. PICK b \in Active(q) :
          AcceptInto([ops EXCEPT ![b].state = "failed"],
                     [resources EXCEPT ![q] = Restored(@, ops[b])], d, q)
    BY <2>1
  <2> DEFINE new == [ops[b] EXCEPT !.state = "failed"]
             row == Restored(resources[q], ops[b])
             table == [ops EXCEPT ![b] = new]
             rows == [resources EXCEPT ![q] = row]
  <2>3. /\ d \in Draft /\ q \in Resource /\ b \in Op /\ ops[b] \in OpRow
        /\ ops[b].resource = q /\ ops[b].state \in Unfinished
    BY <1>1 DEF Target, Draft, Active
  <2>4. new \in OpRow /\ new.state = "failed"
    BY <2>3, Names, StateChanged
  <2>5. row \in ResourceRow /\ row.operation = resources[q].operation
    BY <1>1, <2>3, RestoredTyped DEF Restored, ResourceRow
  <2>6. \A p \in Op : ops[p].state \in Unfinished /\ ops[p].resource = q => p = b
    BY <2>3 DEF LedgerInv, Consistent, Exclusive, Busy
  <2>7. AcceptInto(table, rows, d, q)
    BY <2>2
  <2> HIDE DEF new, row
  <2>8. table \in [Op -> OpRow] /\ rows \in [Resource -> ResourceRow]
    BY <1>1, <2>4, <2>5
  <2>9. /\ table[b] = new /\ \A p \in Op : p # b => table[p] = ops[p]
        /\ \A p \in Resource : rows[p].operation = resources[p].operation
    BY <1>1, <2>3, <2>5
  <2> HIDE DEF table, rows
  <2> QED
    BY <1>8, <2>3, <2>4, <2>6, <2>7, <2>8, <2>9
<1>11. ASSUME NEW o \in Op, NEW new \in OpRow,
              Moves(o, new) \/ Fails(o, new) \/ Succeeds(o, new) \/ Checks(o, new)
       PROVE  Goal
  <2>1. /\ ops[o].state \in Unfinished /\ SameRequest(ops[o], new)
        /\ ops'[o] = new /\ \A p \in Op : p # o => ops'[p] = ops[p]
        /\ ops[o].resource \in Resource
    BY <1>1, <1>11 DEF Moves, Fails, Succeeds, Checks, Becomes, Busy, LedgerInv, Consistent,
       WellFormed, Unfinished
  <2>2. k = h
    <3>1. CASE Moves(o, new)
      BY <3>1 DEF Moves
    <3>2. CASE Fails(o, new)
      <4>1. Restored(resources[ops[o].resource], ops[o]).operation
                = resources[ops[o].resource].operation
        BY <1>1, <2>1 DEF Restored, ResourceRow
      <4> QED
        BY <1>1, <2>1, <3>2, <4>1 DEF Fails
    <3>4. CASE Checks(o, new)
      BY <1>1, <2>1, <3>4 DEF Checks, ResourceRow
    <3>3. CASE Succeeds(o, new)
      <4>1. resources[ops[o].resource].operation = o
        BY <2>1, <3>3 DEF Succeeds, SameRequest, LedgerInv, Consistent, RowIsHead, Busy,
           Unfinished
      <4> QED
        BY <1>1, <2>1, <3>3, <4>1 DEF Succeeds, Shows
    <3> QED
      BY <1>11, <3>1, <3>2, <3>3, <3>4
  <2>3. CASE ~Succeeds(o, new)
    <3>1. new.action = ops[o].action /\ (ops[o].action \in Changes => new.state # "succeeded")
      BY <1>11, <2>1, <2>3 DEF Moves, Fails, Checks, SameRequest, Unfinished, Changes
    <3>2. \A p \in S : ops'[p].state = "succeeded" <=> ops[p].state = "succeeded"
      BY <2>1, <3>1 DEF Unfinished
    <3>3. LastOf(ops')[h] = LastOf(ops)[h]
      BY <1>3, <1>5, <1>6, <3>2
    <3>4. h # None => \/ ops'[h].state \in Unfinished <=> ops[h].state \in Unfinished
                      \/ ops'[h].state = "failed"
      BY <1>3, <1>11, <2>1, <2>3, <3>1 DEF Moves, Fails, Checks, Changes
    <3> QED
      BY <2>2, <3>3, <3>4 DEF Goal
  <2>4. CASE Succeeds(o, new)
    <3>1. new.state = "succeeded" /\ o \in S
      BY <2>1, <2>4 DEF Succeeds, SameRequest
    <3>2. resources[ops[o].resource].operation = o
      BY <2>1, <3>1 DEF LedgerInv, Consistent, RowIsHead, Busy, Unfinished
    <3>3. CASE ops[o].resource = r
      BY <1>1, <1>2, <2>1, <2>2, <3>1, <3>2, <3>3, LastDefined, NoneAssumption DEF Goal
    <3>4. CASE ops[o].resource # r
      <4> DEFINE T == {p \in S : ops[p].resource = r}
      <4>1. \A p \in T : ops[p].previous \in T \cup {None}
        BY <1>1, <1>2, ChainClosed
      <4>2. \A p \in T : p # o /\ ops'[p] = ops[p]
        BY <2>1, <3>4
      <4>3. T \in SUBSET S
        OBVIOUS
      <4>4. h \in T \cup {None}
        BY <1>3
      <4> HIDE DEF T, S
      <4>5. LastOf(ops')[h] = LastOf(ops)[h]
        BY <1>5, <4>1, <4>2, <4>3, <4>4
      <4> QED
        BY <1>3, <2>2, <4>2, <4>4, <4>5 DEF Goal
    <3> QED
      BY <3>3, <3>4
  <2> QED
    BY <2>3, <2>4
<1> QED
  BY <1>7, <1>9, <1>10, <1>11, StepShape DEF Goal

\* Terraform changed something before it can be found to have succeeded.
Began(o) ==
    /\ step[o] \in {"applying", "applied", "recording"} => consumed[o] # None
    /\ ops[o].action \in Changes /\ ops[o].state = "succeeded" => consumed[o] # None

\* The row names a change that is in flight and began to apply.
Begun(h) == h # None /\ ops[h].state \in Unfinished /\ consumed[h] # None

\* The infrastructure is what the change in flight applied, or the last success.
Applied(r) ==
    LET h == resources[r].operation
    IN  infra[r] = IF Begun(h) THEN h ELSE LastOf(ops)[h]

InfraInv ==
    /\ \A o \in Op : Began(o)
    /\ \A r \in Resource : Applied(r)

\* A step in which no change succeeds.
NoSuccess ==
    \A p \in Op : \/ ops'[p] = ops[p]
                  \/ ops'[p].state # "succeeded"
                  \/ ops'[p].action \notin Changes

\* Requests, decisions and interruptions make no change succeed.
LEMMA Unsuccessful ==
    ASSUME TypeOK, \A o \in Op : ops[o].state = "none" => ops[o] = NoOp,
           \/ \E d \in drafts : Accept(d) \/ AcceptOverExpired(d)
           \/ \E o \in Op : \/ Execute(o) \/ ExecuteExpired(o) \/ Discard(o) \/ PlanAges(o)
                            \/ Interrupted(o)
    PROVE  NoSuccess
<1>1. ops \in [Op -> OpRow] /\ \A d \in drafts : d.key \in Op
  BY DEF TypeOK, Draft
<1>2. ASSUME NEW table, NEW rows, NEW d \in drafts, NEW r, AcceptInto(table, rows, d, r),
             table \in [Op -> OpRow],
             \A p \in Op : table[p] = ops[p] \/ table[p].state = "failed"
      PROVE  NoSuccess
  <2> DEFINE new == NewOp(d, r, rows[r].cost)
  <2>1. ops' = [table EXCEPT ![d.key] = new] /\ new.state = "queued"
    BY <1>2 DEF AcceptInto, NewOp
  <2> HIDE DEF new
  <2> QED
    BY <1>1, <1>2, <2>1 DEF NoSuccess
<1>3. ASSUME NEW d \in drafts, Accept(d) \/ AcceptOverExpired(d) PROVE NoSuccess
  <2>1. CASE Accept(d)
    BY <1>1, <1>2, <2>1 DEF Accept
  <2>2. CASE AcceptOverExpired(d)
    <3>1. PICK r : \E b \in Op : AcceptInto([ops EXCEPT ![b].state = "failed"],
                                           [resources EXCEPT ![r] = Restored(@, ops[b])], d, r)
      BY <2>2 DEF AcceptOverExpired, Active
    <3>2. PICK b \in Op : AcceptInto([ops EXCEPT ![b].state = "failed"],
                                    [resources EXCEPT ![r] = Restored(@, ops[b])], d, r)
      BY <3>1
    <3> DEFINE table == [ops EXCEPT ![b].state = "failed"]
    <3>3. /\ table \in [Op -> OpRow]
          /\ \A p \in Op : table[p] = ops[p] \/ table[p].state = "failed"
      <4>1. [ops[b] EXCEPT !.state = "failed"] \in OpRow
        BY <1>1, Names, StateChanged
      <4> QED
        BY <1>1, <4>1 DEF OpRow
    <3> HIDE DEF table
    <3> QED
      BY <1>2, <3>2, <3>3 DEF table
  <2> QED
    BY <1>3, <2>1, <2>2
<1>4. ASSUME NEW o \in Op, Execute(o) \/ ExecuteExpired(o) \/ Discard(o) \/ Interrupted(o)
      PROVE  NoSuccess
  <2>1. \E s \in {"apply_queued", "failed", "uncertain"} : ops' = [ops EXCEPT ![o].state = s]
    BY <1>4 DEF Execute, ExecuteExpired, Discard, ReleasePlan, Interrupted
  <2> QED
    BY <1>1, <2>1 DEF NoSuccess, OpRow
<1>5. ASSUME NEW o \in Op, PlanAges(o) PROVE NoSuccess
  <2>1. ops[o].state = "planned" /\ ops' = [ops EXCEPT ![o].aged = TRUE]
    BY <1>5 DEF PlanAges
  <2> QED
    BY <1>1, <2>1 DEF NoSuccess, OpRow
<1> QED
  BY <1>3, <1>4, <1>5

\* An operator who reports success, and every activity that records one, found
\* that the apply had begun.
LEMMA BeganStep ==
    ASSUME CarefulOperator, CarefulInv, Base', [PNext]_pvars, \A o \in Op : Began(o)
    PROVE  \A o \in Op : Began(o)'
<1>t. /\ Base /\ PhaseTypeOK /\ TypeOK /\ LedgerInv /\ ops \in [Op -> OpRow]
      /\ \A o \in Op : ops[o] \in OpRow
  BY DEF CarefulInv, Base, LedgerInv, TypeOK
<1>q. ASSUME UNCHANGED <<step, consumed>>, NoSuccess PROVE \A o \in Op : Began(o)'
  BY <1>q DEF Began, NoSuccess
<1>u. \A o \in Op : ops[o].state = "none" => ops[o] = NoOp
  BY <1>t DEF LedgerInv, Unwritten
<1>v. ops' = ops => NoSuccess
  BY DEF NoSuccess
<1>1. CASE Ask \/ UNCHANGED pvars
  BY <1>1, <1>q, <1>v DEF Ask, ValidateCreate, ValidateUpdate, ValidateDestroy, ValidateDriftCheck,
     Validate, DropRequest, pvars, vars, phaseVars, planVars
<1>2. ASSUME NEW d \in drafts, AcceptRequest(d) PROVE \A o \in Op : Began(o)'
  BY <1>t, <1>u, <1>2, <1>q, Unsuccessful DEF AcceptRequest, planVars
<1>3. ASSUME NEW o \in Op, RemoveExpired(o) \/ ReleaseLost(o) PROVE \A p \in Op : Began(p)'
  BY <1>3, <1>q, <1>v DEF RemoveExpired, ReleaseLost, vars, planVars
<1>4. ASSUME NEW o \in Op, ReleasePlanFile(o) \/ Approve(o) PROVE \A p \in Op : Began(p)'
  BY <1>t, <1>u, <1>4, <1>q, Unsuccessful DEF ReleasePlanFile, Approve, planVars, phaseVars
<1>5. ASSUME NEW o \in Op, NEW ph \in Phase,
             Dispatch(o, ph) \/ PhaseFails(o, ph) \/ PhaseTimesOut(o, ph) \/ Mark(o, ph)
      PROVE  \A p \in Op : Began(p)'
  <2>1. UNCHANGED <<step, consumed>> /\ (ops' = ops \/ Interrupted(o))
    BY <1>5 DEF Dispatch, PhaseFails, PhaseTimesOut, Mark, planVars, vars
  <2> QED
    BY <1>t, <1>u, <1>q, <1>v, <2>1, Unsuccessful
<1>6. ASSUME NEW o \in Op, OperatorDecides(o) PROVE \A p \in Op : Began(p)'
  <2>1. UNCHANGED <<step, consumed>>
    BY <1>6 DEF OperatorDecides, phaseVars, planVars
  <2>2. \/ /\ ops' = [ops EXCEPT ![o].state = "succeeded", ![o].recon = "succeeded"]
           /\ consumed[o] # None
        \/ ops' = [ops EXCEPT ![o].state = "failed", ![o].recon = "failed"]
    BY <1>6 DEF OperatorDecides, ReconcileSucceeded, ReconcileFailed
  <2>3. /\ ops'[o].state = "succeeded" => consumed[o] # None
        /\ \A p \in Op : p # o => ops'[p] = ops[p]
    BY <1>t, <2>2 DEF OpRow
  <2> QED
    BY <2>1, <2>3 DEF Began
<1>7. ASSUME NEW o \in Op, Act(o) PROVE \A p \in Op : Began(p)'
  <2>1. ASSUME NEW new, step' = [step EXCEPT ![o] = new], consumed' = consumed,
               \A p \in Op : p # o => ops'[p] = ops[p],
               new \in {"applying", "applied", "recording"} => consumed[o] # None,
               \/ ops'[o] = ops[o] \/ ops'[o].state # "succeeded" \/ ops'[o].action \notin Changes
               \/ consumed[o] # None
        PROVE  \A p \in Op : Began(p)'
    BY <1>t, <2>1 DEF Began, PhaseTypeOK
  <2>2. CASE StartPlan(o) \/ StartApply(o) \/ ReportPlanned(o)
    <3>1. /\ \E s \in {"planning", "applying"} : ops' = [ops EXCEPT ![o].state = s]
             \/ ops' = [ops EXCEPT ![o].state = "planned", ![o].digest = TRUE]
          /\ \E new \in {"preparing", "checking", "idle"} : step' = [step EXCEPT ![o] = new]
          /\ consumed' = consumed
      BY <2>2 DEF StartPlan, StartApply, ReportPlanned, ClaimPlan, ClaimApply, FinishPlanned,
         Ends, Goto, planVars
    <3>2. ops'[o].state # "succeeded" /\ \A p \in Op : p # o => ops'[p] = ops[p]
      BY <1>t, <3>1 DEF OpRow
    <3> QED
      BY <2>1, <3>1, <3>2
  <2>3. CASE Prepare(o) \/ WritePlan(o) \/ PlanFails(o) \/ CheckPlan(o) \/ ApplyRefused(o)
             \/ ApplyBreaks(o) \/ RemoveFailed(o)
    <3>1. /\ \E new \in {"prepared", "written", "failing", "failed", "checked", "broken"} :
                 step' = [step EXCEPT ![o] = new]
          /\ ops' = ops /\ consumed' = consumed
      BY <2>3 DEF Prepare, WritePlan, PlanFails, CheckPlan, ApplyRefused, ApplyBreaks,
         RemoveFailed, Failing, Goto, planVars, vars
    <3> QED
      BY <2>1, <3>1
  <2>4. CASE ApplyCompletes(o) \/ RemoveApplied(o)
    <3>1. /\ \E new \in {"applied", "recording", "broken"} : step' = [step EXCEPT ![o] = new]
          /\ ops' = ops /\ consumed' = consumed /\ step[o] \in {"applying", "applied"}
      BY <2>4 DEF ApplyCompletes, RemoveApplied, Goto, planVars, vars
    <3>2. consumed[o] # None
      BY <3>1 DEF Began
    <3> QED
      BY <2>1, <3>1, <3>2
  <2>5. CASE ApplyBegins(o)
    <3>1. /\ step' = [step EXCEPT ![o] = "applying"] /\ ops' = ops
          /\ consumed' = [consumed EXCEPT ![o] = file[Home(o)]] /\ file[Home(o)] # None
      BY <2>5 DEF ApplyBegins, Goto, vars
    <3> QED
      BY <1>t, <3>1 DEF Began, PhaseTypeOK
  <2>6. CASE ReportDriftCheck(o)
    <3>1. /\ ops[o].action = "drift_check" /\ \E s : ops' = [ops EXCEPT ![o].state = s]
          /\ step' = [step EXCEPT ![o] = "idle"] /\ consumed' = consumed
      BY <2>6 DEF ReportDriftCheck, FinishDriftCheck, Finish, Ends, Goto, planVars
    <3>2. ops'[o].action \notin Changes /\ \A p \in Op : p # o => ops'[p] = ops[p]
      BY <1>t, <3>1 DEF OpRow, Changes
    <3> QED
      BY <2>1, <3>1, <3>2
  <2>7. ASSUME NEW s \in {"planning", "applying"}, Report(o, s) PROVE \A p \in Op : Began(p)'
    <3>1. /\ \/ step[o] = "recording" /\ ops' = [ops EXCEPT ![o].state = "succeeded"]
             \/ ops' = [ops EXCEPT ![o].state = "failed"]
             \/ ops' = [ops EXCEPT ![o].state = "uncertain"]
             \/ ops' = ops
          /\ step' = [step EXCEPT ![o] = "idle"] /\ consumed' = consumed
      BY <2>7 DEF Report, FinishFailed, FinishSucceeded, FinishUncertain, Finish, LateResult,
         Ends, Goto, planVars
    <3>2. step[o] = "recording" => consumed[o] # None
      BY DEF Began
    <3>3. /\ ops'[o] = ops[o] \/ ops'[o].state # "succeeded" \/ consumed[o] # None
          /\ \A p \in Op : p # o => ops'[p] = ops[p]
      BY <1>t, <3>1, <3>2 DEF OpRow
    <3> QED
      BY <2>1, <3>1, <3>3
  <2>8. ASSUME NEW s \in {"planning", "applying"}, WorkerDies(o, s) PROVE \A p \in Op : Began(p)'
    <3>1. step' = [step EXCEPT ![o] = "idle"] /\ ops' = ops /\ consumed' = consumed
      BY <2>8 DEF WorkerDies, WorkerLost, Goto, planVars
    <3> QED
      BY <2>1, <3>1
  <2>9. ASSUME NEW s \in {"prepared", "applying"}, OrphanEnds(o, s) PROVE \A p \in Op : Began(p)'
    BY <2>9, <1>q, <1>v DEF OrphanEnds, vars, planVars
  <2> QED
    BY <1>7, <2>2, <2>3, <2>4, <2>5, <2>6, <2>7, <2>8, <2>9 DEF Act
<1> QED
  BY <1>1, <1>2, <1>3, <1>4, <1>5, <1>6, <1>7 DEF PNext, Serve, Orchestrate

\* Only the beginning of an apply changes the infrastructure.
LEMMA OnlyAppliesChange ==
    ASSUME [PNext]_pvars
    PROVE  UNCHANGED <<infra, consumed>> \/ \E o \in Op : ApplyBegins(o)
<1>1. CASE Ask \/ UNCHANGED pvars \/ \E d \in drafts : AcceptRequest(d)
  BY <1>1 DEF Ask, AcceptRequest, pvars, phaseVars, planVars, diskVars
<1>2. ASSUME NEW o \in Op, RemoveExpired(o) \/ ReleaseLost(o) \/ ReleasePlanFile(o) \/ Approve(o)
                           \/ OperatorDecides(o)
      PROVE  UNCHANGED <<infra, consumed>>
  BY <1>2 DEF RemoveExpired, ReleaseLost, ReleasePlanFile, Approve, OperatorDecides, phaseVars,
     planVars, diskVars
<1>3. ASSUME NEW o \in Op, NEW ph \in Phase,
             Dispatch(o, ph) \/ PhaseFails(o, ph) \/ PhaseTimesOut(o, ph) \/ Mark(o, ph)
      PROVE  UNCHANGED <<infra, consumed>>
  BY <1>3 DEF Dispatch, PhaseFails, PhaseTimesOut, Mark, planVars, diskVars
<1>4. ASSUME NEW o \in Op, Act(o), ~ApplyBegins(o) PROVE UNCHANGED <<infra, consumed>>
  <2>1. ASSUME NEW s \in {"planning", "applying"}, Report(o, s) \/ WorkerDies(o, s)
        PROVE  UNCHANGED <<infra, consumed>>
    BY <2>1 DEF Report, WorkerDies, planVars, diskVars
  <2>2. ASSUME NEW s \in {"prepared", "applying"}, OrphanEnds(o, s)
        PROVE  UNCHANGED <<infra, consumed>>
    BY <2>2 DEF OrphanEnds, planVars
  <2>3. CASE StartPlan(o) \/ StartApply(o) \/ Prepare(o) \/ WritePlan(o) \/ ReportPlanned(o)
             \/ PlanFails(o) \/ ReportDriftCheck(o) \/ CheckPlan(o) \/ ApplyRefused(o)
             \/ ApplyCompletes(o) \/ ApplyBreaks(o) \/ RemoveApplied(o) \/ RemoveFailed(o)
    BY <2>3 DEF StartPlan, StartApply, Prepare, WritePlan, ReportPlanned, PlanFails,
       ReportDriftCheck, CheckPlan, ApplyRefused, ApplyCompletes, ApplyBreaks, RemoveApplied,
       RemoveFailed, planVars, diskVars
  <2> QED
    BY <1>4, <2>1, <2>2, <2>3 DEF Act
<1> QED
  BY <1>1, <1>2, <1>3, <1>4 DEF PNext, Serve, Orchestrate

\* The infrastructure keeps up with the ledger: a failure changed nothing, a
\* success had been applied, and a change that is accepted finds its resource
\* as the last success left it.
LEMMA InfraStep ==
    ASSUME CarefulOperator, CarefulInv, CarefulInv', [PNext]_pvars, HistoryInv, HistoryInv',
           InfraInv
    PROVE  InfraInv'
<1>t. /\ Base /\ Base' /\ PhaseTypeOK /\ LedgerInv /\ LedgerInv' /\ ops \in [Op -> OpRow]
      /\ resources \in [Resource -> ResourceRow] /\ resources' \in [Resource -> ResourceRow]
  BY DEF CarefulInv, Base, LedgerInv, TypeOK
<1>1. \A o \in Op : Began(o)'
  BY <1>t, BeganStep DEF InfraInv
<1>2. [Next]_vars
  BY PhaseStepIsLedgerStep
<1>h. History(ops, resources) /\ History(ops', resources')
  <2>1. History(ops, resources)
    BY DEF HistoryInv
  <2>2. History(ops', resources')
    BY DEF HistoryInv, History, Chains, Ranked, Chained, Previous, ChainsOfChanges, NamesOwn,
       OneHead, RowsShowLast, ShowsLast, LastOf, IsLast
  <2> QED
    BY <2>1, <2>2
<1>n. \A r \in Resource : \A o : o = resources[r].operation /\ o # None =>
          o \in Op /\ ops[o].action \in Changes /\ ops[o].resource = r
  BY <1>t, <1>h DEF LedgerInv, Consistent, RowNames, History, Chains, NamesOwn, ResourceRow
<1>p. \A r \in Resource : \A o : o = resources'[r].operation /\ o # None =>
          o \in Op /\ ops'[o].action \in Changes /\ ops'[o].resource = r
  BY <1>t, <1>h DEF LedgerInv, Consistent, RowNames, History, Chains, NamesOwn, ResourceRow
<1>l. LastOf(ops)' = LastOf(ops')
  BY DEF LastOf, IsLast
<1>3. ASSUME UNCHANGED <<infra, consumed>>, NEW r \in Resource,
             NEW h, h = resources[r].operation, NEW k, k = resources'[r].operation
      PROVE  Applied(r)'
  <2>1. infra[r] = IF Begun(h) THEN h ELSE LastOf(ops)[h]
    BY <1>3 DEF InfraInv, Applied
  <2>2. /\ \A o \in Op : ops[o].state = "none" => consumed[o] = None
        /\ \A o \in Op : ops'[o].state = "failed" => consumed[o] = None
    BY <1>3 DEF CarefulInv, OpInv
  <2>3. /\ h # None => h \in Op /\ ops[h].action \in Changes
        /\ k # None => k \in Op /\ ops'[k].action \in Changes
    BY <1>3, <1>n, <1>p
  <2>4. \/ /\ k = h /\ LastOf(ops')[h] = LastOf(ops)[h]
           /\ h # None => \/ ops'[h].state \in Unfinished <=> ops[h].state \in Unfinished
                          \/ ops'[h].state = "failed"
        \/ k = h /\ h # None /\ ops[h].state \in Unfinished
           /\ ops'[h].state = "succeeded" /\ LastOf(ops')[h] = h
        \/ /\ k # None /\ ops[k].state = "none" /\ LastOf(ops')[k] = LastOf(ops)[h]
           /\ h # None => ops[h].state \notin Unfinished \/ ops'[h].state = "failed"
    BY <1>t, <1>2, <1>3, <1>h, LastFollows
  <2>5. Begun(k)' <=> k # None /\ ops'[k].state \in Unfinished /\ consumed[k] # None
    BY <1>3 DEF Begun
  <2> SUFFICES infra[r] = IF Begun(k)' THEN k ELSE LastOf(ops')[k]
    BY <1>3, <1>l, <2>5 DEF Applied, Begun
  <2>6. CASE k = h /\ LastOf(ops')[h] = LastOf(ops)[h]
             /\ (h # None => \/ ops'[h].state \in Unfinished <=> ops[h].state \in Unfinished
                             \/ ops'[h].state = "failed")
    BY <2>1, <2>2, <2>3, <2>5, <2>6 DEF Begun, Unfinished
  <2>7. CASE k = h /\ h # None /\ ops[h].state \in Unfinished
             /\ ops'[h].state = "succeeded" /\ LastOf(ops')[h] = h
    <3>1. consumed[h] # None
      BY <1>1, <1>3, <2>3, <2>7 DEF Began
    <3> QED
      BY <2>1, <2>5, <2>7, <3>1 DEF Begun, Unfinished
  <2>8. CASE k # None /\ ops[k].state = "none" /\ LastOf(ops')[k] = LastOf(ops)[h]
             /\ (h # None => ops[h].state \notin Unfinished \/ ops'[h].state = "failed")
    BY <2>1, <2>2, <2>3, <2>5, <2>8 DEF Begun
  <2> QED
    BY <2>4, <2>6, <2>7, <2>8
<1>4. ASSUME NEW o \in Op, ApplyBegins(o), NEW r \in Resource PROVE Applied(r)'
  <2>1. /\ step[o] = "checked" /\ file[Home(o)] # None
        /\ consumed' = [consumed EXCEPT ![o] = file[Home(o)]]
        /\ infra' = [infra EXCEPT ![Home(o)] = o]
        /\ UNCHANGED vars
    BY <1>4 DEF ApplyBegins
  <2>2. OpInv(o) /\ Working(o)
    BY <2>1 DEF CarefulInv, Working
  <2>3. ops[o].state \in {"applying", "uncertain"} /\ Home(o) \in Resource
    BY <1>t, <2>1, <2>2, HomeTyped DEF OpInv, ApplySteps
  <2>4. ops[o].action \in Changes
    BY <1>t, <2>3, CheckStates DEF LedgerInv, Consistent, WellFormed, Changes
  <2>5. resources[Home(o)].operation = o
    BY <1>t, <2>3, <2>4 DEF LedgerInv, Consistent, RowIsHead, Busy, Unfinished, Home
  <2>6. ops' = ops /\ resources' = resources /\ LastOf(ops)' = LastOf(ops)
    BY <1>l, <2>1 DEF vars
  <2>7. CASE r = Home(o)
    <3>1. Begun(o)' /\ infra'[r] = o
      BY <1>t, <2>1, <2>3, <2>6, <2>7, NoneAssumption DEF Begun, PhaseTypeOK, Unfinished
    <3> QED
      BY <2>5, <2>6, <2>7, <3>1 DEF Applied, Begun
  <2>8. CASE r # Home(o)
    <3> DEFINE h == resources[r].operation
    <3>1. h # o /\ (h # None => h \in Op)
      BY <1>n, <2>8, NoneAssumption DEF Home
    <3>2. infra'[r] = infra[r] /\ (h # None => consumed'[h] = consumed[h])
      BY <1>t, <2>1, <2>3, <2>8, <3>1 DEF PhaseTypeOK
    <3>3. Begun(h)' <=> Begun(h)
      BY <2>6, <3>2 DEF Begun
    <3>4. infra[r] = IF Begun(h) THEN h ELSE LastOf(ops)[h]
      BY DEF InfraInv, Applied
    <3> QED
      BY <2>6, <3>2, <3>3, <3>4 DEF Applied, Begun
  <2> QED
    BY <2>7, <2>8
<1> QED
  BY <1>1, <1>3, <1>4, OnlyAppliesChange DEF InfraInv

\* The infrastructure of an idle resource is what the last change that succeeded
\* applied, for any number of changes that were planned, refused, interrupted or
\* given up since (record_result, reconcile and the activities together).
THEOREM InfrastructureMatches ==
    ASSUME CarefulOperator
    PROVE  PSpec => []InfraMatchesRow
<1>1. PInit /\ LedgerInv /\ HistoryInv => InfraInv
  <2> SUFFICES ASSUME PInit, LedgerInv, HistoryInv PROVE InfraInv
    OBVIOUS
  <2>1. \A o \in Op : step[o] = "idle" /\ ops[o].state = "none" /\ consumed[o] = None
    BY DEF PInit, Init, NoOp
  <2>2. \A r \in Resource : resources[r].operation = None /\ infra[r] = None
    BY DEF PInit, Init, NoResource
  <2>3. LastOf(ops)[None] = None
    BY LastDefined DEF LedgerInv, TypeOK, HistoryInv, History, Chains
  <2> QED
    BY <2>1, <2>2, <2>3 DEF InfraInv, Began, Applied, Begun
<1>2. PSpec => []HistoryInv
  BY PhasesImplementLedger, HistorySound, PTL
<1>3. PSpec => []InfraInv
  <2>1. CarefulInv /\ CarefulInv' /\ HistoryInv /\ HistoryInv' /\ InfraInv /\ [PNext]_pvars
            => InfraInv'
    BY InfraStep
  <2> QED
    BY <1>1, <1>2, <2>1, Careful, LedgerSoundInPhases, PTL DEF PSpec
<1>4. LedgerInv /\ HistoryInv /\ InfraInv => InfraMatchesRow
  <2> SUFFICES ASSUME LedgerInv, History(ops, resources), InfraInv, NEW r \in Resource,
                      NEW h \in Heads(r),
                      ~ \E o \in Active(r) : ops[o].action # "drift_check"
               PROVE  infra[r] = LastSuccess[h]
    BY DEF InfraMatchesRow, HistoryInv
  <2>1. /\ h \in Op /\ ops[h].resource = r /\ ops[h].action # "drift_check"
        /\ \A p \in Op : ops[p].previous = h => ops[p].action = "drift_check"
    BY DEF Heads
  <2>2. ops[h].action \in Changes
    BY <2>1, NoneAssumption DEF LedgerInv, Consistent, WellFormed, Unwritten, NoOp
  <2>3. resources[r].operation = h
    BY <2>1, <2>2 DEF History, Chains, OneHead, Changes
  <2>4. ~Begun(h)
    BY <2>1 DEF Begun, Active
  <2>5. LastSuccess = LastOf(ops)
    BY DEF LastSuccess, LastOf, IsLast
  <2> QED
    BY <2>3, <2>4, <2>5 DEF InfraInv, Applied
<1> QED
  BY <1>2, <1>3, <1>4, LedgerSoundInPhases, PTL
=============================================================================
