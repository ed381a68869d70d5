----------------------------- MODULE CostHistory -----------------------------
(***************************************************************************)
(* The cost history of a resource (src/app/cost_history.py): what it       *)
(* reserved over time, replayed from its operations, which the ledger      *)
(* stores anyway.  Nothing is recorded for the history itself, so it is    *)
(* right only if its rules repeat those of the ledger's transactions, and  *)
(* the code papers over a difference with a last step to the stored row.   *)
(*                                                                         *)
(* Time is left out: the timestamps of the steps follow the order of the   *)
(* operations, and a day's amount is the last value before its end.        *)
(***************************************************************************)
EXTENDS OperationLedger, Sequences, SequencesExt

\* What the resource reserves: its row, or nothing once destroyed.
_current(r) == IF resources[r].state = "destroyed" THEN 0 ELSE resources[r].cost

\* What the resource held before its first operation.
initial(op) == IF op.action = "destroy" THEN op.cost ELSE op.previousCost

\* Faulty variant: an accepted deploy counts what it asked for.
accepted_as_asked(op) == op.cost

\* What an accepted deploy reserves at once.
accepted(op) == Larger(op.previousCost, op.cost)

\* The amounts that one operation adds to the history of its resource, given
\* whether the resource is `destroyed`: a success leaves the requested amount or
\* none; a failed deploy restores the previous one; a failed or unfinished
\* destroy changes nothing.
moves(op, destroyed) ==
    LET amount(cost) == <<IF destroyed THEN 0 ELSE cost>>
        reserved == IF op.action = "deploy" THEN amount(accepted(op)) ELSE <<>>
    IN CASE op.state = "succeeded" -> reserved \o <<IF op.action = "destroy" THEN 0 ELSE op.cost>>
         [] op.state = "failed" /\ op.action = "deploy" -> reserved \o amount(op.previousCost)
         [] OTHER -> reserved

\* The resource was destroyed when the change after `o` was accepted.
Destroyed(o) == LET last == LastSuccess[o] IN last # None /\ ops[last].action = "destroy"

\* The amounts held from before the first change of a resource up to change o.
Held[o \in Op] ==
    (IF ops[o].previous = None THEN <<initial(ops[o])>> ELSE Held[ops[o].previous])
        \o moves(ops[o], Destroyed(ops[o].previous))

\* The history of a resource, up to the newest change, which its row names.
\* replay() adds a last step to the row's amount where the rules end elsewhere.
\* A resource without changes is flat.
replay(r) ==
    IF resources[r].operation = None THEN <<_current(r)>> ELSE Held[resources[r].operation]

-----------------------------------------------------------------------------
(* Property                                                                 *)

\* The replayed amount is what admission counts for the resource, through
\* rejected plans, expiries, reconciliations, destroys and work accepted on a
\* destroyed resource: the correction of replay() is never needed.
ReplayExplainsRow ==
    \A r \in Resource : Last(replay(r)) = _current(r)
=============================================================================
