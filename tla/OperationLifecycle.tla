------------------------- MODULE OperationLifecycle -------------------------
(***************************************************************************)
(* What the ledger promises of operations and resources, without rows,     *)
(* requests, costs or workers: a resource is held by at most one unfinished *)
(* operation, an operation moves along the documented state diagram only   *)
(* while it holds its resource, and ending releases the resource.          *)
(***************************************************************************)
CONSTANTS Op, Resource, None

VARIABLES
    state,   \* the state of each operation
    holder   \* the unfinished operation of each resource, or None

vars == <<state, holder>>

\* Edges that keep the resource.  Nothing automatic leaves "uncertain".
Moves == {<<"queued", "planning">>, <<"planning", "planned">>,
          <<"planned", "apply_queued">>, <<"apply_queued", "applying">>,
          <<"queued", "uncertain">>, <<"planning", "uncertain">>,
          <<"apply_queued", "uncertain">>, <<"applying", "uncertain">>}

\* Edges that release it.  A drift check ends from "planning", or from
\* "queued" when its phase failed before the claim.
Ends == {<<"queued", "failed">>,
         <<"planning", "succeeded">>, <<"planning", "failed">>,
         <<"planned", "failed">>,
         <<"applying", "succeeded">>, <<"applying", "failed">>,
         <<"uncertain", "succeeded">>, <<"uncertain", "failed">>}

Init ==
    /\ state = [o \in Op |-> "none"]
    /\ holder = [r \in Resource |-> None]

Begin(o, r) ==
    /\ state[o] = "none" /\ holder[r] = None
    /\ state' = [state EXCEPT ![o] = "queued"]
    /\ holder' = [holder EXCEPT ![r] = o]

Move(o, r, new) ==
    /\ holder[r] = o
    /\ <<state[o], new>> \in Moves
    /\ state' = [state EXCEPT ![o] = new]
    /\ UNCHANGED holder

End(o, r, new) ==
    /\ holder[r] = o
    /\ <<state[o], new>> \in Ends
    /\ state' = [state EXCEPT ![o] = new]
    /\ holder' = [holder EXCEPT ![r] = None]

\* A plan that expired gives way to the next operation in one step.
Replace(o, b, r) ==
    /\ holder[r] = b /\ state[b] = "planned"
    /\ state[o] = "none"
    /\ state' = [state EXCEPT ![b] = "failed", ![o] = "queued"]
    /\ holder' = [holder EXCEPT ![r] = o]

Next ==
    \E o \in Op, r \in Resource :
        \/ Begin(o, r)
        \/ \E new \in {"planning", "planned", "apply_queued", "applying", "uncertain"} :
               Move(o, r, new)
        \/ \E new \in {"succeeded", "failed"} : End(o, r, new)
        \/ \E b \in Op : Replace(o, b, r)

Spec == Init /\ [][Next]_vars
=============================================================================
