------------------------------- MODULE MCTeams -------------------------------
(* Small instances of Teams for TLC.                                        *)
EXTENDS Teams, TLC

CONSTANTS finance, platform, o1, o2, r1, members, staff, storage, plain, azure, t1, t2, sub

\* A team with one environment, whose only cloud has the target `place`.
Placed(place, limit, groups, patterns) ==
    [groups |-> groups, patterns |-> patterns,
     envs |-> [dev |-> [subscription |-> None, targets |-> azure :> place, groups |-> {},
                        budget |-> limit]]]

\* The environment before it had targets: a subscription, for patterns without a cloud.
Legacy ==
    [groups |-> {members}, patterns |-> {plain},
     envs |-> [dev |-> [subscription |-> sub, targets |-> << >>, groups |-> {}, budget |-> 2]]]

\* `finance` halves its budget and shares a group, or moves its environment.
MCDocs ==
    finance :> {Placed(t1, 2, {members}, {storage}), Placed(t1, 1, {members, staff}, {storage}),
                Placed(t2, 2, {members}, {}), Legacy}
        @@ platform :> {Placed(t1, None, {staff}, {storage})}

MCCloud == storage :> azure @@ plain :> None
MCPrice == storage :> {2} @@ plain :> {2}

MCRevisions == finance :> 4 @@ platform :> 1
MCAcknowledge == o1 :> Code @@ o2 :> {}
=============================================================================
