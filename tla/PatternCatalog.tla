---------------------------- MODULE PatternCatalog ----------------------------
(***************************************************************************)
(* Patterns, versions and commits (src/app/catalog.py, promotion.py and    *)
(* the parts of policy.py between them).  A pattern is a git repository;   *)
(* its versions are tags, which its authors can move although they should  *)
(* not.  Every request resolves its version afresh to a commit, checks the *)
(* commit it expects, reads the pattern from a checkout that all requests  *)
(* share, and is then accepted with that commit.                           *)
(*                                                                         *)
(* A promotion deploys what a ready resource runs into another             *)
(* environment, an upgrade updates the resource itself; both read its row  *)
(* before anything else.  Only the definition in the row is kept here: the *)
(* rest of an operation's life is in OperationLedger.                      *)
(***************************************************************************)
EXTENDS Integers, FiniteSets, FiniteSetsExt

CONSTANTS
    Version,      \* semver tags, by their order
    Commit,       \* commits of the pattern's repository
    Process,      \* request threads of an API process
    CacheMax,     \* _CHECK_CACHE_MAX
    MaxMoves,     \* bound: tags published or moved
    MaxRequests,  \* bound: requests
    None

ASSUME CatalogAssumption ==
    /\ Version \subseteq Nat \ {0} /\ Version # {} /\ Commit # {}
    /\ None \notin Version \cup Commit \cup Process
    /\ CacheMax \in Nat \ {0} /\ MaxMoves \in Nat /\ MaxRequests \in Nat

VARIABLES
    tag,        \* the commit each version points at now
    disk,       \* the cached checkout of each commit, [files, ready]
    holder,     \* the process that holds the lock of a commit's checkout
    cache,      \* commits whose findings are cached (_check_cache)
    key,        \* the commit of the default version's findings (_default_key)
    row,        \* the resource: its definition, newest operation and work in flight
    req,        \* the request of each process
    described,  \* <<version, commit>> pairs that callers were told
    moves, requests,
    ran,        \* commits the resource was deployed from (history)
    defaults,   \* commits the default version has pointed at (history)
    promoted    \* commits promotions were accepted with (history)

catalogVars == <<disk, holder, cache, key>>
history == <<ran, defaults, promoted>>
vars == <<tag, catalogVars, row, req, described, moves, requests, history>>

Idle == [pc |-> "idle", kind |-> "none", asked |-> None, version |-> None,
         expected |-> None, commit |-> None, seen |-> 0]

\* Kinds of request that change the resource itself.
Changes == {"update", "upgrade"}

-----------------------------------------------------------------------------
(* Tags                                                                     *)

versions(t) == {v \in Version : t[v] # None}

\* The version of a request that names none: the newest (default_version is unset).
Default(t) == Max(versions(t))

\* One version is published, and the resource's first deploy of it is accepted.
Init ==
    /\ \E v \in Version, c \in Commit :
           /\ tag = [w \in Version |-> IF w = v THEN c ELSE None]
           /\ row = [state |-> "pending", version |-> v, commit |-> c, operation |-> 1,
                     change |-> <<v, c>>]
           /\ defaults = {c}
    /\ disk = [c \in Commit |-> [files |-> "none", ready |-> FALSE]]
    /\ holder = [c \in Commit |-> None]
    /\ cache = {} /\ key = None
    /\ req = [p \in Process |-> Idle]
    /\ described = {} /\ moves = 0 /\ requests = 0
    /\ ran = {} /\ promoted = {}

\* The authors publish a version, or move its tag to another commit.
Publish(v, c) ==
    /\ moves < MaxMoves /\ moves' = moves + 1
    /\ tag[v] # c
    /\ tag' = [tag EXCEPT ![v] = c]
    /\ defaults' = defaults \cup {tag'[Default(tag')]}
    /\ UNCHANGED <<catalogVars, row, req, described, requests, ran, promoted>>

-----------------------------------------------------------------------------
(* Requests                                                                 *)

Begin(p, kind, version, expected) ==
    /\ req[p].pc = "idle" /\ requests < MaxRequests /\ requests' = requests + 1
    /\ req' = [req EXCEPT ![p] = [Idle EXCEPT !.kind = kind, !.asked = version,
                                  !.version = version, !.expected = expected,
                                  !.pc = IF kind \in {"promote", "upgrade"} THEN "source"
                                         ELSE IF kind = "update" THEN "row" ELSE "resolve"]]
    /\ UNCHANGED <<tag, catalogVars, row, described, moves, history>>

\* A caller names a commit only if it was told that the version has it.
Ask(p) ==
    \/ \E v \in Version \cup {None}, kind \in {"describe", "check", "update"} : Begin(p, kind, v, None)
    \/ Begin(p, "promote", None, None)
    \/ \E v \in Version : Begin(p, "upgrade", v, None)
    \/ \E d \in described, kind \in Changes : Begin(p, kind, d[1], d[2])

Refuse(p) ==
    /\ req' = [req EXCEPT ![p] = Idle]
    /\ holder' = [c \in Commit |-> IF holder[c] = p THEN None ELSE holder[c]]
    /\ UNCHANGED <<tag, disk, cache, key, row, described, moves, requests, history>>

\* Faulty variant: the tag alone is promoted.
intent_of_version == [version |-> row.version, expected |-> None]

\* What a promotion takes from the row: the version, and the commit applied.
intent == [version |-> row.version, expected |-> row.commit]

\* Promotions and upgrades read the resource first; what an upgrade carries over
\* from the row is not what validation sees of it later.
ReadSource(p) ==
    /\ req[p].pc = "source"
    /\ IF row.state = "ready" /\ (req[p].kind = "upgrade" => req[p].version # row.version)
       THEN /\ req' = [req EXCEPT ![p] =
                           IF @.kind = "promote"
                           THEN [@ EXCEPT !.pc = "resolve", !.version = intent.version,
                                          !.expected = intent.expected]
                           ELSE [@ EXCEPT !.pc = "row"]]
            /\ UNCHANGED <<tag, catalogVars, row, described, moves, requests, history>>
       ELSE Refuse(p)

\* Validation of a change reads the row: an update without a version keeps it.
ReadRow(p) ==
    /\ req[p].pc = "row"
    /\ req' = [req EXCEPT ![p].pc = "resolve", ![p].seen = row.operation,
                          ![p].version = IF @ = None THEN row.version ELSE @]
    /\ UNCHANGED <<tag, catalogVars, row, described, moves, requests, history>>

\* The tags are listed now, never taken from a cache.
resolve(p) ==
    /\ req[p].pc = "resolve"
    /\ LET version == IF req[p].version = None THEN Default(tag) ELSE req[p].version
       IN IF version \in versions(tag) /\ req[p].expected \in {None, tag[version]}
          THEN /\ req' = [req EXCEPT ![p].pc = "checkout", ![p].version = version,
                                     ![p].commit = tag[version]]
               /\ UNCHANGED <<tag, catalogVars, row, described, moves, requests, history>>
          ELSE Refuse(p)

-----------------------------------------------------------------------------
(* The shared checkout of a commit (_checkout).                             *)

\* Faulty variant: a directory that exists is taken for a checkout.
exists(c) == disk[c].files # "none"

\* The marker that the last writer touched.
ready(c) == disk[c].ready

\* A check whose findings are cached needs no checkout.
Known(p) == req[p].kind = "check" /\ req[p].commit \in cache

\* Under the lock: a ready checkout is used, otherwise it is made.
Lock(p) ==
    LET c == req[p].commit
    IN /\ req[p].pc = "checkout" /\ holder[c] = None /\ ~Known(p)
       /\ IF ready(c)
          THEN req' = [req EXCEPT ![p].pc = "read"] /\ UNCHANGED holder
          ELSE req' = [req EXCEPT ![p].pc = "fetch"] /\ holder' = [holder EXCEPT ![c] = p]
       /\ UNCHANGED <<tag, disk, cache, key, row, described, moves, requests, history>>

\* git init, fetch and checkout write files one after the other.
Write(p) ==
    LET c == req[p].commit
    IN /\ \/ req[p].pc = "fetch" /\ disk' = [disk EXCEPT ![c].files = "some"]
          \/ req[p].pc = "write" /\ disk' = [disk EXCEPT ![c].files = "all"]
       /\ req' = [req EXCEPT ![p].pc = IF @ = "fetch" THEN "write" ELSE "touch"]
       /\ UNCHANGED <<tag, holder, cache, key, row, described, moves, requests, history>>

Touch(p) ==
    LET c == req[p].commit
    IN /\ req[p].pc = "touch"
       /\ disk' = [disk EXCEPT ![c].ready = TRUE]
       /\ holder' = [holder EXCEPT ![c] = None]
       /\ req' = [req EXCEPT ![p].pc = "read"]
       /\ UNCHANGED <<tag, cache, key, row, described, moves, requests, history>>

\* git fails or is killed by its timeout, or a later check refuses: the lock goes,
\* the files stay as they are.
GitFails(p) == req[p].pc \notin {"idle", "source", "row"} /\ Refuse(p)

\* The API process dies and is started again.  Its git commands are taken to die
\* with it.
Restart ==
    /\ req' = [p \in Process |-> Idle] /\ holder' = [c \in Commit |-> None]
    /\ cache' = {} /\ key' = None
    /\ UNCHANGED <<tag, disk, row, described, moves, requests, history>>

-----------------------------------------------------------------------------
(* What a request does with the pattern it read.                            *)

Answer(p) ==
    /\ req[p].pc = "read" /\ req[p].kind = "describe"
    /\ described' = described \cup {<<req[p].version, req[p].commit>>}
    /\ req' = [req EXCEPT ![p] = Idle]
    /\ UNCHANGED <<tag, catalogVars, row, moves, requests, history>>

\* Findings are cached; a full cache is emptied first.
check_pattern(p) ==
    /\ \/ req[p].pc = "checkout" /\ Known(p) /\ UNCHANGED cache
       \/ /\ req[p].pc = "read" /\ req[p].kind = "check"
          /\ cache' = (IF Cardinality(cache) >= CacheMax THEN {} ELSE cache) \cup {req[p].commit}
    /\ req' = [req EXCEPT ![p].pc = "default"]
    /\ UNCHANGED <<tag, disk, holder, key, row, described, moves, requests, history>>

\* Faulty variant: every checked version counts as the default.
is_any(asked) == TRUE

\* Whether a request that names no version gets the one asked for, now.
_is_default(asked) == asked \in {None, Default(tag)}

\* The tags are listed once more to tell whether the default was checked.
RememberDefault(p) ==
    /\ req[p].pc = "default"
    /\ key' = IF _is_default(req[p].asked) THEN req[p].commit ELSE key
    /\ req' = [req EXCEPT ![p] = Idle]
    /\ UNCHANGED <<tag, disk, holder, cache, row, described, moves, requests, history>>

\* What the team checks are shown of the pattern.
default_findings == {key} \cap cache

\* A promotion makes a new resource.
accept(p) ==
    /\ req[p].pc = "read" /\ req[p].kind = "promote"
    /\ promoted' = promoted \cup {req[p].commit}
    /\ req' = [req EXCEPT ![p] = Idle]
    /\ UNCHANGED <<tag, catalogVars, row, described, moves, requests, ran, defaults>>

\* The row names the change, and keeps the deployed definition.
Accepted(p) ==
    [row EXCEPT !.operation = @ + 1, !.change = <<req[p].version, req[p].commit>>]

accept_change(p) ==
    /\ req[p].pc = "read" /\ req[p].kind \in Changes
    /\ IF row.change = None /\ row.operation = req[p].seen
       THEN /\ row' = Accepted(p)
            /\ req' = [req EXCEPT ![p] = Idle]
            /\ UNCHANGED <<tag, catalogVars, described, moves, requests, history>>
       ELSE Refuse(p)

\* The change ends.  A successful one ran the commit it was accepted with.
Finish(succeeded) ==
    /\ row.change # None
    /\ IF succeeded
       THEN /\ row' = [row EXCEPT !.state = "ready", !.change = None,
                                  !.version = row.change[1], !.commit = row.change[2]]
            /\ ran' = ran \cup {row.change[2]}
       ELSE row' = [row EXCEPT !.change = None] /\ UNCHANGED ran
    /\ UNCHANGED <<tag, catalogVars, req, described, moves, requests, defaults, promoted>>

Next ==
    \/ \E v \in Version, c \in Commit : Publish(v, c)
    \/ Restart \/ \E succeeded \in BOOLEAN : Finish(succeeded)
    \/ \E p \in Process :
           \/ Ask(p) \/ ReadSource(p) \/ ReadRow(p) \/ resolve(p)
           \/ Lock(p) \/ Write(p) \/ Touch(p) \/ GitFails(p)
           \/ Answer(p) \/ check_pattern(p) \/ RememberDefault(p)
           \/ accept(p) \/ accept_change(p)

CatalogSpec == Init /\ [][Next]_vars

-----------------------------------------------------------------------------
(* Properties                                                               *)

\* A promotion is accepted only with a commit that the resource was really
\* deployed from: not with what its tag points at by now, nor with a change
\* that is planned, in flight or failed (POST /resources/{id}/promote, "the
\* source's pattern, version and applied commit").
PromotesWhatRan == promoted \subseteq ran

\* No request reads a checkout that is incomplete or being written, whatever
\* requests died or failed while they made it.
ReadsWhole ==
    \A p \in Process : req[p].pc = "read" =>
        disk[req[p].commit].files = "all" /\ holder[req[p].commit] = None

\* The findings shown for a pattern's default version are those of a commit
\* that the default version did have: checking some other version never changes
\* them, however the tags move during the check.
DefaultFindingsOfDefault == default_findings \subseteq defaults
=============================================================================
