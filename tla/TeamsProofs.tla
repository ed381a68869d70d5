----------------------------- MODULE TeamsProofs -----------------------------
(***************************************************************************)
(* Theorems about Teams, for any teams, operators, resources and documents *)
(* and any bounds: resources stay where their team's document places them, *)
(* an archive blocks no plan accepted before it, no edit is lost, and      *)
(* nobody shares a group or overruns a budget without an acknowledgement.  *)
(***************************************************************************)
EXTENDS Teams, NumberLemmas, TLAPS

Documents == UNION {Docs[t] : t \in Team}
Stored == [doc : Documents, archived : BOOLEAN]
Rows == {"state", "team", "env", "pattern", "place", "cost", "accepted", "busy", "executing",
         "requested", "previous", "since", "revived"}

Typed ==
    /\ revisions \in [Team -> Seq(Stored)]
    /\ DOMAIN forms = Operator
    /\ DOMAIN rows = Resource
    /\ \A r \in Resource : DOMAIN rows[r] = Rows

\* A row has a team from its first acceptance on, and executes only what was accepted.
WellFormed(row) ==
    /\ row.state \in {"absent", "live", "destroyed"}
    /\ row.state = "absent" => row.busy = None
    /\ row.state # "absent" => row.team \in Team /\ Exists(row.team)
    /\ row.executing => row.busy # None
    /\ row.state = "destroyed" /\ row.busy # None => row.revived

\* A deploy under way was accepted under a revision that was not archived.
AcceptedWhileActive(row) ==
    row.busy = "deploy" =>
        /\ row.since \in 1..Len(revisions[row.team])
        /\ ~revisions[row.team][row.since].archived

\* A request for a known resource names the row's team; only a deploy has none.
Matches(d) ==
    /\ d.team \in Team /\ Exists(d.team)
    /\ d.resource = None => d.action = "deploy"
    /\ d.resource # None => /\ d.resource \in Resource
                            /\ rows[d.resource].state # "absent"
                            /\ rows[d.resource].team = d.team
    /\ d.action \in {"deploy", "destroy"}

\* A document places a row where it is.
Places(doc, row) ==
    /\ row.env \in DOMAIN doc.envs
    /\ Spot(doc, row.env, Cloud[row.pattern]) = row.place

InPlace(row) ==
    row.state = "live" /\ ~row.revived => Places(Doc(row.team), row)

TeamsInv ==
    /\ Typed
    /\ \A r \in Resource : /\ WellFormed(rows[r])
                           /\ AcceptedWhileActive(rows[r])
                           /\ InPlace(rows[r])
    /\ \A d \in drafts : Matches(d)

-----------------------------------------------------------------------------
(* The largest of finitely many numbers.                                    *)

\* Max of a bounded set of numbers is one of them and none is larger.
LEMMA MaxOfBounded ==
  ASSUME NEW n \in Nat, NEW S \in SUBSET (0..n), S # {}
  PROVE  Max(S) \in S /\ \A y \in S : Max(S) >= y
<1>1. PICK x \in S : \A y \in S : y <= x
  BY GreatestNumber
<1>2. x \in S /\ \A y \in S : x >= y
  BY <1>1
<1> QED
  BY <1>2 DEF Max

\* What was accepted under a revision that was not archived was accepted before
\* every archive that still holds.
LEMMA ActiveBeforeArchive ==
  ASSUME Typed, NEW t \in Team, NEW i \in 1..Len(revisions[t]), ~revisions[t][i].archived
  PROVE  ~(i >= archived_since(t))
<1> DEFINE S == {0} \cup {j \in 1..Revision(t) : ~revisions[t][j].archived}
<1>1. Len(revisions[t]) \in Nat
  BY DEF Typed
<1>2. S \in SUBSET (0..Len(revisions[t])) /\ i \in S
  BY <1>1 DEF Revision
<1>3. Max(S) \in S /\ Max(S) >= i
  BY <1>1, <1>2, MaxOfBounded
<1> QED
  BY <1>1, <1>2, <1>3 DEF archived_since

-----------------------------------------------------------------------------
(* The kinds of steps.                                                      *)

\* A revision appended to a team's history leaves the ones before it alone.
LEMMA Appended ==
  ASSUME NEW history \in Seq(Stored), NEW entry \in Stored
  PROVE  /\ Append(history, entry) \in Seq(Stored)
         /\ Len(Append(history, entry)) = Len(history) + 1
         /\ Last(Append(history, entry)) = entry
         /\ \A i \in 1..Len(history) : Append(history, entry)[i] = history[i]
BY DEF Last

\* A document that passes the checks places what lives in its team where the
\* stored one did.
LEMMA CheckedPlaces ==
  ASSUME NEW t \in Team, NEW doc, Exists(t), ~HasErrors(t, doc),
         NEW r \in Living(t), Places(Doc(t), rows[r])
  PROVE  Places(doc, rows[r])
<1>1. r \in Resource /\ rows[r].env \in Envs(t)
  BY DEF Living, Envs, Places
<1>2. rows[r].env \in Kept(t, doc)
  BY <1>1, Zenon DEF HasErrors, RemovesUsedEnv, Kept, Envs
<1>3. Spot(doc, rows[r].env, Cloud[rows[r].pattern]) = Spot(Doc(t), rows[r].env, Cloud[rows[r].pattern])
  BY <1>2, Zenon DEF HasErrors, MovesResources
<1> QED
  BY <1>2, <1>3, Zenon DEF Places, Kept

\* Writes to teams: each adds a revision whose document was checked, or repeats
\* the stored one.
Writes(t, entry) ==
    /\ revisions'[t] = Append(revisions[t], entry)
    /\ Exists(t) => entry.doc = Doc(t) \/ ~HasErrors(t, entry.doc)

LEMMA WritesInv ==
  ASSUME TeamsInv, UNCHANGED <<drafts, rows>>, DOMAIN forms' = Operator,
         revisions' \in [Team -> Seq(Stored)],
         \A t \in Team : revisions'[t] = revisions[t] \/ \E entry \in Stored : Writes(t, entry)
  PROVE  TeamsInv'
<1>1. Typed'
  BY DEF TeamsInv, Typed
<1>2. \A t \in Team : Exists(t) => Exists(t)'
  <2> TAKE t \in Team
  <2>1. CASE revisions'[t] = revisions[t]
    BY <2>1 DEF Exists, Revision
  <2>2. ASSUME NEW entry \in Stored, Writes(t, entry) PROVE Exists(t)'
    <3>1. revisions[t] \in Seq(Stored)
      BY DEF TeamsInv, Typed
    <3> QED
      BY <2>2, <3>1, Appended DEF Writes, Exists, Revision
  <2> QED
    BY <2>1, <2>2
<1>3. ASSUME NEW r \in Resource
      PROVE  WellFormed(rows[r])' /\ AcceptedWhileActive(rows[r])' /\ InPlace(rows[r])'
  <2> DEFINE t == rows[r].team
  <2>1. WellFormed(rows[r])'
    BY <1>2 DEF TeamsInv, WellFormed
  <2>2. CASE rows[r].state = "absent" \/ revisions'[t] = revisions[t]
    <3>1. AcceptedWhileActive(rows[r])'
      BY <2>2, NoneAssumption DEF TeamsInv, WellFormed, AcceptedWhileActive
    <3>2. InPlace(rows[r])'
      BY <2>2 DEF TeamsInv, InPlace, Places, Spot, Doc
    <3> QED
      BY <2>1, <3>1, <3>2
  <2>3. CASE rows[r].state # "absent" /\ revisions'[t] # revisions[t]
    <3>1. t \in Team /\ revisions[t] \in Seq(Stored)
      BY <2>3 DEF TeamsInv, WellFormed, Typed
    <3>2. PICK entry \in Stored : Writes(t, entry)
      BY <2>3, <3>1
    <3>3. AcceptedWhileActive(rows[r])'
      BY <3>1, <3>2, Appended DEF TeamsInv, AcceptedWhileActive, Writes
    <3>4. Exists(t)' /\ Doc(t)' = entry.doc
      BY <3>1, <3>2, Appended DEF Exists, Revision, Doc, Writes
    <3>5. ASSUME rows[r].state = "live", ~rows[r].revived
          PROVE  Places(entry.doc, rows[r])
      <4>1. Exists(t) /\ Places(Doc(t), rows[r]) /\ r \in Living(t)
        BY <2>3, <3>5 DEF TeamsInv, WellFormed, InPlace, Living
      <4>2. entry.doc = Doc(t) \/ ~HasErrors(t, entry.doc)
        BY <4>1, <3>2 DEF Writes
      <4> QED
        BY <4>1, <4>2, <3>1, CheckedPlaces
    <3>6. InPlace(rows[r])'
      BY <3>4, <3>5 DEF InPlace, Places, Spot
    <3> QED
      BY <2>1, <3>3, <3>6
  <2> QED
    BY <2>2, <2>3
<1>4. \A d \in drafts' : Matches(d)'
  BY <1>2 DEF TeamsInv, Matches
<1> QED
  BY <1>1, <1>3, <1>4 DEF TeamsInv

\* A resource's row changes: it keeps its team from its first acceptance on.
LEMMA RowInv ==
  ASSUME TeamsInv, UNCHANGED <<revisions, forms>>, drafts' \subseteq drafts,
         NEW r \in Resource, NEW row, rows' = [rows EXCEPT ![r] = row],
         DOMAIN row = Rows, WellFormed(row), AcceptedWhileActive(row), InPlace(row),
         rows[r].state # "absent" => row.state # "absent" /\ row.team = rows[r].team
  PROVE  TeamsInv'
<1>1. rows'[r] = row /\ \A q \in Resource \ {r} : rows'[q] = rows[q]
  BY DEF TeamsInv, Typed
<1>2. Typed'
  BY <1>1 DEF TeamsInv, Typed
<1>3. ASSUME NEW q \in Resource
      PROVE  WellFormed(rows[q])' /\ AcceptedWhileActive(rows[q])' /\ InPlace(rows[q])'
  <2>1. rows'[q] = row \/ rows'[q] = rows[q]
    BY <1>1
  <2>2. WellFormed(rows'[q]) /\ AcceptedWhileActive(rows'[q]) /\ InPlace(rows'[q])
    BY <2>1 DEF TeamsInv
  <2> QED
    BY <2>2 DEF WellFormed, AcceptedWhileActive, InPlace, Places, Spot, Exists, Doc, Revision
<1>4. ASSUME NEW d \in drafts' PROVE Matches(d)'
  <2>1. Matches(d)
    BY DEF TeamsInv
  <2> QED
    BY <2>1, <1>1 DEF Matches, Exists, Revision
<1> QED
  BY <1>2, <1>3, <1>4 DEF TeamsInv

\* Nothing changes but the operators' forms and the requests under way.
LEMMA DraftsInv ==
  ASSUME TeamsInv, UNCHANGED <<revisions, rows>>, DOMAIN forms' = Operator,
         \A d \in drafts' \ drafts : Matches(d)
  PROVE  TeamsInv'
<1>1. Typed'
  BY DEF TeamsInv, Typed
<1>2. ASSUME NEW q \in Resource
      PROVE  WellFormed(rows[q])' /\ AcceptedWhileActive(rows[q])' /\ InPlace(rows[q])'
  BY DEF TeamsInv, WellFormed, AcceptedWhileActive, InPlace, Places, Spot, Exists, Doc, Revision
<1>3. ASSUME NEW d \in drafts' PROVE Matches(d)'
  BY DEF TeamsInv, Matches, Exists, Revision
<1> QED
  BY <1>1, <1>2, <1>3 DEF TeamsInv

-----------------------------------------------------------------------------
(* The administration endpoints.                                            *)

LEMMA InitInv == Init => TeamsInv
<1> SUFFICES ASSUME Init PROVE TeamsInv
  OBVIOUS
<1>1. Typed
  BY DEF Init, Typed, NoRow, Rows
<1>2. \A r \in Resource : WellFormed(rows[r]) /\ AcceptedWhileActive(rows[r]) /\ InPlace(rows[r])
  BY NoneAssumption DEF Init, NoRow, WellFormed, AcceptedWhileActive, InPlace
<1> QED
  BY <1>1, <1>2 DEF Init, TeamsInv

\* The stored document of a team is one of the documents.
LEMMA StoredDocument ==
  ASSUME Typed, NEW t \in Team, Exists(t)
  PROVE  Doc(t) \in Documents /\ Archived(t) \in BOOLEAN
<1>1. revisions[t] \in Seq(Stored) /\ Len(revisions[t]) \in 1..Len(revisions[t])
  BY DEF Typed, Exists, Revision
<1>2. Last(revisions[t]) \in Stored
  BY <1>1 DEF Last
<1> QED
  BY <1>2 DEF Doc, Archived, Stored

\* The endpoints for one team.
LEMMA WriteInv ==
  ASSUME TeamsInv, NEW o \in Operator, NEW t \in Team, NEW entry \in Stored,
         write(o, t, entry), Exists(t) => entry.doc = Doc(t) \/ ~HasErrors(t, entry.doc)
  PROVE  TeamsInv'
<1>1. revisions \in [Team -> Seq(Stored)] /\ DOMAIN forms = Operator
  BY DEF TeamsInv, Typed
<1>2. Append(revisions[t], entry) \in Seq(Stored)
  BY <1>1, Appended
<1>3. /\ revisions' \in [Team -> Seq(Stored)] /\ revisions'[t] = Append(revisions[t], entry)
      /\ \A u \in Team \ {t} : revisions'[u] = revisions[u]
  BY <1>1, <1>2 DEF write
<1>4. DOMAIN forms' = Operator /\ UNCHANGED <<drafts, rows>>
  BY <1>1 DEF write
<1>5. \A u \in Team : revisions'[u] = revisions[u] \/ \E e \in Stored : Writes(u, e)
  BY <1>3 DEF Writes
<1> QED
  BY <1>3, <1>4, <1>5, WritesInv

LEMMA ReplaceInv ==
  ASSUME TeamsInv, NEW o \in Operator, NEW t \in Team, NEW doc \in Documents, replace(o, t, doc)
  PROVE  TeamsInv'
<1>1. Archived(t) \in BOOLEAN
  BY StoredDocument DEF TeamsInv, replace, _stored
<1>2. Entry(doc, Archived(t)) \in Stored /\ Entry(doc, Archived(t)).doc = doc
  BY <1>1 DEF Entry, Stored
<1>3. write(o, t, Entry(doc, Archived(t))) /\ ~HasErrors(t, doc)
  BY DEF replace, _gate
<1> QED
  BY <1>2, <1>3, WriteInv

LEMMA OneTeamInv ==
  ASSUME TeamsInv, NEW o \in Operator, NEW t \in Team,
         \/ \E doc \in Docs[t] : create(o, t, doc) \/ replace(o, t, doc)
         \/ \E n \in 1..MaxRevision[t] : revert(o, t, n)
         \/ \E force_archive \in BOOLEAN : archive(o, t, force_archive)
         \/ unarchive(o, t)
  PROVE  TeamsInv'
<1>1. ASSUME NEW doc \in Docs[t], create(o, t, doc) PROVE TeamsInv'
  <2>1. Entry(doc, FALSE) \in Stored /\ Entry(doc, FALSE).doc = doc
    BY DEF Entry, Stored, Documents
  <2>2. write(o, t, Entry(doc, FALSE)) /\ ~HasErrors(t, doc)
    BY <1>1 DEF create
  <2> QED
    BY <2>1, <2>2, WriteInv
<1>2. ASSUME NEW doc \in Docs[t], replace(o, t, doc) PROVE TeamsInv'
  BY <1>2, ReplaceInv DEF Documents
<1>3. ASSUME NEW n, revert(o, t, n) PROVE TeamsInv'
  <2>1. revisions[t] \in Seq(Stored) /\ n \in 1..Len(revisions[t])
    BY <1>3 DEF revert, TeamsInv, Typed, Revision
  <2>2. revisions[t][n] \in Stored
    BY <2>1
  <2>3. revisions[t][n].doc \in Documents
    BY <2>2 DEF Stored
  <2> QED
    BY <1>3, <2>3, ReplaceInv DEF revert
<1>4. ASSUME NEW archived \in BOOLEAN, Exists(t), write(o, t, Entry(Doc(t), archived))
      PROVE  TeamsInv'
  <2>1. Entry(Doc(t), archived) \in Stored /\ Entry(Doc(t), archived).doc = Doc(t)
    BY <1>4, StoredDocument DEF TeamsInv, Entry, Stored
  <2> QED
    BY <1>4, <2>1, WriteInv
<1>5. ASSUME NEW force_archive \in BOOLEAN, archive(o, t, force_archive) PROVE TeamsInv'
  BY <1>4, <1>5 DEF archive, _stored
<1>6. ASSUME unarchive(o, t) PROVE TeamsInv'
  BY <1>4, <1>6 DEF unarchive, _stored
<1> QED
  BY <1>1, <1>2, <1>3, <1>5, <1>6

LEMMA ImportInv ==
  ASSUME TeamsInv, NEW o \in Operator, NEW units \in Imports, import_teams(o, units)
  PROVE  TeamsInv'
<1> DEFINE changing == Changing(units)
           entry(t) == Entry(units[t], Exists(t) /\ Archived(t))
<1>1. \A t \in changing : t \in Team /\ units[t] \in Documents
  BY DEF Changing, Imports, Documents
<1>2. \A t \in changing : entry(t) \in Stored /\ entry(t).doc = units[t]
  <2> TAKE t \in changing
  <2>1. (Exists(t) /\ Archived(t)) \in BOOLEAN
    BY <1>1, StoredDocument DEF TeamsInv
  <2> QED
    BY <1>1, <2>1 DEF Entry, Stored
<1>3. revisions' = [t \in Team |-> IF t \in changing THEN Append(revisions[t], entry(t))
                                                      ELSE revisions[t]]
  BY DEF import_teams
<1>4. revisions \in [Team -> Seq(Stored)] /\ DOMAIN forms = Operator
  BY DEF TeamsInv, Typed
<1> HIDE DEF changing, entry
<1>5. revisions' \in [Team -> Seq(Stored)]
  <2>1. \A t \in changing : Append(revisions[t], entry(t)) \in Seq(Stored)
    BY <1>1, <1>2, <1>4, Appended
  <2> QED
    BY <1>3, <1>4, <2>1
<1>6. DOMAIN forms' = Operator /\ UNCHANGED <<drafts, rows>>
  BY <1>4 DEF import_teams
<1>7. \A t \in changing : ~HasErrors(t, units[t])
  BY DEF import_teams, _gate, changing
<1>8. \A t \in Team : revisions'[t] = revisions[t] \/ \E e \in Stored : Writes(t, e)
  <2> TAKE t \in Team
  <2>1. CASE t \in changing
    BY <2>1, <1>2, <1>3, <1>7 DEF Writes
  <2>2. CASE t \notin changing
    BY <2>2, <1>3
  <2> QED
    BY <2>1, <2>2
<1> QED
  BY <1>5, <1>6, <1>8, WritesInv

LEMMA AdministerInv ==
  ASSUME TeamsInv, Administer
  PROVE  TeamsInv'
<1>1. PICK o \in Operator :
          \/ Read(o)
          \/ \E units \in Imports : import_teams(o, units)
          \/ \E t \in Team :
                 \/ \E doc \in Docs[t] : create(o, t, doc) \/ replace(o, t, doc)
                 \/ \E n \in 1..MaxRevision[t] : revert(o, t, n)
                 \/ \E force_archive \in BOOLEAN : archive(o, t, force_archive)
                 \/ unarchive(o, t)
  BY DEF Administer
<1>2. CASE Read(o)
  BY <1>2, DraftsInv DEF Read, TeamsInv, Typed
<1> QED
  BY <1>1, <1>2, OneTeamInv, ImportInv

-----------------------------------------------------------------------------
(* Requests.                                                                *)

LEMMA ValidateInv ==
  ASSUME TeamsInv, NEW d, Validate(d), Matches(d)
  PROVE  TeamsInv'
<1>1. UNCHANGED <<revisions, rows>> /\ DOMAIN forms' = Operator /\ drafts' = drafts \cup {d}
  BY DEF Validate, TeamsInv, Typed
<1> QED
  BY <1>1, DraftsInv

LEMMA ValidatedInv ==
  ASSUME TeamsInv, NEW g \in Caller,
         \/ \E t \in Team, e \in Environments, p \in Pattern : \E c \in Price[p] :
                ValidateCreate(t, e, p, g, c)
         \/ \E r \in Resource : \/ \E c : ValidateUpdate(r, g, c)
                                \/ ValidateDestroy(r, g)
  PROVE  TeamsInv'
<1>1. ASSUME NEW t \in Team, NEW e, NEW p, NEW c, ValidateCreate(t, e, p, g, c) PROVE TeamsInv'
  <2>1. Matches(Resolved(None, 0, t, e, p, g, c))
    BY <1>1 DEF ValidateCreate, Resolved, Matches
  <2> QED
    BY <1>1, <2>1, ValidateInv DEF ValidateCreate
<1>2. ASSUME NEW r \in Resource, rows[r].state = "live", NEW d, d.resource = r,
             d.team = rows[r].team, d.action \in {"deploy", "destroy"}
      PROVE  Matches(d)
  BY <1>2, NoneAssumption DEF Matches, TeamsInv, WellFormed
<1>3. ASSUME NEW r \in Resource, NEW c, ValidateUpdate(r, g, c) PROVE TeamsInv'
  <2> DEFINE row == rows[r]
             d == Resolved(r, row.accepted, row.team, row.env, row.pattern, g, c)
  <2>1. row.state = "live" /\ Validate(d)
    BY <1>3 DEF ValidateUpdate
  <2>2. d.resource = r /\ d.team = row.team /\ d.action = "deploy"
    BY DEF Resolved
  <2>3. Matches(d)
    BY <1>2, <2>1, <2>2
  <2> QED
    BY <2>1, <2>3, ValidateInv
<1>4. ASSUME NEW r \in Resource, ValidateDestroy(r, g) PROVE TeamsInv'
  <2> DEFINE row == rows[r]
             d == [resource |-> r, accepted |-> row.accepted, action |-> "destroy",
                   team |-> row.team, env |-> row.env, pattern |-> row.pattern, caller |-> g,
                   cost |-> row.cost, stamp |-> 0, limit |-> None, place |-> row.place]
  <2>1. row.state = "live" /\ Validate(d)
    BY <1>4 DEF ValidateDestroy
  <2>2. Matches(d)
    BY <1>2, <2>1
  <2> QED
    BY <2>1, <2>2, ValidateInv
<1> QED
  BY <1>1, <1>3, <1>4

\* Acceptance: a new resource is placed where its team's document says, and a
\* deploy is accepted under a revision that is not archived.
LEMMA AcceptInv ==
  ASSUME TeamsInv, NEW d \in drafts, accept(d)
  PROVE  TeamsInv'
<1>1. PICK r \in Resource :
          /\ d.resource \in {None, r} /\ (d.resource = None <=> rows[r].state = "absent")
          /\ rows[r].busy = None /\ _check_placement(d)
          /\ rows' = [rows EXCEPT ![r] = AcceptedRow(d, rows[r])]
          /\ drafts' = drafts \ {d} /\ UNCHANGED <<revisions, forms>>
  BY DEF accept
<1> DEFINE row == rows[r]
           new == AcceptedRow(d, row)
<1>2. /\ Matches(d) /\ WellFormed(row) /\ InPlace(row) /\ DOMAIN row = Rows
      /\ revisions[d.team] \in Seq(Stored)
  BY DEF TeamsInv, Typed, Matches
<1>3. /\ DOMAIN new = Rows
      /\ new.busy = d.action /\ new.since = Revision(d.team) /\ new.executing = row.executing
      /\ new.revived = (row.revived \/ row.state = "destroyed")
  BY <1>2 DEF AcceptedRow, Rows
<1>4. row.state # "absent" => /\ new.state = row.state /\ new.team = row.team /\ new.env = row.env
                              /\ new.pattern = row.pattern /\ new.place = row.place
  BY <1>2 DEF AcceptedRow, Rows
<1>5. row.state = "absent" => /\ new.state = "live" /\ new.team = d.team /\ new.env = d.env
                              /\ new.pattern = d.pattern /\ new.place = d.place
  BY <1>2 DEF AcceptedRow, Rows
<1>6. new.team = d.team
  BY <1>1, <1>2, <1>4, <1>5 DEF Matches
<1>7. ASSUME d.action = "deploy"
      PROVE  /\ ~Archived(d.team)
             /\ d.env \in DOMAIN Doc(d.team).envs
             /\ Spot(Doc(d.team), d.env, Cloud[d.pattern]) = d.place
  <2>1. /\ ~Archived(d.team) /\ d.env \in DOMAIN Doc(d.team).envs
        /\ Selectable(Doc(d.team), d.env, d.pattern)
        /\ Place(Doc(d.team), d.env, d.pattern) = d.place
    BY <1>1, <1>7 DEF _check_placement
  <2>2. Spot(Doc(d.team), d.env, Cloud[d.pattern]) = d.place
    BY <2>1 DEF Selectable, Place, Spot
  <2> QED
    BY <2>1, <2>2
<1>8. WellFormed(new)
  BY <1>1, <1>2, <1>3, <1>4, <1>5, <1>6 DEF WellFormed, Matches
<1>9. AcceptedWhileActive(new)
  <2> SUFFICES ASSUME d.action = "deploy"
               PROVE  Revision(d.team) \in 1..Len(revisions[d.team])
                      /\ ~revisions[d.team][Revision(d.team)].archived
    BY <1>3, <1>6 DEF AcceptedWhileActive
  <2> QED
    BY <1>2, <1>7 DEF Matches, Exists, Revision, Archived, Last
<1>10. InPlace(new)
  <2>1. CASE row.state = "absent"
    BY <1>1, <1>2, <1>5, <1>7, <2>1 DEF Matches, InPlace, Places
  <2>2. CASE row.state # "absent"
    BY <1>2, <1>3, <1>4, <2>2 DEF InPlace, Places
  <2> QED
    BY <2>1, <2>2
<1> QED
  BY <1>1, <1>2, <1>3, <1>4, <1>6, <1>8, <1>9, <1>10, RowInv

\* An operation that moves on or ends leaves its resource in its place; a
\* destroyed resource comes back only as one that was revived.
LEMMA OperationInv ==
  ASSUME TeamsInv, NEW r \in Resource,
         (\E g \in Caller : execute(r, g)) \/ Succeed(r) \/ Fail(r)
  PROVE  TeamsInv'
<1> DEFINE row == rows[r]
<1>1. WellFormed(row) /\ AcceptedWhileActive(row) /\ InPlace(row) /\ DOMAIN row = Rows
  BY DEF TeamsInv, Typed
<1>2. ASSUME NEW new, rows' = [rows EXCEPT ![r] = new], UNCHANGED <<revisions, forms, drafts>>,
             DOMAIN new = Rows, WellFormed(new), AcceptedWhileActive(new),
             new.team = row.team, new.env = row.env, new.pattern = row.pattern,
             new.place = row.place, new.revived = row.revived, row.state # "absent",
             new.state \in {"live", "destroyed"},
             new.state = "live" => row.state = "live" \/ row.revived
      PROVE  TeamsInv'
  <2>1. InPlace(new)
    BY <1>1, <1>2 DEF InPlace, Places
  <2>2. new.state # "absent"
    BY <1>2
  <2> QED
    BY <1>2, <2>1, <2>2, RowInv
<1>3. ASSUME NEW g \in Caller, execute(r, g) PROVE TeamsInv'
  <2> DEFINE new == [row EXCEPT !.executing = TRUE]
  <2>1. /\ rows' = [rows EXCEPT ![r] = new] /\ UNCHANGED <<revisions, forms, drafts>>
        /\ row.busy # None
    BY <1>3 DEF execute, TeamsInv, Typed
  <2>2. /\ DOMAIN new = Rows /\ new.state = row.state /\ new.busy = row.busy
        /\ new.team = row.team /\ new.env = row.env /\ new.pattern = row.pattern
        /\ new.place = row.place /\ new.revived = row.revived /\ new.since = row.since
    BY <1>1 DEF Rows
  <2>3. WellFormed(new) /\ AcceptedWhileActive(new)
    BY <1>1, <2>1, <2>2 DEF WellFormed, AcceptedWhileActive
  <2> QED
    BY <1>1, <1>2, <2>1, <2>2, <2>3 DEF WellFormed
<1>4. ASSUME NEW cost
      PROVE  /\ DOMAIN Idle(row, cost) = Rows
             /\ Idle(row, cost).state = row.state /\ Idle(row, cost).busy = None
             /\ Idle(row, cost).executing = FALSE
             /\ Idle(row, cost).team = row.team /\ Idle(row, cost).env = row.env
             /\ Idle(row, cost).pattern = row.pattern /\ Idle(row, cost).place = row.place
             /\ Idle(row, cost).revived = row.revived
  BY <1>1 DEF Idle, Rows
<1>5. ASSUME Succeed(r) PROVE TeamsInv'
  <2> DEFINE after == Idle(row, row.requested)
             new == [after EXCEPT !.state = IF row.busy = "destroy" THEN "destroyed" ELSE "live"]
  <2>1. rows' = [rows EXCEPT ![r] = new] /\ UNCHANGED <<revisions, forms, drafts>> /\ row.executing
    BY <1>5 DEF Succeed, TeamsInv, Typed
  <2> HIDE DEF after
  <2>2. /\ DOMAIN after = Rows /\ after.busy = None /\ after.executing = FALSE
        /\ after.team = row.team /\ after.env = row.env /\ after.pattern = row.pattern
        /\ after.place = row.place /\ after.revived = row.revived
    BY <1>4 DEF after
  <2>3. /\ DOMAIN new = Rows /\ new.busy = None /\ new.executing = FALSE
        /\ new.team = row.team /\ new.env = row.env /\ new.pattern = row.pattern
        /\ new.place = row.place /\ new.revived = row.revived
        /\ new.state = IF row.busy = "destroy" THEN "destroyed" ELSE "live"
    BY <2>2 DEF Rows
  <2>4. row.state # "absent" /\ (row.state = "destroyed" => row.revived)
    BY <1>1, <2>1 DEF WellFormed
  <2> HIDE DEF new
  <2>5. WellFormed(new) /\ AcceptedWhileActive(new)
    BY <1>1, <2>3, <2>4, NoneAssumption DEF WellFormed, AcceptedWhileActive
  <2> QED
    BY <1>1, <1>2, <2>1, <2>3, <2>4, <2>5 DEF WellFormed
<1>6. ASSUME Fail(r) PROVE TeamsInv'
  <2> DEFINE new == Idle(row, row.previous)
  <2>1. rows' = [rows EXCEPT ![r] = new] /\ UNCHANGED <<revisions, forms, drafts>> /\ row.busy # None
    BY <1>6 DEF Fail, TeamsInv, Typed
  <2>2. /\ DOMAIN new = Rows /\ new.busy = None /\ new.executing = FALSE /\ new.state = row.state
        /\ new.team = row.team /\ new.env = row.env /\ new.pattern = row.pattern
        /\ new.place = row.place /\ new.revived = row.revived
    BY <1>4
  <2> HIDE DEF new
  <2>3. row.state \in {"live", "destroyed"} /\ (row.state = "destroyed" => row.revived)
    BY <1>1, <2>1 DEF WellFormed
  <2>4. WellFormed(new) /\ AcceptedWhileActive(new)
    BY <1>1, <2>2, <2>3, NoneAssumption DEF WellFormed, AcceptedWhileActive
  <2> QED
    BY <1>2, <2>1, <2>2, <2>3, <2>4
<1> QED
  BY <1>3, <1>5, <1>6

LEMMA RequestInv ==
  ASSUME TeamsInv, Request
  PROVE  TeamsInv'
<1>1. ASSUME NEW d \in drafts, Refuse(d) PROVE TeamsInv'
  BY <1>1, DraftsInv DEF Refuse, TeamsInv, Typed
<1> QED
  BY <1>1, ValidatedInv, AcceptInv, OperationInv DEF Request

LEMMA NextInv == TeamsInv /\ [Next]_vars => TeamsInv'
<1> SUFFICES ASSUME TeamsInv, [Next]_vars PROVE TeamsInv'
  OBVIOUS
<1>1. CASE UNCHANGED vars
  BY <1>1, DraftsInv DEF vars, TeamsInv, Typed
<1> QED
  BY <1>1, AdministerInv, RequestInv DEF Next

-----------------------------------------------------------------------------
(* Shared groups.                                                           *)

\* What a team written with a revision, or left alone, is afterwards.
LEMMA AfterWrite ==
  ASSUME Typed, NEW t \in Team, NEW entry \in Stored,
         revisions'[t] = Append(revisions[t], entry)
  PROVE  Exists(t)' /\ Doc(t)' = entry.doc
<1>1. revisions[t] \in Seq(Stored)
  BY DEF Typed
<1> QED
  BY <1>1, Appended DEF Exists, Revision, Doc

LEMMA LeftAlone ==
  ASSUME NEW t \in Team, revisions'[t] = revisions[t]
  PROVE  (Exists(t)' <=> Exists(t)) /\ Doc(t)' = Doc(t)
BY DEF Exists, Revision, Doc

\* Two teams that come to share a group: the one a single write changed, with
\* a document of its own, and another that shares a group with this document.
LEMMA WrittenOverlap ==
  ASSUME Typed, NEW o \in Operator, NEW v \in Team, NEW entry \in Stored, write(o, v, entry),
         NEW t \in Team, NEW u \in Team, t # u, Shares(t, u)', ~Shares(t, u)
  PROVE  /\ ~(Exists(v) /\ entry.doc = Doc(v))
         /\ \E other \in Others(v) : GroupsOf(entry.doc) \cap GroupsOf(other) # {}
<1>1. /\ revisions'[v] = Append(revisions[v], entry)
      /\ \A w \in Team \ {v} : revisions'[w] = revisions[w]
  BY DEF write, Typed
<1>2. Exists(v)' /\ Doc(v)' = entry.doc
  BY <1>1, AfterWrite
<1>3. \A w \in Team \ {v} : (Exists(w)' <=> Exists(w)) /\ Doc(w)' = Doc(w)
  BY <1>1, LeftAlone
<1>4. /\ Exists(t)' /\ Exists(u)'
      /\ GroupsOf(Doc(t)') \cap GroupsOf(Doc(u)') # {}
  BY DEF Shares, GroupsOf
<1>5. ~(Exists(t) /\ Exists(u) /\ GroupsOf(Doc(t)) \cap GroupsOf(Doc(u)) # {})
  BY DEF Shares
<1>6. v \in {t, u}
  BY <1>3, <1>4, <1>5
<1>7. PICK w \in {t, u} : w # v
  OBVIOUS
<1>8. Exists(w) /\ GroupsOf(entry.doc) \cap GroupsOf(Doc(w)) # {}
  BY <1>2, <1>3, <1>4, <1>6, <1>7
<1>9. ~(Exists(v) /\ entry.doc = Doc(v))
  BY <1>5, <1>6, <1>7, <1>8
<1>10. Doc(w) \in Others(v)
  BY <1>7, <1>8 DEF Others
<1> QED
  BY <1>8, <1>9, <1>10

\* The check before a write names a shared group among its warnings.
LEMMA OverlapIsWarned ==
  ASSUME NEW o \in Operator, NEW t \in Team, NEW doc, NEW others, _gate(o, t, doc, others),
         \E other \in others : GroupsOf(doc) \cap GroupsOf(other) # {}
  PROVE  "groups_overlap" \in Acknowledge[o]
<1>1. "groups_overlap" \in Warnings(t, doc, others)
  BY DEF Warnings, Code
<1> QED
  BY <1>1 DEF _gate

\* Writing one existing team.
LEMMA OneTeamOverlap ==
  ASSUME TeamsInv, NEW o \in Operator, NEW v \in Team,
         \/ \E doc \in Docs[v] : replace(o, v, doc)
         \/ \E n \in 1..MaxRevision[v] : revert(o, v, n)
         \/ \E force_archive \in BOOLEAN : archive(o, v, force_archive)
         \/ unarchive(o, v),
         NEW t \in Team, NEW u \in Team, t # u, Shares(t, u)', ~Shares(t, u)
  PROVE  Sent(o) /\ "groups_overlap" \in Acknowledge[o]
<1>1. Typed /\ DOMAIN forms = Operator
  BY DEF TeamsInv, Typed
<1>2. ASSUME NEW doc \in Documents, replace(o, v, doc)
      PROVE  Sent(o) /\ "groups_overlap" \in Acknowledge[o]
  <2>1. /\ forms[o] # None /\ Exists(v) /\ _gate(o, v, doc, Others(v))
        /\ write(o, v, Entry(doc, Archived(v)))
    BY <1>2 DEF replace, _stored
  <2>2. Entry(doc, Archived(v)) \in Stored /\ Entry(doc, Archived(v)).doc = doc
    BY <1>1, <2>1, StoredDocument DEF Entry, Stored
  <2>3. \E other \in Others(v) : GroupsOf(doc) \cap GroupsOf(other) # {}
    BY <1>1, <2>1, <2>2, WrittenOverlap
  <2>4. Sent(o)
    BY <1>1, <2>1 DEF write, Sent
  <2> QED
    BY <2>1, <2>3, <2>4, OverlapIsWarned
<1>3. ASSUME NEW n, revert(o, v, n) PROVE Sent(o) /\ "groups_overlap" \in Acknowledge[o]
  <2>1. revisions[v] \in Seq(Stored) /\ n \in 1..Len(revisions[v])
    BY <1>1, <1>3 DEF revert, Typed, Revision
  <2>2. revisions[v][n] \in Stored
    BY <2>1
  <2>3. revisions[v][n].doc \in Documents
    BY <2>2 DEF Stored
  <2> QED
    BY <1>2, <1>3, <2>3 DEF revert
<1>4. ASSUME NEW archived \in BOOLEAN, Exists(v), write(o, v, Entry(Doc(v), archived))
      PROVE  FALSE
  <2>1. Entry(Doc(v), archived) \in Stored /\ Entry(Doc(v), archived).doc = Doc(v)
    BY <1>1, <1>4, StoredDocument DEF Entry, Stored
  <2> QED
    BY <1>1, <1>4, <2>1, WrittenOverlap
<1>5. ASSUME NEW force_archive \in BOOLEAN, archive(o, v, force_archive) PROVE FALSE
  BY <1>4, <1>5 DEF archive, _stored
<1>6. ASSUME unarchive(o, v) PROVE FALSE
  BY <1>4, <1>6 DEF unarchive, _stored
<1> QED
  BY <1>2, <1>3, <1>5, <1>6 DEF Documents

\* A new team leaves the others alone.
LEMMA CreatedAlone ==
  ASSUME Typed, NEW o \in Operator, NEW v \in Team, NEW doc \in Docs[v], create(o, v, doc)
  PROVE  ~Exists(v) /\ \A w \in Team \ {v} : revisions'[w] = revisions[w]
BY DEF create, write, Typed

\* An import changes one of two teams that come to share a group, and checks it
\* against the other as the import leaves it.
LEMMA ImportOverlap ==
  ASSUME TeamsInv, NEW o \in Operator, NEW units \in Imports, import_teams(o, units),
         NEW t \in Team, NEW u \in Team, t # u, Shares(t, u)', ~Shares(t, u)
  PROVE  Sent(o) /\ "groups_overlap" \in Acknowledge[o]
<1> DEFINE changing == Changing(units)
           entry(w) == Entry(units[w], Exists(w) /\ Archived(w))
<1>1. Typed /\ DOMAIN forms = Operator
  BY DEF TeamsInv, Typed
<1>2. /\ changing \subseteq DOMAIN units /\ DOMAIN units \subseteq Team
      /\ \A w \in DOMAIN units : units[w] \in Documents
  BY DEF Changing, Imports, Documents
<1>3. \A w \in changing : entry(w) \in Stored /\ entry(w).doc = units[w]
  <2> TAKE w \in changing
  <2>1. (Exists(w) /\ Archived(w)) \in BOOLEAN
    BY <1>1, <1>2, StoredDocument
  <2> QED
    BY <1>2, <2>1 DEF Entry, Stored
<1>4. /\ forms[o] # None /\ forms'[o] = None
      /\ \A w \in changing : _gate(o, w, units[w], _final(units, w))
      /\ revisions' = [w \in Team |-> IF w \in changing THEN Append(revisions[w], entry(w))
                                                        ELSE revisions[w]]
  BY <1>1 DEF import_teams
<1> HIDE DEF entry
<1>5. \A w \in changing : Exists(w)' /\ Doc(w)' = units[w]
  BY <1>1, <1>2, <1>3, <1>4, AfterWrite
<1>6. \A w \in Team \ changing : (Exists(w)' <=> Exists(w)) /\ Doc(w)' = Doc(w)
  BY <1>4, LeftAlone
<1>7. \A w \in DOMAIN units \ changing : Exists(w) /\ Doc(w) = units[w]
  BY DEF Changing
<1> HIDE DEF changing
<1>8. /\ Exists(t)' /\ Exists(u)'
      /\ GroupsOf(Doc(t)') \cap GroupsOf(Doc(u)') # {}
  BY DEF Shares, GroupsOf
<1>9. ~(Exists(t) /\ Exists(u) /\ GroupsOf(Doc(t)) \cap GroupsOf(Doc(u)) # {})
  BY DEF Shares
<1>10. PICK v \in {t, u} : v \in changing
  BY <1>6, <1>8, <1>9
<1>11. PICK w \in {t, u} : w # v
  OBVIOUS
<1>12. Doc(w)' \in _final(units, v)
  <2>1. CASE w \in DOMAIN units
    <3>1. Doc(w)' = units[w]
      BY <1>2, <1>5, <1>6, <1>7, <1>11, <2>1
    <3> QED
      BY <1>11, <2>1, <3>1 DEF _final
  <2>2. CASE w \notin DOMAIN units
    <3>1. Exists(w) /\ Doc(w)' = Doc(w)
      BY <1>2, <1>6, <1>8, <2>2
    <3> QED
      BY <1>11, <2>2, <3>1 DEF _final
  <2> QED
    BY <2>1, <2>2
<1>13. GroupsOf(units[v]) \cap GroupsOf(Doc(w)') # {}
  BY <1>5, <1>8, <1>10, <1>11
<1>14. "groups_overlap" \in Acknowledge[o]
  BY <1>2, <1>4, <1>10, <1>12, <1>13, OverlapIsWarned
<1> QED
  BY <1>4, <1>14 DEF Sent

\* The requests leave the teams alone.
LEMMA RequestsLeaveTeams == Request => UNCHANGED revisions
BY DEF Request, ValidateCreate, ValidateUpdate, ValidateDestroy, Validate, execute, accept,
       Refuse, Succeed, Fail

-----------------------------------------------------------------------------
(* What the resources reserve.                                              *)

\* The resources of a team and environment that exist.
Reserves(row, t, e) == row.state = "live" /\ row.team = t /\ row.env = e

\* What a resource counts for in the budget of an environment.
Counted(row, t, e) == IF Reserves(row, t, e) THEN row.cost ELSE 0

ReservedIn(table, t, e, S) ==
    SumFunctionOnSet([q \in Resource |-> table[q].cost], {q \in S : Reserves(table[q], t, e)})

LEMMA ReservedMeans ==
  ASSUME NEW t, NEW e, NEW r \in Resource
  PROVE  /\ _reserved(t, e, {}) = ReservedIn(rows, t, e, Resource)
         /\ _reserved(t, e, {})' = ReservedIn(rows', t, e, Resource)
         /\ _reserved(t, e, {r}) = ReservedIn(rows, t, e, Resource \ {r})
<1>1. /\ {q \in Living(t) \ {} : rows[q].env = e} = {q \in Resource : Reserves(rows[q], t, e)}
      /\ {q \in Living(t) \ {r} : rows[q].env = e} = {q \in Resource \ {r} : Reserves(rows[q], t, e)}
  BY DEF Living, Reserves
<1>2. {q \in Living(t)' \ {} : rows'[q].env = e} = {q \in Resource : Reserves(rows'[q], t, e)}
  BY DEF Living, Reserves
<1> QED
  BY <1>1, <1>2, Zenon DEF _reserved, _cost, ReservedIn

\* The reservations are those of one resource and of the others.
LEMMA ReservedSplit ==
  ASSUME NEW table, \A q \in Resource : table[q].cost \in Nat, NEW r \in Resource, NEW t, NEW e
  PROVE  /\ ReservedIn(table, t, e, Resource)
               = Counted(table[r], t, e) + ReservedIn(table, t, e, Resource \ {r})
         /\ ReservedIn(table, t, e, Resource) \in Nat
         /\ ReservedIn(table, t, e, Resource \ {r}) \in Nat
<1> DEFINE f == [q \in Resource |-> table[q].cost]
           all == {q \in Resource : Reserves(table[q], t, e)}
           others == {q \in Resource \ {r} : Reserves(table[q], t, e)}
<1>1. \A q \in Resource : f[q] \in Nat /\ f[q] = table[q].cost
  OBVIOUS
<1>2. IsFiniteSet(all) /\ IsFiniteSet(others) /\ all \subseteq Resource /\ others \subseteq Resource
  BY ResourceAssumption, FS_Subset
<1>3. /\ ReservedIn(table, t, e, Resource) = SumFunctionOnSet(f, all)
      /\ ReservedIn(table, t, e, Resource \ {r}) = SumFunctionOnSet(f, others)
  BY Zenon DEF ReservedIn
<1>4. Reserves(table[r], t, e) => r \in all /\ all \ {r} = others /\ Counted(table[r], t, e) = f[r]
  BY <1>1 DEF Counted
<1>5. ~Reserves(table[r], t, e) => all = others /\ Counted(table[r], t, e) = 0
  BY DEF Counted
<1> HIDE DEF f, all, others
<1>6. SumFunctionOnSet(f, all) \in Nat /\ SumFunctionOnSet(f, others) \in Nat
  BY <1>1, <1>2, SumNat
<1>7. r \in all => SumFunctionOnSet(f, all) = f[r] + SumFunctionOnSet(f, all \ {r})
  BY <1>1, <1>2, SumSplit
<1>8. f[r] \in Nat
  BY <1>1
<1>9. CASE Reserves(table[r], t, e)
  <2>1. SumFunctionOnSet(f, all) = f[r] + SumFunctionOnSet(f, others)
    BY <1>4, <1>7, <1>9
  <2> QED
    BY <1>3, <1>4, <1>6, <1>8, <1>9, <2>1
<1>10. CASE ~Reserves(table[r], t, e)
  <2>1. ReservedIn(table, t, e, Resource) = ReservedIn(table, t, e, Resource \ {r})
    BY <1>3, <1>5, <1>10
  <2> QED
    BY <1>3, <1>5, <1>6, <1>10, <2>1
<1> QED
  BY <1>9, <1>10

\* What the others reserve does not depend on the row of the one.
LEMMA ReservedOthers ==
  ASSUME NEW table, NEW next, NEW r \in Resource, NEW t, NEW e,
         \A q \in Resource \ {r} : next[q] = table[q]
  PROVE  ReservedIn(next, t, e, Resource \ {r}) = ReservedIn(table, t, e, Resource \ {r})
<1> DEFINE f == [q \in Resource |-> table[q].cost]
           g == [q \in Resource |-> next[q].cost]
           S == {q \in Resource \ {r} : Reserves(table[q], t, e)}
<1>1. S = {q \in Resource \ {r} : Reserves(next[q], t, e)}
  BY DEF Reserves
<1>2. IsFiniteSet(S) /\ \A q \in S : f[q] = g[q]
  BY ResourceAssumption, FS_Subset
<1>3. /\ ReservedIn(table, t, e, Resource \ {r}) = SumFunctionOnSet(f, S)
      /\ ReservedIn(next, t, e, Resource \ {r}) = SumFunctionOnSet(g, S)
  BY <1>1, Zenon DEF ReservedIn
<1> HIDE DEF f, g, S
<1> QED
  BY <1>2, <1>3, SumSame

\* The reservations before and after a step that changes one resource.
LEMMA ReservedParts ==
  ASSUME NEW r \in Resource, NEW t, NEW e,
         \A q \in Resource : rows[q].cost \in Nat /\ rows'[q].cost \in Nat,
         \A q \in Resource \ {r} : rows'[q] = rows[q]
  PROVE  /\ _reserved(t, e, {r}) \in Nat
         /\ _reserved(t, e, {}) = Counted(rows[r], t, e) + _reserved(t, e, {r})
         /\ _reserved(t, e, {})' = Counted(rows'[r], t, e) + _reserved(t, e, {r})
<1>1. /\ ReservedIn(rows, t, e, Resource)
           = Counted(rows[r], t, e) + ReservedIn(rows, t, e, Resource \ {r})
      /\ ReservedIn(rows, t, e, Resource \ {r}) \in Nat
  BY ReservedSplit
<1>2. ReservedIn(rows', t, e, Resource)
        = Counted(rows'[r], t, e) + ReservedIn(rows', t, e, Resource \ {r})
  <2>1. ASSUME NEW next, \A q \in Resource : next[q].cost \in Nat
        PROVE  ReservedIn(next, t, e, Resource)
                 = Counted(next[r], t, e) + ReservedIn(next, t, e, Resource \ {r})
    BY <2>1, ReservedSplit
  <2> QED
    BY <2>1
<1>3. ReservedIn(rows', t, e, Resource \ {r}) = ReservedIn(rows, t, e, Resource \ {r})
  BY ReservedOthers
<1>4. /\ _reserved(t, e, {}) = ReservedIn(rows, t, e, Resource)
      /\ _reserved(t, e, {})' = ReservedIn(rows', t, e, Resource)
      /\ _reserved(t, e, {r}) = ReservedIn(rows, t, e, Resource \ {r})
  BY ReservedMeans
<1> QED
  BY <1>1, <1>2, <1>3, <1>4

\* A team without resources reserves nothing.
LEMMA NothingReserved ==
  ASSUME NEW t, NEW e, Living(t) = {}
  PROVE  _reserved(t, e, {}) = 0
<1>1. {r \in Living(t) \ {} : rows[r].env = e} = {}
  OBVIOUS
<1>2. \A f : SumFunctionOnSet(f, {}) = 0
  BY SumChosen, FS_EmptySet, Zenon
<1> QED
  BY <1>1, <1>2, Zenon DEF _reserved

-----------------------------------------------------------------------------
(* What is asked for, and what it is checked against.                       *)

\* A row can give back what its operation reserved.
Balanced(row) ==
    /\ row.busy \in {None, "deploy", "destroy"}
    /\ row.cost \in Nat /\ row.requested \in Nat /\ row.previous \in Nat
    /\ row.busy # None => row.previous <= row.cost
    /\ row.busy = "deploy" => row.requested <= row.cost

\* The limit of a request whose team was not written since is the budget of
\* its environment, and the environment is that of its resource.
Limited(d) ==
    /\ d.cost \in Nat
    /\ d.resource # None => d.env = rows[d.resource].env
    /\ d.action = "deploy" =>
           /\ d.stamp \in 1..Revision(d.team)
           /\ d.stamp = Revision(d.team) => d.limit = Doc(d.team).envs[d.env].budget

CostInv ==
    /\ \A r \in Resource : Balanced(rows[r])
    /\ \A d \in drafts : Limited(d)

\* An administration step leaves the requests and the rows alone, and adds a
\* revision to each team it changes.
LEMMA AdministerGrows ==
  ASSUME TeamsInv, Administer
  PROVE  /\ UNCHANGED <<drafts, rows>>
         /\ \A t \in Team : revisions'[t] = revisions[t] \/ Revision(t)' = Revision(t) + 1
<1>1. revisions \in [Team -> Seq(Stored)]
  BY DEF TeamsInv, Typed
<1>2. ASSUME NEW t \in Team, NEW entry, revisions'[t] = Append(revisions[t], entry)
      PROVE  Revision(t)' = Revision(t) + 1
  BY <1>1, <1>2 DEF Revision
<1>3. ASSUME NEW o, NEW v \in Team, NEW entry, write(o, v, entry)
      PROVE  /\ UNCHANGED <<drafts, rows>>
             /\ \A t \in Team : revisions'[t] = revisions[t] \/ Revision(t)' = Revision(t) + 1
  <2>1. /\ UNCHANGED <<drafts, rows>> /\ revisions'[v] = Append(revisions[v], entry)
        /\ \A t \in Team \ {v} : revisions'[t] = revisions[t]
    BY <1>1, <1>3 DEF write
  <2> QED
    BY <1>2, <2>1
<1>4. ASSUME NEW o \in Operator, NEW units \in Imports, import_teams(o, units)
      PROVE  /\ UNCHANGED <<drafts, rows>>
             /\ \A t \in Team : revisions'[t] = revisions[t] \/ Revision(t)' = Revision(t) + 1
  BY <1>2, <1>4 DEF import_teams
<1>5. ASSUME NEW o \in Operator, NEW v \in Team,
             \/ \E doc \in Docs[v] : create(o, v, doc) \/ replace(o, v, doc)
             \/ \E n \in 1..MaxRevision[v] : revert(o, v, n)
             \/ \E force_archive \in BOOLEAN : archive(o, v, force_archive)
             \/ unarchive(o, v)
      PROVE  /\ UNCHANGED <<drafts, rows>>
             /\ \A t \in Team : revisions'[t] = revisions[t] \/ Revision(t)' = Revision(t) + 1
  <2>1. \E entry : write(o, v, entry)
    BY <1>5 DEF create, replace, revert, archive, unarchive
  <2> QED
    BY <1>3, <2>1
<1> QED
  BY <1>4, <1>5 DEF Administer, Read

LEMMA AdministerCosts ==
  ASSUME TeamsInv, CostInv, Administer
  PROVE  CostInv'
<1>1. /\ UNCHANGED <<drafts, rows>>
      /\ \A t \in Team : revisions'[t] = revisions[t] \/ Revision(t)' = Revision(t) + 1
  BY AdministerGrows
<1>2. ASSUME NEW d \in drafts PROVE Limited(d)'
  <2>1. Limited(d) /\ d.team \in Team /\ Revision(d.team) \in Nat
    BY DEF CostInv, TeamsInv, Matches, Typed, Revision
  <2>2. CASE revisions'[d.team] = revisions[d.team]
    BY <1>1, <2>1, <2>2 DEF Limited, Revision, Doc
  <2>3. CASE Revision(d.team)' = Revision(d.team) + 1
    BY <1>1, <2>1, <2>3 DEF Limited
  <2> QED
    BY <1>1, <2>1, <2>2, <2>3
<1> QED
  BY <1>1, <1>2 DEF CostInv, Balanced

\* A request that is validated.
LEMMA ValidateCosts ==
  ASSUME CostInv, NEW d, Validate(d), Limited(d)
  PROVE  CostInv'
BY DEF CostInv, Validate, Balanced, Limited, Revision, Doc

LEMMA ValidatedCosts ==
  ASSUME TeamsInv, CostInv, NEW g \in Caller,
         \/ \E t \in Team, e \in Environments, p \in Pattern : \E c \in Price[p] :
                ValidateCreate(t, e, p, g, c)
         \/ \E r \in Resource : \/ \E p \in Pattern : \E c \in Price[p] : ValidateUpdate(r, g, c)
                                \/ ValidateDestroy(r, g)
  PROVE  CostInv'
<1>1. \A t \in Team : Revision(t) \in Nat
  BY DEF TeamsInv, Typed, Revision
<1>2. ASSUME NEW t \in Team, NEW e, NEW p \in Pattern, NEW c \in Price[p], ValidateCreate(t, e, p, g, c)
      PROVE  CostInv'
  <2>1. c \in Nat /\ Exists(t) /\ Validate(Resolved(None, 0, t, e, p, g, c))
    BY <1>2, PriceAssumption DEF ValidateCreate
  <2>2. Limited(Resolved(None, 0, t, e, p, g, c))
    BY <1>1, <2>1 DEF Resolved, Limited, Exists
  <2> QED
    BY <2>1, <2>2, ValidateCosts
<1>3. ASSUME NEW r \in Resource, NEW p \in Pattern, NEW c \in Price[p], ValidateUpdate(r, g, c)
      PROVE  CostInv'
  <2> DEFINE row == rows[r]
             d == Resolved(r, row.accepted, row.team, row.env, row.pattern, g, c)
  <2>1. c \in Nat /\ row.state = "live" /\ Validate(d)
    BY <1>3, PriceAssumption DEF ValidateUpdate
  <2>2. row.team \in Team /\ Exists(row.team)
    BY <2>1 DEF TeamsInv, WellFormed
  <2>3. /\ d.resource = r /\ d.team = row.team /\ d.env = row.env /\ d.cost = c
        /\ d.stamp = Revision(row.team) /\ d.limit = Doc(row.team).envs[row.env].budget
    BY DEF Resolved
  <2> HIDE DEF d
  <2>4. Limited(d)
    BY <1>1, <2>1, <2>2, <2>3 DEF Limited, Exists
  <2> QED
    BY <2>1, <2>4, ValidateCosts
<1>4. ASSUME NEW r \in Resource, ValidateDestroy(r, g) PROVE CostInv'
  <2> DEFINE row == rows[r]
             d == [resource |-> r, accepted |-> row.accepted, action |-> "destroy",
                   team |-> row.team, env |-> row.env, pattern |-> row.pattern, caller |-> g,
                   cost |-> row.cost, stamp |-> 0, limit |-> None, place |-> row.place]
  <2>1. Validate(d) /\ row.cost \in Nat
    BY <1>4 DEF ValidateDestroy, CostInv, Balanced
  <2>2. Limited(d)
    BY <2>1 DEF Limited
  <2> QED
    BY <2>1, <2>2, ValidateCosts
<1> QED
  BY <1>2, <1>3, <1>4

\* A resource's row changes.
LEMMA RowCosts ==
  ASSUME TeamsInv, CostInv, UNCHANGED revisions, drafts' \subseteq drafts, NEW r \in Resource,
         \A q \in Resource \ {r} : rows'[q] = rows[q],
         Balanced(rows'[r]), rows[r].state # "absent" => rows'[r].env = rows[r].env
  PROVE  CostInv'
<1>1. \A q \in Resource : Balanced(rows[q])'
  <2> TAKE q \in Resource
  <2>1. rows'[q] = rows[q] \/ q = r
    OBVIOUS
  <2> QED
    BY <2>1 DEF CostInv, Balanced
<1>2. ASSUME NEW d \in drafts PROVE Limited(d)'
  <2>1. Limited(d) /\ Matches(d)
    BY DEF CostInv, TeamsInv
  <2>2. d.resource # None => rows'[d.resource].env = rows[d.resource].env
    BY <2>1 DEF Matches
  <2> QED
    BY <2>1, <2>2 DEF Limited, Revision, Doc
<1> QED
  BY <1>1, <1>2 DEF CostInv

\* What an acceptance does to the costs.
Accepts(d, r) ==
    /\ d.resource \in {None, r} /\ (d.resource = None <=> rows[r].state = "absent")
    /\ _check_placement(d)
    /\ d.action = "deploy" => Fits(d, r, Larger(rows[r].cost, d.cost))
    /\ \A q \in Resource \ {r} : rows'[q] = rows[q]
    /\ rows[r].state # "absent" =>
           /\ rows'[r].state = rows[r].state
           /\ rows'[r].team = rows[r].team /\ rows'[r].env = rows[r].env
    /\ rows[r].state = "absent" =>
           rows'[r].state = "live" /\ rows'[r].team = d.team /\ rows'[r].env = d.env
    /\ rows'[r].busy = d.action
    /\ rows'[r].requested = d.cost /\ rows'[r].previous = rows[r].cost
    /\ rows'[r].cost = IF d.action = "deploy" THEN Larger(rows[r].cost, d.cost) ELSE rows[r].cost
    /\ rows'[r].revived = (rows[r].revived \/ rows[r].state = "destroyed")
    /\ drafts' \subseteq drafts /\ UNCHANGED revisions

LEMMA AcceptMeans ==
  ASSUME TeamsInv, NEW d \in drafts, accept(d)
  PROVE  \E r \in Resource : Accepts(d, r)
<1>1. PICK r \in Resource :
          /\ d.resource \in {None, r} /\ (d.resource = None <=> rows[r].state = "absent")
          /\ _check_placement(d)
          /\ d.action = "deploy" => Fits(d, r, Larger(rows[r].cost, d.cost))
          /\ rows' = [rows EXCEPT ![r] = AcceptedRow(d, rows[r])]
          /\ drafts' = drafts \ {d} /\ UNCHANGED <<revisions, forms>>
  BY DEF accept
<1> DEFINE row == rows[r]
           new == AcceptedRow(d, row)
<1>2. DOMAIN row = Rows /\ DOMAIN rows = Resource
  BY DEF TeamsInv, Typed
<1>3. /\ new.busy = d.action /\ new.requested = d.cost /\ new.previous = row.cost
      /\ new.cost = IF d.action = "deploy" THEN Larger(row.cost, d.cost) ELSE row.cost
      /\ new.revived = (row.revived \/ row.state = "destroyed")
  BY <1>2 DEF AcceptedRow, Rows
<1>4. row.state # "absent" => new.state = row.state /\ new.team = row.team /\ new.env = row.env
  BY <1>2 DEF AcceptedRow, Rows
<1>5. row.state = "absent" => new.state = "live" /\ new.team = d.team /\ new.env = d.env
  BY <1>2 DEF AcceptedRow, Rows
<1>6. rows'[r] = new /\ \A q \in Resource \ {r} : rows'[q] = row \/ rows'[q] = rows[q]
  BY <1>1, <1>2
<1>7. \A q \in Resource \ {r} : rows'[q] = rows[q]
  BY <1>1, <1>2
<1> HIDE DEF new
<1>8. Accepts(d, r)
  BY <1>1, <1>3, <1>4, <1>5, <1>6, <1>7 DEF Accepts
<1> QED
  BY <1>8

LEMMA AcceptCosts ==
  ASSUME TeamsInv, CostInv, NEW d \in drafts, accept(d)
  PROVE  CostInv'
<1>1. PICK r \in Resource : Accepts(d, r)
  BY AcceptMeans
<1>2. Matches(d) /\ d.cost \in Nat /\ rows[r].cost \in Nat
  BY DEF TeamsInv, CostInv, Limited, Balanced
<1>3. Balanced(rows'[r])
  BY <1>1, <1>2 DEF Accepts, Balanced, Larger, Matches
<1> QED
  BY <1>1, <1>3, RowCosts DEF Accepts

\* An operation that moves on or ends: the resource reserves no more than before,
\* in the same place, unless it was destroyed already.
Eases(r) ==
    /\ \A q \in Resource \ {r} : rows'[q] = rows[q]
    /\ Balanced(rows'[r])
    /\ rows'[r].team = rows[r].team /\ rows'[r].env = rows[r].env
    /\ rows'[r].revived = rows[r].revived
    /\ rows'[r].state = "live" => rows'[r].cost <= rows[r].cost
    /\ rows'[r].state = "live" => rows[r].state = "live" \/ rows[r].revived
    /\ drafts' = drafts /\ UNCHANGED revisions

LEMMA OperationEases ==
  ASSUME TeamsInv, CostInv, NEW r \in Resource,
         (\E g \in Caller : execute(r, g)) \/ Succeed(r) \/ Fail(r)
  PROVE  Eases(r)
<1> DEFINE row == rows[r]
<1>1. WellFormed(row) /\ Balanced(row) /\ DOMAIN row = Rows /\ DOMAIN rows = Resource
  BY DEF TeamsInv, Typed, CostInv
<1>2. ASSUME NEW g \in Caller, execute(r, g) PROVE Eases(r)
  <2> DEFINE new == [row EXCEPT !.executing = TRUE]
  <2>1. rows' = [rows EXCEPT ![r] = new] /\ UNCHANGED <<revisions, forms, drafts>>
    BY <1>1, <1>2 DEF execute
  <2>2. /\ new.state = row.state /\ new.busy = row.busy /\ new.team = row.team /\ new.env = row.env
        /\ new.cost = row.cost /\ new.requested = row.requested /\ new.previous = row.previous
        /\ new.revived = row.revived
    BY <1>1 DEF Rows
  <2>3. rows'[r] = new /\ \A q \in Resource \ {r} : rows'[q] = rows[q]
    BY <1>1, <2>1
  <2> HIDE DEF new
  <2> QED
    BY <1>1, <2>1, <2>2, <2>3 DEF Eases, Balanced
<1>3. ASSUME NEW cost
      PROVE  /\ DOMAIN Idle(row, cost) = Rows
             /\ Idle(row, cost).state = row.state /\ Idle(row, cost).busy = None
             /\ Idle(row, cost).team = row.team /\ Idle(row, cost).env = row.env
             /\ Idle(row, cost).revived = row.revived /\ Idle(row, cost).cost = cost
             /\ Idle(row, cost).requested = 0 /\ Idle(row, cost).previous = 0
  BY <1>1 DEF Idle, Rows
<1>4. ASSUME Succeed(r) PROVE Eases(r)
  <2> DEFINE after == Idle(row, row.requested)
             new == [after EXCEPT !.state = IF row.busy = "destroy" THEN "destroyed" ELSE "live"]
  <2>1. rows' = [rows EXCEPT ![r] = new] /\ UNCHANGED <<revisions, forms, drafts>> /\ row.executing
    BY <1>1, <1>4 DEF Succeed
  <2> HIDE DEF after
  <2>2. /\ DOMAIN after = Rows /\ after.busy = None /\ after.team = row.team /\ after.env = row.env
        /\ after.revived = row.revived /\ after.cost = row.requested
        /\ after.requested = 0 /\ after.previous = 0
    BY <1>3 DEF after
  <2>3. /\ new.busy = None /\ new.team = row.team /\ new.env = row.env
        /\ new.revived = row.revived /\ new.cost = row.requested
        /\ new.requested = 0 /\ new.previous = 0
        /\ new.state = IF row.busy = "destroy" THEN "destroyed" ELSE "live"
    BY <2>2 DEF Rows
  <2>4. rows'[r] = new /\ \A q \in Resource \ {r} : rows'[q] = rows[q]
    BY <1>1, <2>1
  <2> HIDE DEF new
  <2>5. row.busy # None /\ (row.busy = "deploy" => row.requested <= row.cost)
    BY <1>1, <2>1 DEF Balanced, WellFormed
  <2> QED
    BY <1>1, <2>1, <2>3, <2>4, <2>5, NoneAssumption DEF Eases, Balanced, WellFormed
<1>5. ASSUME Fail(r) PROVE Eases(r)
  <2> DEFINE new == Idle(row, row.previous)
  <2>1. rows' = [rows EXCEPT ![r] = new] /\ UNCHANGED <<revisions, forms, drafts>> /\ row.busy # None
    BY <1>1, <1>5 DEF Fail
  <2>2. /\ new.state = row.state /\ new.busy = None /\ new.team = row.team /\ new.env = row.env
        /\ new.revived = row.revived /\ new.cost = row.previous
        /\ new.requested = 0 /\ new.previous = 0
    BY <1>3
  <2>3. rows'[r] = new /\ \A q \in Resource \ {r} : rows'[q] = rows[q]
    BY <1>1, <2>1
  <2> HIDE DEF new
  <2> QED
    BY <1>1, <2>1, <2>2, <2>3, NoneAssumption DEF Eases, Balanced, WellFormed
<1> QED
  BY <1>2, <1>4, <1>5

LEMMA RequestCosts ==
  ASSUME TeamsInv, CostInv, Request
  PROVE  CostInv'
<1>1. ASSUME NEW r \in Resource,
             (\E g \in Caller : execute(r, g)) \/ Succeed(r) \/ Fail(r)
      PROVE  CostInv'
  <2>1. Eases(r)
    BY <1>1, OperationEases
  <2> QED
    BY <2>1, RowCosts DEF Eases
<1>2. ASSUME NEW d \in drafts, Refuse(d) PROVE CostInv'
  BY <1>2 DEF Refuse, CostInv, Balanced, Limited, Revision, Doc
<1> QED
  BY <1>1, <1>2, ValidatedCosts, AcceptCosts DEF Request

LEMMA InitCosts == Init => CostInv
BY NoneAssumption DEF Init, NoRow, CostInv, Balanced

LEMMA NextCosts == TeamsInv /\ CostInv /\ [Next]_vars => CostInv'
<1>1. ASSUME CostInv, UNCHANGED vars PROVE CostInv'
  BY <1>1 DEF vars, CostInv, Balanced, Limited, Revision, Doc
<1> QED
  BY <1>1, AdministerCosts, RequestCosts DEF Next

-----------------------------------------------------------------------------
(* Overrun budgets.                                                         *)

LEMMA OverrunMeans ==
  ASSUME NEW t, NEW e
  PROVE  /\ e \in Overrun(t) <=> /\ Exists(t) /\ e \in DOMAIN Doc(t).envs
                                 /\ Exceeds(_reserved(t, e, {}), Doc(t).envs[e].budget)
         /\ e \in Overrun(t)' <=> /\ Exists(t)' /\ e \in DOMAIN Doc(t)'.envs
                                  /\ Exceeds(_reserved(t, e, {})', Doc(t)'.envs[e].budget)
<1>1. e \in Overrun(t) <=> /\ Exists(t) /\ e \in DOMAIN Doc(t).envs
                           /\ Exceeds(_reserved(t, e, {}), Doc(t).envs[e].budget)
  BY DEF Overrun, Envs
<1>2. e \in Overrun(t)' <=> /\ Exists(t)' /\ e \in DOMAIN Doc(t)'.envs
                            /\ Exceeds(_reserved(t, e, {})', Doc(t)'.envs[e].budget)
  BY DEF Overrun, Envs, Exceeds
<1> QED
  BY <1>1, <1>2

\* While the rows stay, so does what they reserve.
LEMMA ReservedStays ==
  ASSUME NEW t, NEW e, rows' = rows
  PROVE  _reserved(t, e, {})' = _reserved(t, e, {})
BY DEF _reserved, _cost, Living

\* The environment that a single write takes over its budget is one of the
\* document it wrote, which is new.
LEMMA WrittenOverrun ==
  ASSUME Typed, NEW o \in Operator, NEW v \in Team, NEW entry \in Stored, write(o, v, entry),
         NEW t \in Team, NEW e \in Overrun(t)', e \notin Overrun(t)
  PROVE  /\ v = t
         /\ e \in DOMAIN entry.doc.envs
         /\ Exceeds(_reserved(t, e, {}), entry.doc.envs[e].budget)
         /\ ~(Exists(t) /\ entry.doc = Doc(t))
<1>1. /\ revisions'[v] = Append(revisions[v], entry) /\ rows' = rows
      /\ \A w \in Team \ {v} : revisions'[w] = revisions[w]
  BY DEF write, Typed
<1>2. Exists(v)' /\ Doc(v)' = entry.doc
  BY <1>1, AfterWrite
<1>3. _reserved(t, e, {})' = _reserved(t, e, {})
  BY <1>1, ReservedStays
<1>4. /\ Exists(t)' /\ e \in DOMAIN Doc(t)'.envs
      /\ Exceeds(_reserved(t, e, {}), Doc(t)'.envs[e].budget)
  BY <1>3, OverrunMeans
<1>5. t # v => (Exists(t)' <=> Exists(t)) /\ Doc(t)' = Doc(t)
  BY <1>1, LeftAlone
<1>6. v = t
  BY <1>4, <1>5, OverrunMeans
<1> QED
  BY <1>2, <1>4, <1>6, OverrunMeans

\* The check before a write names an overrun budget among its warnings.
LEMMA OverrunIsWarned ==
  ASSUME NEW o \in Operator, NEW t \in Team, NEW doc, NEW others, _gate(o, t, doc, others),
         NEW e \in DOMAIN doc.envs, Exceeds(_reserved(t, e, {}), doc.envs[e].budget)
  PROVE  "budget_below_reserved" \in Acknowledge[o]
<1>1. "budget_below_reserved" \in Warnings(t, doc, others)
  BY DEF Warnings, Code
<1> QED
  BY <1>1 DEF _gate

LEMMA OneTeamOverrun ==
  ASSUME TeamsInv, NEW o \in Operator, NEW v \in Team,
         \/ \E doc \in Docs[v] : create(o, v, doc) \/ replace(o, v, doc)
         \/ \E n \in 1..MaxRevision[v] : revert(o, v, n)
         \/ \E force_archive \in BOOLEAN : archive(o, v, force_archive)
         \/ unarchive(o, v),
         NEW t \in Team, NEW e \in Overrun(t)', e \notin Overrun(t)
  PROVE  Sent(o) /\ "budget_below_reserved" \in Acknowledge[o]
<1>1. Typed /\ DOMAIN forms = Operator
  BY DEF TeamsInv, Typed
<1>2. ASSUME NEW doc \in Documents, replace(o, v, doc)
      PROVE  Sent(o) /\ "budget_below_reserved" \in Acknowledge[o]
  <2>1. /\ forms[o] # None /\ Exists(v) /\ _gate(o, v, doc, Others(v))
        /\ write(o, v, Entry(doc, Archived(v)))
    BY <1>2 DEF replace, _stored
  <2>2. Entry(doc, Archived(v)) \in Stored /\ Entry(doc, Archived(v)).doc = doc
    BY <1>1, <2>1, StoredDocument DEF Entry, Stored
  <2>3. v = t /\ e \in DOMAIN doc.envs /\ Exceeds(_reserved(t, e, {}), doc.envs[e].budget)
    BY <1>1, <2>1, <2>2, WrittenOverrun
  <2>4. Sent(o)
    BY <1>1, <2>1 DEF write, Sent
  <2> QED
    BY <2>1, <2>3, <2>4, OverrunIsWarned
<1>3. ASSUME NEW n, revert(o, v, n)
      PROVE  Sent(o) /\ "budget_below_reserved" \in Acknowledge[o]
  <2>1. revisions[v] \in Seq(Stored) /\ n \in 1..Len(revisions[v])
    BY <1>1, <1>3 DEF revert, Typed, Revision
  <2>2. revisions[v][n] \in Stored
    BY <2>1
  <2>3. revisions[v][n].doc \in Documents
    BY <2>2 DEF Stored
  <2> QED
    BY <1>2, <1>3, <2>3 DEF revert
<1>4. ASSUME NEW archived \in BOOLEAN, Exists(v), write(o, v, Entry(Doc(v), archived))
      PROVE  FALSE
  <2>1. Entry(Doc(v), archived) \in Stored /\ Entry(Doc(v), archived).doc = Doc(v)
    BY <1>1, <1>4, StoredDocument DEF Entry, Stored
  <2> QED
    BY <1>1, <1>4, <2>1, WrittenOverrun
<1>5. ASSUME NEW force_archive \in BOOLEAN, archive(o, v, force_archive) PROVE FALSE
  BY <1>4, <1>5 DEF archive, _stored
<1>6. ASSUME unarchive(o, v) PROVE FALSE
  BY <1>4, <1>6 DEF unarchive, _stored
<1>7. ASSUME NEW doc \in Docs[v], create(o, v, doc) PROVE FALSE
  <2>1. ~Exists(v) /\ write(o, v, Entry(doc, FALSE))
    BY <1>7 DEF create
  <2>2. Entry(doc, FALSE) \in Stored /\ Entry(doc, FALSE).doc = doc
    BY DEF Entry, Stored, Documents
  <2>3. v = t /\ e \in DOMAIN doc.envs /\ Exceeds(_reserved(t, e, {}), doc.envs[e].budget)
    BY <1>1, <2>1, <2>2, WrittenOverrun
  <2>4. Living(t) = {}
    BY <2>1, <2>3 DEF Living, TeamsInv, WellFormed
  <2>5. _reserved(t, e, {}) = 0
    BY <2>4, NothingReserved
  <2>6. doc.envs[e].budget \in Nat \cup {None}
    BY <2>3, BudgetAssumption
  <2> QED
    BY <2>3, <2>5, <2>6 DEF Exceeds
<1> QED
  BY <1>2, <1>3, <1>5, <1>6, <1>7 DEF Documents

LEMMA ImportOverrun ==
  ASSUME TeamsInv, NEW o \in Operator, NEW units \in Imports, import_teams(o, units),
         NEW t \in Team, NEW e \in Overrun(t)', e \notin Overrun(t)
  PROVE  Sent(o) /\ "budget_below_reserved" \in Acknowledge[o]
<1> DEFINE changing == Changing(units)
           entry == Entry(units[t], Exists(t) /\ Archived(t))
<1>1. Typed /\ DOMAIN forms = Operator
  BY DEF TeamsInv, Typed
<1>2. /\ forms[o] # None /\ forms'[o] = None /\ rows' = rows
      /\ \A w \in changing : _gate(o, w, units[w], _final(units, w))
      /\ revisions'[t] = IF t \in changing THEN Append(revisions[t], entry) ELSE revisions[t]
  BY <1>1 DEF import_teams
<1>3. _reserved(t, e, {})' = _reserved(t, e, {})
  BY <1>2, ReservedStays
<1>4. /\ Exists(t)' /\ e \in DOMAIN Doc(t)'.envs
      /\ Exceeds(_reserved(t, e, {}), Doc(t)'.envs[e].budget)
  BY <1>3, OverrunMeans
<1>5. t \in changing
  <2>1. t \notin changing => (Exists(t)' <=> Exists(t)) /\ Doc(t)' = Doc(t)
    BY <1>2, LeftAlone
  <2> HIDE DEF changing
  <2> QED
    BY <1>4, <2>1, OverrunMeans
<1>6. entry \in Stored /\ entry.doc = units[t]
  <2>1. units[t] \in Documents
    BY <1>5 DEF Changing, Imports, Documents
  <2>2. (Exists(t) /\ Archived(t)) \in BOOLEAN
    BY <1>1, StoredDocument
  <2> QED
    BY <2>1, <2>2 DEF Entry, Stored
<1> HIDE DEF changing, entry
<1>7. Doc(t)' = units[t]
  BY <1>1, <1>2, <1>5, <1>6, AfterWrite
<1>8. "budget_below_reserved" \in Acknowledge[o]
  BY <1>2, <1>4, <1>5, <1>7, OverrunIsWarned
<1> QED
  BY <1>2, <1>8 DEF Sent

\* A resource that reserves no more than before overruns nothing.
LEMMA EasesOverrunsNothing ==
  ASSUME TeamsInv, CostInv, NEW r \in Resource, Eases(r), Revived' = {},
         NEW t \in Team, NEW e \in Overrun(t)'
  PROVE  e \in Overrun(t)
<1>1. \A q \in Resource : rows[q].cost \in Nat /\ rows'[q].cost \in Nat
  BY DEF CostInv, Balanced, Eases
<1>2. Counted(rows'[r], t, e) \in Nat /\ Counted(rows[r], t, e) \in Nat
  BY <1>1 DEF Counted
<1>3. Counted(rows'[r], t, e) <= Counted(rows[r], t, e)
  <2>1. ~rows[r].revived
    BY DEF Eases, Revived
  <2> QED
    BY <1>1, <2>1 DEF Counted, Reserves, Eases
<1>4. /\ _reserved(t, e, {r}) \in Nat
      /\ _reserved(t, e, {}) = Counted(rows[r], t, e) + _reserved(t, e, {r})
      /\ _reserved(t, e, {})' = Counted(rows'[r], t, e) + _reserved(t, e, {r})
  BY <1>1, ReservedParts DEF Eases
<1>5. /\ _reserved(t, e, {}) \in Nat /\ _reserved(t, e, {})' \in Nat
      /\ _reserved(t, e, {})' <= _reserved(t, e, {})
  BY <1>2, <1>3, <1>4
<1>6. (Exists(t)' <=> Exists(t)) /\ Doc(t)' = Doc(t)
  BY LeftAlone DEF Eases
<1>7. /\ Exists(t) /\ e \in DOMAIN Doc(t).envs
      /\ Exceeds(_reserved(t, e, {})', Doc(t).envs[e].budget)
  BY <1>6, OverrunMeans
<1>8. Doc(t).envs[e].budget \in Nat \cup {None}
  <2>1. Doc(t) \in Documents
    BY <1>7, StoredDocument DEF TeamsInv
  <2> QED
    BY <1>7, <2>1, BudgetAssumption DEF Documents
<1>9. Exceeds(_reserved(t, e, {}), Doc(t).envs[e].budget)
  BY <1>5, <1>7, <1>8 DEF Exceeds
<1> QED
  BY <1>7, <1>9, OverrunMeans

\* An acceptance stays within the budget of its environment, and changes no other.
LEMMA AcceptOverrunsNothing ==
  ASSUME TeamsInv, CostInv, NEW d \in drafts, accept(d), Revived' = {},
         NEW t \in Team, NEW e \in Overrun(t)'
  PROVE  e \in Overrun(t)
<1>1. PICK r \in Resource : Accepts(d, r)
  BY AcceptMeans
<1>2. Matches(d) /\ Limited(d) /\ WellFormed(rows[r])
  BY DEF TeamsInv, CostInv
<1>3. d.cost \in Nat /\ \A q \in Resource : rows[q].cost \in Nat /\ rows'[q].cost \in Nat
  <2>1. d.cost \in Nat /\ \A q \in Resource : rows[q].cost \in Nat
    BY <1>2 DEF CostInv, Balanced, Limited
  <2>2. rows'[r].cost \in Nat
    BY <1>1, <2>1 DEF Accepts, Larger
  <2> QED
    BY <1>1, <2>1, <2>2 DEF Accepts
<1>4. rows[r].state \in {"absent", "live"}
  BY <1>1, <1>2 DEF Accepts, Revived, WellFormed
<1>5. rows'[r].state = "live" /\ rows'[r].team = d.team /\ rows'[r].env = d.env
  BY <1>1, <1>2, <1>4 DEF Accepts, Matches, Limited
<1>6. /\ _reserved(t, e, {r}) \in Nat
      /\ _reserved(t, e, {}) = Counted(rows[r], t, e) + _reserved(t, e, {r})
      /\ _reserved(t, e, {})' = Counted(rows'[r], t, e) + _reserved(t, e, {r})
  BY <1>1, <1>3, ReservedParts DEF Accepts
<1>7. (Exists(t)' <=> Exists(t)) /\ Doc(t)' = Doc(t)
  BY <1>1, LeftAlone DEF Accepts
<1>8. /\ Exists(t) /\ e \in DOMAIN Doc(t).envs
      /\ Exceeds(_reserved(t, e, {})', Doc(t).envs[e].budget)
  BY <1>7, OverrunMeans
<1>9. CASE Counted(rows'[r], t, e) = Counted(rows[r], t, e)
  <2>1. _reserved(t, e, {})' = _reserved(t, e, {})
    BY <1>6, <1>9
  <2> QED
    BY <1>8, <2>1, OverrunMeans
<1>10. CASE Counted(rows'[r], t, e) # Counted(rows[r], t, e)
  <2>1. t = d.team /\ e = d.env
    BY <1>1, <1>2, <1>4, <1>5, <1>10 DEF Counted, Reserves, Accepts, Matches, Limited
  <2>2. d.action = "deploy"
    BY <1>1, <1>2, <1>4, <1>5, <1>10 DEF Counted, Reserves, Accepts, Matches
  <2>3. /\ Revision(t) = d.stamp
        /\ Fits(d, r, Larger(rows[r].cost, d.cost))
        /\ Counted(rows'[r], t, e) = Larger(rows[r].cost, d.cost)
    BY <1>1, <1>5, <2>1, <2>2 DEF Accepts, _check_placement, Counted, Reserves
  <2>4. d.limit = Doc(t).envs[e].budget
    BY <1>2, <2>1, <2>2, <2>3 DEF Limited
  <2>5. _reserved(t, e, {})' = Larger(rows[r].cost, d.cost) + _reserved(t, e, {r})
    BY <1>6, <2>3
  <2>6. Larger(rows[r].cost, d.cost) \in Nat /\ _reserved(t, e, {r}) \in Nat
    BY <1>3, <1>6 DEF Larger
  <2>7. d.limit # None => _reserved(t, e, {})' <= d.limit
    BY <2>1, <2>3, <2>5, <2>6 DEF Fits
  <2>8. Doc(t).envs[e].budget \in Nat \cup {None}
    <3>1. Doc(t) \in Documents
      BY <1>8, StoredDocument DEF TeamsInv
    <3> QED
      BY <1>8, <3>1, BudgetAssumption DEF Documents
  <2> QED
    BY <1>8, <2>4, <2>5, <2>6, <2>7, <2>8 DEF Exceeds
<1> QED
  BY <1>9, <1>10

\* No request overruns a budget.
LEMMA RequestOverrunsNothing ==
  ASSUME TeamsInv, CostInv, Request, Revived' = {}, NEW t \in Team, NEW e \in Overrun(t)'
  PROVE  e \in Overrun(t)
<1>1. CASE UNCHANGED <<revisions, rows>>
  BY <1>1 DEF Overrun, Envs, Exists, Revision, Doc, _reserved, _cost, Living
<1>2. ASSUME NEW r \in Resource,
             (\E g \in Caller : execute(r, g)) \/ Succeed(r) \/ Fail(r)
      PROVE  e \in Overrun(t)
  <2>1. Eases(r)
    BY <1>2, OperationEases
  <2> QED
    BY <2>1, EasesOverrunsNothing
<1> QED
  BY <1>1, <1>2, AcceptOverrunsNothing
     DEF Request, ValidateCreate, ValidateUpdate, ValidateDestroy, Validate, Refuse

-----------------------------------------------------------------------------
(* Theorems                                                                 *)

\* The invariant holds in every state.
THEOREM TeamsSound == TeamsSpec => []TeamsInv
BY InitInv, NextInv, PTL DEF TeamsSpec

\* No replacement, revert, import, archive or acceptance leaves a living resource
\* elsewhere than where its team's document places it (impact_findings,
\* _check_placement).
THEOREM LivingResourcesStayPlaced == TeamsSpec => []ResourcesStayPlaced
<1>1. TeamsInv => ResourcesStayPlaced
  BY DEF TeamsInv, WellFormed, InPlace, Places, ResourcesStayPlaced
<1> QED
  BY <1>1, TeamsSound, PTL

\* An archive blocks no plan that was accepted before it, and nothing is accepted
\* under an archived team (archived_since, _refuse_new_work_on_archived).
THEOREM ArchivesSparePlans == TeamsSpec => []PlansOutliveArchives
<1>1. TeamsInv => PlansOutliveArchives
  <2> SUFFICES ASSUME TeamsInv, NEW r \in Resource, rows[r].busy = "deploy"
               PROVE  ~(rows[r].since >= archived_since(rows[r].team))
    BY DEF PlansOutliveArchives, _refuse_new_work_on_archived
  <2>1. Typed /\ rows[r].team \in Team /\ AcceptedWhileActive(rows[r])
    BY NoneAssumption DEF TeamsInv, WellFormed
  <2> QED
    BY <2>1, ActiveBeforeArchive DEF AcceptedWhileActive
<1> QED
  BY <1>1, TeamsSound, PTL

\* Every step that writes a revision over another belongs to an operator who had
\* read that one (If-Match, the revisions of a dry run).
THEOREM EditsAreNotLost == TeamsSpec => NoLostUpdate
<1>1. ASSUME TeamsInv, [Next]_vars
      PROVE  [\A t \in Team : Exists(t) /\ revisions'[t] # revisions[t] =>
                  \E o \in Operator : Sent(o) /\ forms[o][t] = Revision(t)]_vars
  <2> SUFFICES ASSUME Next, NEW t \in Team, Exists(t), revisions'[t] # revisions[t]
               PROVE  \E o \in Operator : Sent(o) /\ forms[o][t] = Revision(t)
    BY <1>1
  <2>1. revisions \in [Team -> Seq(Stored)] /\ DOMAIN forms = Operator
    BY <1>1 DEF TeamsInv, Typed
  <2>2. ASSUME NEW o \in Operator, NEW u \in Team, NEW entry, write(o, u, entry),
               Exists(u) => _stored(o, u)
        PROVE  Sent(o) /\ forms[o][t] = Revision(t)
    BY <2>1, <2>2 DEF write, _stored, Sent
  <2>3. ASSUME NEW o \in Operator, NEW u \in Team,
               \/ \E doc \in Docs[u] : create(o, u, doc) \/ replace(o, u, doc)
               \/ \E n \in 1..MaxRevision[u] : revert(o, u, n)
               \/ \E force_archive \in BOOLEAN : archive(o, u, force_archive)
               \/ unarchive(o, u)
        PROVE  Sent(o) /\ forms[o][t] = Revision(t)
    BY <2>2, <2>3 DEF create, replace, revert, archive, unarchive
  <2>4. ASSUME NEW o \in Operator, NEW units \in Imports, import_teams(o, units)
        PROVE  Sent(o) /\ forms[o][t] = Revision(t)
    BY <2>1, <2>4 DEF import_teams, _stored, Sent
  <2>5. ~Request
    BY DEF Request, ValidateCreate, ValidateUpdate, ValidateDestroy, Validate, execute, accept,
           Refuse, Succeed, Fail
  <2> QED
    BY <2>3, <2>4, <2>5 DEF Next, Administer, Read
<1> QED
  BY <1>1, TeamsSound, PTL DEF TeamsSpec, NoLostUpdate
\* Two teams share a group only after a write whose operator acknowledged it, or
\* the creation of one of them (check_team against the other teams, import_teams
\* against the teams as the import leaves them).
THEOREM SharingIsAcknowledged == TeamsSpec => OverlapAcknowledged
<1>1. ASSUME TeamsInv, [Next]_vars
      PROVE  [\A t, u \in Team : t # u /\ Shares(t, u)' /\ ~Shares(t, u) =>
                  \/ \E v \in Team : ~Exists(v) /\ \A w \in Team \ {v} : revisions'[w] = revisions[w]
                  \/ \E o \in Operator : Sent(o) /\ "groups_overlap" \in Acknowledge[o]]_vars
  <2> SUFFICES ASSUME Next, NEW t \in Team, NEW u \in Team, t # u, Shares(t, u)', ~Shares(t, u)
               PROVE  \/ \E v \in Team : ~Exists(v) /\ \A w \in Team \ {v} : revisions'[w] = revisions[w]
                      \/ \E o \in Operator : Sent(o) /\ "groups_overlap" \in Acknowledge[o]
    BY <1>1
  <2>1. revisions' # revisions
    BY DEF Shares, Exists, Revision, Doc
  <2>2. PICK o \in Operator :
            \/ \E units \in Imports : import_teams(o, units)
            \/ \E v \in Team : \E doc \in Docs[v] : create(o, v, doc)
            \/ \E v \in Team :
                   \/ \E doc \in Docs[v] : replace(o, v, doc)
                   \/ \E n \in 1..MaxRevision[v] : revert(o, v, n)
                   \/ \E force_archive \in BOOLEAN : archive(o, v, force_archive)
                   \/ unarchive(o, v)
    BY <2>1, RequestsLeaveTeams DEF Next, Administer, Read
  <2>3. CASE \E units \in Imports : import_teams(o, units)
    BY <1>1, <2>3, ImportOverlap
  <2>4. CASE \E v \in Team : \E doc \in Docs[v] : create(o, v, doc)
    BY <1>1, <2>4, CreatedAlone DEF TeamsInv
  <2>5. ASSUME NEW v \in Team,
               \/ \E doc \in Docs[v] : replace(o, v, doc)
               \/ \E n \in 1..MaxRevision[v] : revert(o, v, n)
               \/ \E force_archive \in BOOLEAN : archive(o, v, force_archive)
               \/ unarchive(o, v)
        PROVE  Sent(o) /\ "groups_overlap" \in Acknowledge[o]
    BY <1>1, <2>5, OneTeamOverlap
  <2> QED
    BY <2>2, <2>3, <2>4, <2>5
<1> QED
  BY <1>1, TeamsSound, PTL DEF TeamsSpec, OverlapAcknowledged
\* A budget is overrun only by a write whose operator acknowledged it: every
\* acceptance reads the budget its request was validated against, and fits it
\* (check_team, _check_placement, accept).
THEOREM OverrunIsAcknowledged == TeamsSpec => OverrunAcknowledged
<1>1. TeamsSpec => []CostInv
  BY InitCosts, NextCosts, TeamsSound, PTL DEF TeamsSpec
<1>2. ASSUME TeamsInv, CostInv, [Next]_vars
      PROVE  [\A t \in Team : Revived' = {} /\ ~(Overrun(t)' \subseteq Overrun(t)) =>
                  \E o \in Operator : Sent(o) /\ "budget_below_reserved" \in Acknowledge[o]]_vars
  <2> SUFFICES ASSUME Next, NEW t \in Team, Revived' = {}, ~(Overrun(t)' \subseteq Overrun(t))
               PROVE  \E o \in Operator : Sent(o) /\ "budget_below_reserved" \in Acknowledge[o]
    BY <1>2
  <2>1. PICK e \in Overrun(t)' : e \notin Overrun(t)
    OBVIOUS
  <2>2. Administer
    BY <1>2, <2>1, RequestOverrunsNothing DEF Next
  <2>3. PICK o \in Operator :
            \/ Read(o)
            \/ \E units \in Imports : import_teams(o, units)
            \/ \E v \in Team :
                   \/ \E doc \in Docs[v] : create(o, v, doc) \/ replace(o, v, doc)
                   \/ \E n \in 1..MaxRevision[v] : revert(o, v, n)
                   \/ \E force_archive \in BOOLEAN : archive(o, v, force_archive)
                   \/ unarchive(o, v)
    BY <2>2 DEF Administer
  <2>4. CASE Read(o)
    BY <2>1, <2>4 DEF Read, Overrun, Envs, Exists, Revision, Doc, _reserved, _cost, Living
  <2>5. CASE \E units \in Imports : import_teams(o, units)
    BY <1>2, <2>1, <2>5, ImportOverrun
  <2>6. ASSUME NEW v \in Team,
               \/ \E doc \in Docs[v] : create(o, v, doc) \/ replace(o, v, doc)
               \/ \E n \in 1..MaxRevision[v] : revert(o, v, n)
               \/ \E force_archive \in BOOLEAN : archive(o, v, force_archive)
               \/ unarchive(o, v)
        PROVE  Sent(o) /\ "budget_below_reserved" \in Acknowledge[o]
    BY <1>2, <2>1, <2>6, OneTeamOverrun
  <2> QED
    BY <2>3, <2>4, <2>5, <2>6
<1> QED
  BY <1>1, <1>2, TeamsSound, PTL DEF TeamsSpec, OverrunAcknowledged
=============================================================================
