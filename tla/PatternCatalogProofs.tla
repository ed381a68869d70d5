------------------------- MODULE PatternCatalogProofs -------------------------
(***************************************************************************)
(* Theorems about PatternCatalog, for any number of versions, commits,     *)
(* threads and requests: promotions deploy what ran, no request reads an   *)
(* unfinished checkout, and the findings a pattern shows are those of a    *)
(* commit that was its default version's.                                  *)
(***************************************************************************)
EXTENDS PatternCatalog, TLAPS

Steps == {"idle", "source", "row", "resolve", "checkout", "fetch", "write", "touch",
          "read", "default"}
Kinds == {"none", "describe", "check", "update", "upgrade", "promote"}

Request == [pc : Steps, kind : Kinds, asked : Version \cup {None},
            version : Version \cup {None}, expected : Commit \cup {None},
            commit : Commit \cup {None}, seen : Nat]

\* A request that resolved its version has a commit.
Late(r) == r.pc \notin {"idle", "source", "row", "resolve"} =>
               r.commit \in Commit /\ r.version \in Version

TypedRequests ==
    /\ req \in [Process -> Request]
    /\ \A p \in Process : Late(req[p])

TypedRow ==
    row \in [state : {"pending", "ready"}, version : Version, commit : Commit,
             operation : Nat, change : {None} \cup (Version \X Commit)]

\* The types that the arguments below rest on.
Typed ==
    /\ tag \in [Version -> Commit \cup {None}]
    /\ disk \in [Commit -> [files : {"none", "some", "all"}, ready : BOOLEAN]]
    /\ holder \in [Commit -> Process \cup {None}]
    /\ described \subseteq Version \X Commit
    /\ ran \subseteq Commit
    /\ TypedRow
    /\ TypedRequests

\* Whoever makes a checkout holds its lock, and nothing ready is made again.
Making ==
    \A p \in Process :
        /\ req[p].pc \in {"fetch", "write", "touch"} =>
               holder[req[p].commit] = p /\ ~disk[req[p].commit].ready
        /\ req[p].pc = "touch" => disk[req[p].commit].files = "all"

\* A ready checkout is complete and nobody's to write.
ReadyIsWhole ==
    \A c \in Commit : disk[c].ready => disk[c].files = "all" /\ holder[c] = None

\* A reader found the marker.
ReadersFoundReady ==
    \A p \in Process : req[p].pc = "read" => disk[req[p].commit].ready

CheckoutInv == Making /\ ReadyIsWhole /\ ReadersFoundReady

\* A promotion on its way carries a commit that ran, and resolves to no other.
Carries(r) ==
    r.kind = "promote" /\ r.pc \notin {"idle", "source"} =>
        /\ r.pc # "row"
        /\ r.expected \in ran
        /\ r.pc # "resolve" => r.commit = r.expected

PromotionInv ==
    /\ row.state = "ready" => row.commit \in ran
    /\ \A p \in Process : Carries(req[p])
    /\ promoted \subseteq ran

-----------------------------------------------------------------------------

LEMMA IdleTyped == Idle \in Request /\ Late(Idle) /\ Idle.pc = "idle"
BY CatalogAssumption DEF Idle, Request, Steps, Kinds, Late

LEMMA TypedInit == Init => Typed
BY IdleTyped, CatalogAssumption DEF Init, Typed, TypedRequests, TypedRow

\* One request changes to another record.
LEMMA RequestKept ==
    ASSUME TypedRequests, NEW p \in Process, NEW r \in Request, Late(r),
           req' = [req EXCEPT ![p] = r]
    PROVE  TypedRequests'
BY DEF TypedRequests

\* Refusing a request, which several steps may do.
LEMMA TypedRefuse == ASSUME Typed, NEW p \in Process, Refuse(p) PROVE Typed'
<1>1. TypedRequests'
  BY IdleTyped, RequestKept DEF Refuse, Typed
<1> QED
  BY <1>1 DEF Typed, TypedRow, Refuse, history

LEMMA TypedNext == Typed /\ [Next]_vars => Typed'
<1> SUFFICES ASSUME Typed, [Next]_vars PROVE Typed'
  OBVIOUS
<1> USE DEF TypedRow
<1>1. ASSUME NEW v \in Version, NEW c \in Commit, Publish(v, c) PROVE Typed'
  BY <1>1 DEF Typed, TypedRequests, Publish, catalogVars
<1>2. CASE Restart
  BY <1>2, IdleTyped DEF Typed, TypedRequests, Restart, history
<1>3. ASSUME NEW s \in BOOLEAN, Finish(s) PROVE Typed'
  <2>1. row.change \in Version \X Commit
    BY <1>3 DEF Typed, Finish
  <2>2. TypedRow' /\ ran' \subseteq Commit
    BY <1>3, <2>1 DEF Typed, Finish
  <2> QED
    BY <1>3, <2>2 DEF Typed, TypedRequests, Finish, catalogVars
<1>4. ASSUME NEW p \in Process, Ask(p) PROVE Typed'
  <2>1. ASSUME NEW k \in Kinds, NEW v \in Version \cup {None}, NEW e \in Commit \cup {None},
               Begin(p, k, v, e)
        PROVE  Typed'
    <3> DEFINE r == [Idle EXCEPT !.kind = k, !.asked = v, !.version = v, !.expected = e,
                                 !.pc = IF k \in {"promote", "upgrade"} THEN "source"
                                        ELSE IF k = "update" THEN "row" ELSE "resolve"]
    <3>1. r \in Request /\ Late(r)
      BY CatalogAssumption DEF Idle, Request, Steps, Late, Kinds
    <3>2. req' = [req EXCEPT ![p] = r]
      BY <2>1 DEF Begin
    <3> HIDE DEF r
    <3>3. TypedRequests'
      BY <3>1, <3>2, RequestKept DEF Typed
    <3> QED
      BY <2>1, <3>3 DEF Begin, Typed, catalogVars, history
  <2>2. ASSUME NEW d \in described PROVE d[1] \in Version /\ d[2] \in Commit
    BY DEF Typed
  <2>3. CASE \E v \in Version \cup {None}, k \in {"describe", "check", "update"} :
                 Begin(p, k, v, None)
    BY <2>1, <2>3 DEF Kinds
  <2>4. CASE Begin(p, "promote", None, None)
    BY <2>1, <2>4 DEF Kinds
  <2>5. CASE \E v \in Version : Begin(p, "upgrade", v, None)
    BY <2>1, <2>5 DEF Kinds
  <2>6. CASE \E d \in described, k \in Changes : Begin(p, k, d[1], d[2])
    BY <2>1, <2>2, <2>6 DEF Kinds, Changes
  <2> QED
    BY <1>4, <2>3, <2>4, <2>5, <2>6 DEF Ask
<1>5. ASSUME NEW p \in Process, NEW r \in Request, Late(r), req' = [req EXCEPT ![p] = r],
             UNCHANGED <<tag, disk, holder, row, described, ran>>
      PROVE  Typed'
  BY <1>5, RequestKept DEF Typed
<1>6. ASSUME NEW p \in Process, ReadSource(p) PROVE Typed'
  <2> DEFINE r == IF req[p].kind = "promote"
                  THEN [req[p] EXCEPT !.pc = "resolve", !.version = row.version,
                                      !.expected = row.commit]
                  ELSE [req[p] EXCEPT !.pc = "row"]
  <2>1. CASE Refuse(p)
    BY <2>1, TypedRefuse
  <2>2. CASE ~Refuse(p)
    <3>1. req[p] \in Request
      BY DEF Typed, TypedRequests
    <3>2. r \in Request /\ Late(r)
      BY <3>1 DEF Typed, Request, Late, Steps
    <3>3. req' = [req EXCEPT ![p] = r] /\ UNCHANGED <<tag, disk, holder, row, described, ran>>
      BY <1>6, <2>2, <3>1 DEF ReadSource, intent, catalogVars, history, Typed, TypedRequests
    <3> HIDE DEF r
    <3> QED
      BY <1>5, <3>2, <3>3
  <2> QED
    BY <2>1, <2>2
<1>7. ASSUME NEW p \in Process, ReadRow(p) PROVE Typed'
  <2> DEFINE r == [req[p] EXCEPT !.pc = "resolve", !.seen = row.operation,
                                 !.version = IF @ = None THEN row.version ELSE @]
  <2>1. req[p] \in Request
    BY DEF Typed, TypedRequests
  <2>2. r \in Request /\ Late(r)
    BY <2>1 DEF Typed, Request, Late, Steps
  <2>3. req' = [req EXCEPT ![p] = r] /\ UNCHANGED <<tag, disk, holder, row, described, ran>>
    BY <1>7, <2>1 DEF ReadRow, catalogVars, history, Typed, TypedRequests
  <2> HIDE DEF r
  <2> QED
    BY <1>5, <2>2, <2>3
<1>8. ASSUME NEW p \in Process, resolve(p) PROVE Typed'
  <2> DEFINE v == IF req[p].version = None THEN Default(tag) ELSE req[p].version
             r == [req[p] EXCEPT !.pc = "checkout", !.version = v, !.commit = tag[v]]
  <2>1. CASE Refuse(p)
    BY <2>1, TypedRefuse
  <2>2. CASE ~Refuse(p)
    <3>1. v \in versions(tag)
      BY <1>8, <2>2 DEF resolve
    <3>2. v \in Version /\ tag[v] \in Commit
      BY <3>1 DEF versions, Typed
    <3>3. req' = [req EXCEPT ![p].pc = "checkout", ![p].version = v, ![p].commit = tag[v]]
      BY <1>8, <2>2 DEF resolve
    <3>4. UNCHANGED <<tag, disk, holder, row, described, ran>>
      BY <1>8, <2>2 DEF resolve, catalogVars, history
    <3> HIDE DEF v
    <3>5. req[p] \in Request
      BY DEF Typed, TypedRequests
    <3>6. r \in Request /\ Late(r)
      BY <3>2, <3>5 DEF Request, Late, Steps
    <3>7. req' = [req EXCEPT ![p] = r]
      BY <3>3, <3>5 DEF Typed, TypedRequests
    <3> HIDE DEF r
    <3> QED
      BY <1>5, <3>4, <3>6, <3>7
  <2> QED
    BY <2>1, <2>2
<1>9. ASSUME NEW p \in Process, NEW s \in Steps, req' = [req EXCEPT ![p].pc = s],
             req[p].pc \notin {"idle", "source", "row", "resolve"}
      PROVE  TypedRequests'
  <2>1. req[p] \in Request /\ Late(req[p])
    BY DEF Typed, TypedRequests
  <2>2. [req[p] EXCEPT !.pc = s] \in Request /\ Late([req[p] EXCEPT !.pc = s])
    BY <1>9, <2>1 DEF Request, Late
  <2>3. req' = [req EXCEPT ![p] = [req[p] EXCEPT !.pc = s]]
    BY <1>9, <2>1 DEF Typed, TypedRequests
  <2> QED
    BY <2>2, <2>3, RequestKept DEF Typed
<1>10. ASSUME NEW p \in Process, Lock(p) PROVE Typed'
  <2>1. TypedRequests'
    BY <1>9, <1>10 DEF Lock, Steps
  <2>2. req[p].commit \in Commit
    BY <1>10 DEF Lock, Typed, TypedRequests, Late
  <2> QED
    BY <1>10, <2>1, <2>2 DEF Lock, Typed, history
<1>11. ASSUME NEW p \in Process, Write(p) PROVE Typed'
  <2> DEFINE s == IF req[p].pc = "fetch" THEN "write" ELSE "touch"
  <2>1. req' = [req EXCEPT ![p].pc = s] /\ s \in Steps
    BY <1>11 DEF Write, Steps, Typed, TypedRequests
  <2> HIDE DEF s
  <2>2. TypedRequests'
    BY <1>9, <1>11, <2>1 DEF Write
  <2> QED
    BY <1>11, <2>2 DEF Write, Typed, history
<1>12. ASSUME NEW p \in Process, Touch(p) PROVE Typed'
  <2>1. TypedRequests'
    BY <1>9, <1>12 DEF Touch, Steps
  <2> QED
    BY <1>12, <2>1 DEF Touch, Typed, history
<1>13. ASSUME NEW p \in Process, GitFails(p) PROVE Typed'
  BY <1>13, TypedRefuse DEF GitFails
<1>14. ASSUME NEW p \in Process, Answer(p) PROVE Typed'
  <2>1. TypedRequests'
    BY <1>14, IdleTyped, RequestKept DEF Answer, Typed
  <2>2. <<req[p].version, req[p].commit>> \in Version \X Commit
    BY <1>14 DEF Answer, Typed, TypedRequests, Late
  <2> QED
    BY <1>14, <2>1, <2>2 DEF Answer, Typed, catalogVars, history
<1>15. ASSUME NEW p \in Process, check_pattern(p) PROVE Typed'
  <2>1. TypedRequests'
    BY <1>9, <1>15 DEF check_pattern, Steps
  <2> QED
    BY <1>15, <2>1 DEF check_pattern, Typed, history
<1>16. ASSUME NEW p \in Process, RememberDefault(p) \/ accept(p) PROVE Typed'
  <2>1. TypedRequests'
    BY <1>16, IdleTyped, RequestKept DEF RememberDefault, accept, Typed
  <2> QED
    BY <1>16, <2>1 DEF RememberDefault, accept, Typed, catalogVars, history
<1>17. ASSUME NEW p \in Process, accept_change(p) PROVE Typed'
  <2>1. CASE Refuse(p)
    BY <2>1, TypedRefuse
  <2>2. CASE ~Refuse(p)
    <3>1. /\ row' = Accepted(p) /\ req' = [req EXCEPT ![p] = Idle]
          /\ UNCHANGED <<tag, disk, holder, described, ran>>
      BY <1>17, <2>2 DEF accept_change, catalogVars, history
    <3>2. <<req[p].version, req[p].commit>> \in Version \X Commit
      BY <1>17 DEF accept_change, Typed, TypedRequests, Late
    <3>3. ASSUME NEW w \in Version \X Commit,
                 row' = [row EXCEPT !.operation = @ + 1, !.change = w]
          PROVE  TypedRow'
      <4>1. row.operation \in Nat /\ row.operation + 1 \in Nat
        BY DEF Typed, TypedRow
      <4> DEFINE n == row.operation + 1
      <4>2. row' = [row EXCEPT !.operation = n, !.change = w]
        BY <3>3 DEF Typed, TypedRow
      <4> HIDE DEF n
      <4> QED
        BY <4>1, <4>2 DEF Typed, TypedRow, n
    <3>5. TypedRow'
      BY <3>1, <3>2, <3>3 DEF Accepted
    <3>4. TypedRequests'
      BY <3>1, IdleTyped, RequestKept DEF Typed
    <3> QED
      BY <3>1, <3>4, <3>5 DEF Typed
  <2> QED
    BY <2>1, <2>2
<1>18. CASE UNCHANGED vars
  BY <1>18 DEF Typed, TypedRequests, vars, catalogVars, history
<1> QED
  BY <1>1, <1>2, <1>3, <1>4, <1>6, <1>7, <1>8, <1>10, <1>11, <1>12, <1>13, <1>14, <1>15,
     <1>16, <1>17, <1>18 DEF Next

-----------------------------------------------------------------------------
(* Checkouts.                                                               *)

LEMMA CheckoutInit == Init => CheckoutInv
BY CatalogAssumption DEF Init, CheckoutInv, Making, ReadyIsWhole, ReadersFoundReady, Idle

\* A request that ends gives back its lock, whose checkout was not ready.
LEMMA CheckoutRefuse ==
    ASSUME Typed, CheckoutInv, NEW p \in Process, Refuse(p) PROVE CheckoutInv'
<1>1. /\ req' = [req EXCEPT ![p] = Idle] /\ disk' = disk
      /\ holder' = [c \in Commit |-> IF holder[c] = p THEN None ELSE holder[c]]
  BY DEF Refuse
<1>2. req'[p].pc = "idle" /\ \A q \in Process \ {p} : req'[q] = req[q]
  BY <1>1, IdleTyped DEF Typed, TypedRequests
<1>3. \A q \in Process : req[q].pc \in {"fetch", "write", "touch"} => req[q].commit \in Commit
  BY DEF Typed, TypedRequests, Late
<1>4. Making'
  BY <1>1, <1>2, <1>3 DEF CheckoutInv, Making
<1>5. ReadyIsWhole'
  BY <1>1 DEF CheckoutInv, ReadyIsWhole
<1>6. ReadersFoundReady'
  BY <1>1, <1>2 DEF CheckoutInv, ReadersFoundReady
<1> QED
  BY <1>4, <1>5, <1>6 DEF CheckoutInv

\* A step of one request: where it is afterwards, and that it keeps its commit.
LEMMA OneRequest ==
    ASSUME Typed, NEW p \in Process, NEW s \in Steps, req' = [req EXCEPT ![p].pc = s]
    PROVE  /\ req'[p].pc = s /\ req'[p].commit = req[p].commit
           /\ req'[p].kind = req[p].kind /\ req'[p].expected = req[p].expected
           /\ \A q \in Process \ {p} : req'[q] = req[q]
BY DEF Typed, TypedRequests, Request

\* Requests under way have a commit.
LEMMA HasCommit ==
    ASSUME Typed, NEW p \in Process,
           req[p].pc \notin {"idle", "source", "row", "resolve"}
    PROVE  req[p].commit \in Commit
BY DEF Typed, TypedRequests, Late

\* A request that goes on without touching a checkout, its lock or its commit.
LEMMA CheckoutKept ==
    ASSUME Typed, CheckoutInv, NEW p \in Process, NEW r, req' = [req EXCEPT ![p] = r],
           r.pc \notin {"fetch", "write", "touch", "read"}, UNCHANGED <<disk, holder>>
    PROVE  CheckoutInv'
BY DEF Typed, TypedRequests, Request, CheckoutInv, Making, ReadyIsWhole, ReadersFoundReady

LEMMA CheckoutNext == Typed /\ CheckoutInv /\ [Next]_vars => CheckoutInv'
<1> SUFFICES ASSUME Typed, CheckoutInv, [Next]_vars PROVE CheckoutInv'
  OBVIOUS
<1>1. CASE UNCHANGED <<disk, holder, req>>
  BY <1>1 DEF CheckoutInv, Making, ReadyIsWhole, ReadersFoundReady
<1>2. ASSUME NEW v \in Version, NEW c \in Commit, Publish(v, c) PROVE CheckoutInv'
  BY <1>1, <1>2 DEF Publish, catalogVars
<1>3. CASE Restart
  BY <1>3, CatalogAssumption
     DEF Typed, TypedRequests, Request, CheckoutInv, Making, ReadyIsWhole, ReadersFoundReady, Restart, Idle
<1>4. ASSUME NEW s \in BOOLEAN, Finish(s) PROVE CheckoutInv'
  BY <1>1, <1>4 DEF Finish, catalogVars
<1>5. ASSUME NEW p \in Process, Ask(p) PROVE CheckoutInv'
  <2>1. ASSUME NEW k, NEW v, NEW e, Begin(p, k, v, e) PROVE CheckoutInv'
    BY <2>1, CheckoutKept DEF Begin, Idle, catalogVars
  <2> QED
    BY <1>5, <2>1 DEF Ask
<1>6. ASSUME NEW p \in Process, ReadSource(p) PROVE CheckoutInv'
  <2>1. CASE Refuse(p)
    BY <2>1, CheckoutRefuse
  <2>2. CASE ~Refuse(p)
    <3> DEFINE r == IF req[p].kind = "promote"
                    THEN [req[p] EXCEPT !.pc = "resolve", !.version = row.version,
                                        !.expected = row.commit]
                    ELSE [req[p] EXCEPT !.pc = "row"]
    <3>1. req[p] \in Request
      BY DEF Typed, TypedRequests
    <3>2. r.pc \in {"resolve", "row"}
      BY <3>1 DEF Request
    <3>3. req' = [req EXCEPT ![p] = r] /\ UNCHANGED <<disk, holder>>
      BY <1>6, <2>2, <3>1 DEF ReadSource, intent, catalogVars, Typed, TypedRequests
    <3> HIDE DEF r
    <3> QED
      BY <3>2, <3>3, CheckoutKept
  <2> QED
    BY <2>1, <2>2
<1>7. ASSUME NEW p \in Process, ReadRow(p) PROVE CheckoutInv'
  <2> DEFINE r == [req[p] EXCEPT !.pc = "resolve", !.seen = row.operation,
                                 !.version = IF @ = None THEN row.version ELSE @]
  <2>1. r.pc = "resolve"
    BY DEF Typed, TypedRequests, Request
  <2>2. req' = [req EXCEPT ![p] = r] /\ UNCHANGED <<disk, holder>>
    BY <1>7 DEF ReadRow, catalogVars, Typed, TypedRequests, Request
  <2> HIDE DEF r
  <2> QED
    BY <2>1, <2>2, CheckoutKept
<1>8. ASSUME NEW p \in Process, resolve(p) PROVE CheckoutInv'
  <2>1. CASE Refuse(p)
    BY <2>1, CheckoutRefuse
  <2>2. CASE ~Refuse(p)
    <3> DEFINE v == IF req[p].version = None THEN Default(tag) ELSE req[p].version
               r == [req[p] EXCEPT !.pc = "checkout", !.version = v, !.commit = tag[v]]
    <3>1. req' = [req EXCEPT ![p].pc = "checkout", ![p].version = v, ![p].commit = tag[v]]
      BY <1>8, <2>2 DEF resolve
    <3>2. UNCHANGED <<disk, holder>>
      BY <1>8, <2>2 DEF resolve, catalogVars
    <3> HIDE DEF v
    <3>3. r.pc = "checkout" /\ req' = [req EXCEPT ![p] = r]
      BY <3>1 DEF Typed, TypedRequests, Request
    <3> HIDE DEF r
    <3> QED
      BY <3>2, <3>3, CheckoutKept
  <2> QED
    BY <2>1, <2>2
<1>9. ASSUME NEW p \in Process, Lock(p) PROVE CheckoutInv'
  <2> DEFINE c == req[p].commit
  <2>1. c \in Commit /\ holder[c] = None /\ disk' = disk
    BY <1>9, HasCommit DEF Lock
  <2>2. CASE ready(c)
    <3>1. req' = [req EXCEPT ![p].pc = "read"] /\ holder' = holder
      BY <1>9, <2>2 DEF Lock
    <3>2. /\ req'[p].pc = "read" /\ req'[p].commit = c
          /\ \A q \in Process \ {p} : req'[q] = req[q]
      BY <3>1, OneRequest DEF Steps
    <3> QED
      BY <2>1, <2>2, <3>1, <3>2 DEF CheckoutInv, Making, ReadyIsWhole, ReadersFoundReady, ready
  <2>3. CASE ~ready(c)
    <3>1. req' = [req EXCEPT ![p].pc = "fetch"] /\ holder' = [holder EXCEPT ![c] = p]
      BY <1>9, <2>3 DEF Lock
    <3>2. /\ req'[p].pc = "fetch" /\ req'[p].commit = c
          /\ \A q \in Process \ {p} : req'[q] = req[q]
      BY <3>1, OneRequest DEF Steps
    <3>3. holder'[c] = p /\ \A d \in Commit \ {c} : holder'[d] = holder[d]
      BY <2>1, <3>1 DEF Typed
    <3>4. \A q \in Process : req[q].pc \in {"fetch", "write", "touch"} => req[q].commit # c
      BY <2>1, CatalogAssumption DEF CheckoutInv, Making
    <3>5. Making'
      BY <2>1, <2>3, <3>2, <3>3, <3>4, HasCommit DEF CheckoutInv, Making, ready
    <3>6. ReadyIsWhole'
      BY <2>1, <2>3, <3>3 DEF CheckoutInv, ReadyIsWhole, ready
    <3>7. ReadersFoundReady'
      BY <2>1, <3>2 DEF CheckoutInv, ReadersFoundReady
    <3> QED
      BY <3>5, <3>6, <3>7 DEF CheckoutInv
  <2> QED
    BY <2>2, <2>3
<1>10. ASSUME NEW p \in Process, Write(p) PROVE CheckoutInv'
  <2> DEFINE c == req[p].commit
             s == IF req[p].pc = "fetch" THEN "write" ELSE "touch"
             f == IF req[p].pc = "fetch" THEN "some" ELSE "all"
  <2>1. /\ c \in Commit /\ holder[c] = p /\ ~disk[c].ready /\ holder' = holder
        /\ req[p].pc \in {"fetch", "write"}
    BY <1>10, HasCommit DEF Write, CheckoutInv, Making
  <2>2. disk' = [disk EXCEPT ![c].files = f] /\ req' = [req EXCEPT ![p].pc = s]
    BY <1>10 DEF Write, Typed, TypedRequests, Request
  <2>3. /\ req'[p].pc = s /\ req'[p].commit = c
        /\ \A q \in Process \ {p} : req'[q] = req[q]
    BY <2>2, OneRequest DEF Steps
  <2>4. /\ disk'[c].files = f /\ disk'[c].ready = disk[c].ready
        /\ \A d \in Commit \ {c} : disk'[d] = disk[d]
    BY <2>1, <2>2 DEF Typed
  <2>5. \A q \in Process \ {p} :
            req[q].pc \in {"fetch", "write", "touch"} => req[q].commit # c
    BY <2>1 DEF CheckoutInv, Making
  <2>6. Making'
    BY <2>1, <2>3, <2>4, <2>5, HasCommit DEF CheckoutInv, Making
  <2>7. ReadyIsWhole'
    BY <2>1, <2>4 DEF CheckoutInv, ReadyIsWhole
  <2>8. ReadersFoundReady'
    BY <2>1, <2>3, <2>4, HasCommit DEF CheckoutInv, ReadersFoundReady
  <2> QED
    BY <2>6, <2>7, <2>8 DEF CheckoutInv
<1>11. ASSUME NEW p \in Process, Touch(p) PROVE CheckoutInv'
  <2> DEFINE c == req[p].commit
  <2>1. c \in Commit /\ holder[c] = p /\ disk[c].files = "all"
    BY <1>11, HasCommit DEF Touch, CheckoutInv, Making
  <2>2. /\ disk' = [disk EXCEPT ![c].ready = TRUE] /\ holder' = [holder EXCEPT ![c] = None]
        /\ req' = [req EXCEPT ![p].pc = "read"]
    BY <1>11 DEF Touch
  <2>3. /\ req'[p].pc = "read" /\ req'[p].commit = c
        /\ \A q \in Process \ {p} : req'[q] = req[q]
    BY <2>2, OneRequest DEF Steps
  <2>4. /\ disk'[c].files = "all" /\ disk'[c].ready /\ holder'[c] = None
        /\ \A d \in Commit \ {c} : disk'[d] = disk[d] /\ holder'[d] = holder[d]
    BY <2>1, <2>2 DEF Typed
  <2>5. \A q \in Process \ {p} :
            req[q].pc \in {"fetch", "write", "touch"} => req[q].commit # c
    BY <2>1 DEF CheckoutInv, Making
  <2>6. Making'
    BY <2>1, <2>3, <2>4, <2>5, HasCommit DEF CheckoutInv, Making
  <2>7. ReadyIsWhole'
    BY <2>4 DEF CheckoutInv, ReadyIsWhole
  <2>8. ReadersFoundReady'
    BY <2>1, <2>3, <2>4, HasCommit DEF CheckoutInv, ReadersFoundReady
  <2> QED
    BY <2>6, <2>7, <2>8 DEF CheckoutInv
<1>12. ASSUME NEW p \in Process, GitFails(p) PROVE CheckoutInv'
  BY <1>12, CheckoutRefuse DEF GitFails
<1>13. ASSUME NEW p \in Process, Answer(p) \/ accept(p) \/ RememberDefault(p) PROVE CheckoutInv'
  BY <1>13, CheckoutKept DEF Answer, accept, RememberDefault, Idle, catalogVars
<1>14. ASSUME NEW p \in Process, check_pattern(p) PROVE CheckoutInv'
  <2>1. req' = [req EXCEPT ![p].pc = "default"] /\ UNCHANGED <<disk, holder>>
    BY <1>14 DEF check_pattern
  <2>2. req'[p].pc = "default" /\ \A q \in Process \ {p} : req'[q] = req[q]
    BY <2>1, OneRequest DEF Steps
  <2> QED
    BY <2>1, <2>2 DEF CheckoutInv, Making, ReadyIsWhole, ReadersFoundReady
<1>15. ASSUME NEW p \in Process, accept_change(p) PROVE CheckoutInv'
  BY <1>15, CheckoutKept, CheckoutRefuse DEF accept_change, Idle, catalogVars
<1>16. CASE UNCHANGED vars
  BY <1>1, <1>16 DEF vars, catalogVars
<1> QED
  BY <1>2, <1>3, <1>4, <1>5, <1>6, <1>7, <1>8, <1>9, <1>10, <1>11, <1>12, <1>13, <1>14, <1>15,
     <1>16 DEF Next

\* The types and the checkouts' invariant hold in every reachable state.
THEOREM CheckoutsSound == CatalogSpec => [](Typed /\ CheckoutInv)
<1>1. Init => Typed /\ CheckoutInv
  BY TypedInit, CheckoutInit
<1>2. Typed /\ CheckoutInv /\ [Next]_vars => (Typed /\ CheckoutInv)'
  BY TypedNext, CheckoutNext
<1> QED
  BY <1>1, <1>2, PTL DEF CatalogSpec

\* No request reads a checkout (_checkout) that is incomplete or being written,
\* for any number of threads, commits, failures and restarts.
THEOREM CheckoutsReadWhole == CatalogSpec => []ReadsWhole
<1>1. Typed /\ CheckoutInv => ReadsWhole
  BY HasCommit DEF CheckoutInv, ReadyIsWhole, ReadersFoundReady, ReadsWhole
<1> QED
  BY <1>1, CheckoutsSound, PTL

-----------------------------------------------------------------------------
(* Promotions.                                                              *)

LEMMA PromotionInit == Init => PromotionInv
BY DEF Init, PromotionInv, Carries, Idle

\* One request changes to another record, and no commit has run since.
LEMMA PromotionKept ==
    ASSUME Typed, PromotionInv, NEW p \in Process, NEW r, req' = [req EXCEPT ![p] = r],
           Carries(r), UNCHANGED <<row, ran, promoted>>
    PROVE  PromotionInv'
<1>1. req'[p] = r /\ \A q \in Process \ {p} : req'[q] = req[q]
  BY DEF Typed, TypedRequests
<1>2. \A q \in Process : Carries(req[q])'
  BY <1>1 DEF PromotionInv, Carries
<1> QED
  BY <1>2 DEF PromotionInv

LEMMA IdleCarries == Carries(Idle)
BY DEF Carries, Idle

LEMMA PromotionRefuse ==
    ASSUME Typed, PromotionInv, NEW p \in Process, Refuse(p) PROVE PromotionInv'
BY PromotionKept, IdleCarries DEF Refuse, history

\* A step of a request that has resolved its commit.
LEMMA PromotionStep ==
    ASSUME Typed, PromotionInv, NEW p \in Process, NEW s \in Steps,
           req' = [req EXCEPT ![p].pc = s], s # "row",
           req[p].pc \notin {"idle", "source", "row", "resolve"},
           UNCHANGED <<row, ran, promoted>>
    PROVE  PromotionInv'
<1>1. /\ req'[p].pc = s /\ req'[p].commit = req[p].commit
      /\ req'[p].kind = req[p].kind /\ req'[p].expected = req[p].expected
      /\ \A q \in Process \ {p} : req'[q] = req[q]
  BY OneRequest
<1>2. \A q \in Process : Carries(req[q])'
  BY <1>1 DEF PromotionInv, Carries
<1> QED
  BY <1>2 DEF PromotionInv

LEMMA PromotionNext == Typed /\ PromotionInv /\ [Next]_vars => PromotionInv'
<1> SUFFICES ASSUME Typed, PromotionInv, [Next]_vars PROVE PromotionInv'
  OBVIOUS
<1>1. ASSUME NEW v \in Version, NEW c \in Commit, Publish(v, c) PROVE PromotionInv'
  BY <1>1 DEF Publish, PromotionInv, Carries
<1>2. CASE Restart
  BY <1>2 DEF Restart, PromotionInv, Carries, Idle, history
<1>3. ASSUME NEW s \in BOOLEAN, Finish(s) PROVE PromotionInv'
  <2>1. row.change \in Version \X Commit
    BY <1>3 DEF Typed, TypedRow, Finish
  <2>2. ran \subseteq ran' /\ (row'.state = "ready" => row'.commit \in ran')
    <3>1. row' = IF s THEN [row EXCEPT !.state = "ready", !.change = None,
                                       !.version = row.change[1], !.commit = row.change[2]]
                 ELSE [row EXCEPT !.change = None]
      BY <1>3 DEF Finish
    <3>2. ran' = IF s THEN ran \cup {row.change[2]} ELSE ran
      BY <1>3 DEF Finish
    <3>3. CASE s
      BY <2>1, <3>1, <3>2, <3>3 DEF Typed, TypedRow
    <3>4. CASE ~s
      BY <3>1, <3>2, <3>4 DEF Typed, TypedRow, PromotionInv
    <3> QED
      BY <3>3, <3>4
  <2> QED
    BY <1>3, <2>2 DEF Finish, PromotionInv, Carries
<1>4. ASSUME NEW p \in Process, Ask(p) PROVE PromotionInv'
  <2>1. ASSUME NEW k \in Kinds, NEW v, NEW e, Begin(p, k, v, e) PROVE PromotionInv'
    <3> DEFINE s == IF k \in {"promote", "upgrade"} THEN "source"
                    ELSE IF k = "update" THEN "row" ELSE "resolve"
               r == [Idle EXCEPT !.kind = k, !.asked = v, !.version = v, !.expected = e,
                                 !.pc = s]
    <3>0. k = "promote" => s = "source"
      OBVIOUS
    <3> HIDE DEF s
    <3>1. Carries(r)
      BY <3>0 DEF Idle, Carries
    <3>2. req' = [req EXCEPT ![p] = r] /\ UNCHANGED <<row, ran, promoted>>
      BY <2>1 DEF Begin, history, s
    <3> HIDE DEF r
    <3> QED
      BY <3>1, <3>2, PromotionKept
  <2> QED
    BY <1>4, <2>1 DEF Ask, Kinds, Changes
<1>5. ASSUME NEW p \in Process, ReadSource(p) PROVE PromotionInv'
  <2>1. CASE Refuse(p)
    BY <2>1, PromotionRefuse
  <2>2. CASE ~Refuse(p)
    <3> DEFINE r == IF req[p].kind = "promote"
                    THEN [req[p] EXCEPT !.pc = "resolve", !.version = row.version,
                                        !.expected = row.commit]
                    ELSE [req[p] EXCEPT !.pc = "row"]
    <3>1. req[p] \in Request
      BY DEF Typed, TypedRequests
    <3>2. row.state = "ready"
      BY <1>5, <2>2 DEF ReadSource
    <3>3. Carries(r)
      BY <3>1, <3>2 DEF Carries, Request, PromotionInv
    <3>4. req' = [req EXCEPT ![p] = r] /\ UNCHANGED <<row, ran, promoted>>
      BY <1>5, <2>2, <3>1 DEF ReadSource, intent, history, Typed, TypedRequests
    <3> HIDE DEF r
    <3> QED
      BY <3>3, <3>4, PromotionKept
  <2> QED
    BY <2>1, <2>2
<1>6. ASSUME NEW p \in Process, ReadRow(p) PROVE PromotionInv'
  <2> DEFINE r == [req[p] EXCEPT !.pc = "resolve", !.seen = row.operation,
                                 !.version = IF @ = None THEN row.version ELSE @]
  <2>1. req[p] \in Request
    BY DEF Typed, TypedRequests
  <2>2. Carries(r)
    BY <1>6, <2>1 DEF ReadRow, PromotionInv, Carries, Request
  <2>3. req' = [req EXCEPT ![p] = r] /\ UNCHANGED <<row, ran, promoted>>
    BY <1>6, <2>1 DEF ReadRow, history, Typed, TypedRequests
  <2> HIDE DEF r
  <2> QED
    BY <2>2, <2>3, PromotionKept
<1>7. ASSUME NEW p \in Process, resolve(p) PROVE PromotionInv'
  <2>1. CASE Refuse(p)
    BY <2>1, PromotionRefuse
  <2>2. CASE ~Refuse(p)
    <3> DEFINE v == IF req[p].version = None THEN Default(tag) ELSE req[p].version
               r == [req[p] EXCEPT !.pc = "checkout", !.version = v, !.commit = tag[v]]
    <3>1. /\ req' = [req EXCEPT ![p].pc = "checkout", ![p].version = v, ![p].commit = tag[v]]
          /\ req[p].expected \in {None, tag[v]} /\ req[p].pc = "resolve"
          /\ UNCHANGED <<row, ran, promoted>>
      BY <1>7, <2>2 DEF resolve, history
    <3> HIDE DEF v
    <3>2. req[p] \in Request /\ None \notin ran /\ Carries(req[p])
      BY CatalogAssumption DEF Typed, TypedRequests, PromotionInv
    <3>3. Carries(r)
      BY <3>1, <3>2 DEF Carries, Request
    <3>4. req' = [req EXCEPT ![p] = r]
      BY <3>1, <3>2 DEF Typed, TypedRequests
    <3> HIDE DEF r
    <3> QED
      BY <3>1, <3>3, <3>4, PromotionKept
  <2> QED
    BY <2>1, <2>2
<1>8. ASSUME NEW p \in Process, Lock(p) PROVE PromotionInv'
  BY <1>8, PromotionStep DEF Lock, Steps, history
<1>9. ASSUME NEW p \in Process, Write(p) PROVE PromotionInv'
  <2> DEFINE s == IF req[p].pc = "fetch" THEN "write" ELSE "touch"
  <2>1. req' = [req EXCEPT ![p].pc = s]
    BY <1>9 DEF Write, Typed, TypedRequests, Request
  <2> QED
    BY <1>9, <2>1, PromotionStep DEF Write, Steps, history
<1>10. ASSUME NEW p \in Process, Touch(p) \/ check_pattern(p) PROVE PromotionInv'
  BY <1>10, PromotionStep DEF Touch, check_pattern, Steps, history
<1>11. ASSUME NEW p \in Process, GitFails(p) PROVE PromotionInv'
  BY <1>11, PromotionRefuse DEF GitFails
<1>12. ASSUME NEW p \in Process, Answer(p) \/ RememberDefault(p) PROVE PromotionInv'
  BY <1>12, PromotionKept, IdleCarries DEF Answer, RememberDefault, history
<1>13. ASSUME NEW p \in Process, accept(p) PROVE PromotionInv'
  <2>1. req[p].commit \in ran
    BY <1>13 DEF accept, PromotionInv, Carries
  <2>2. \A q \in Process : Carries(req[q])'
    BY <1>13, IdleCarries DEF accept, Typed, TypedRequests, PromotionInv, Carries
  <2> QED
    BY <1>13, <2>1, <2>2 DEF accept, PromotionInv
<1>14. ASSUME NEW p \in Process, accept_change(p) PROVE PromotionInv'
  <2>1. CASE Refuse(p)
    BY <2>1, PromotionRefuse
  <2>2. CASE ~Refuse(p)
    <3>1. /\ row' = Accepted(p) /\ req' = [req EXCEPT ![p] = Idle]
          /\ UNCHANGED <<ran, promoted>>
      BY <1>14, <2>2 DEF accept_change, history
    <3>2. row'.state = row.state /\ row'.commit = row.commit
      BY <3>1 DEF Accepted, Typed, TypedRow
    <3>3. \A q \in Process : Carries(req[q])'
      BY <3>1, IdleCarries DEF Typed, TypedRequests, PromotionInv, Carries
    <3> QED
      BY <3>1, <3>2, <3>3 DEF PromotionInv
  <2> QED
    BY <2>1, <2>2
<1>15. CASE UNCHANGED vars
  BY <1>15 DEF vars, history, PromotionInv, Carries
<1> QED
  BY <1>1, <1>2, <1>3, <1>4, <1>5, <1>6, <1>7, <1>8, <1>9, <1>10, <1>11, <1>12, <1>13, <1>14,
     <1>15 DEF Next

\* Every promotion (promotion.accept) is of a commit that the resource was really
\* deployed from, however tags move and changes come in between.
THEOREM PromotionsOfWhatRan == CatalogSpec => []PromotesWhatRan
<1>1. Init => PromotionInv
  BY PromotionInit
<1>2. Typed /\ PromotionInv /\ [Next]_vars => PromotionInv'
  BY PromotionNext
<1>3. PromotionInv => PromotesWhatRan
  BY DEF PromotionInv, PromotesWhatRan
<1> QED
  BY <1>1, <1>2, <1>3, CheckoutsSound, PTL DEF CatalogSpec

-----------------------------------------------------------------------------
(* The findings of the default version.                                     *)

Newest(t, v) == v \in versions(t) /\ \A w \in versions(t) : w =< v

\* A check keeps the version it was asked for.  Once it has a commit, it has one of
\* the default version's if it was asked for none, or for the version that is
\* the newest: versions are only added, so that one was the newest before.
Checking(r) ==
    /\ r.pc = "default" => r.kind = "check"
    /\ r.kind = "check" =>
        /\ r.pc \notin {"source", "row"}
        /\ r.pc = "resolve" => r.version = r.asked
        /\ r.pc \notin {"idle", "resolve"} =>
               /\ r.version \in versions(tag) /\ r.asked \in {None, r.version}
               /\ r.asked = None \/ Newest(tag, r.version) => r.commit \in defaults

DefaultInv ==
    /\ \E v \in Version : Newest(tag, v)
    /\ tag[Default(tag)] \in defaults
    /\ cache \subseteq Commit
    /\ key \in defaults \cup {None}
    /\ \A p \in Process : Checking(req[p])

\* The default is the newest version.
LEMMA DefaultIsNewest ==
    ASSUME NEW t, NEW v \in Version, Newest(t, v) PROVE Default(t) = v
<1> DEFINE m == Default(t)
<1>1. \E x \in versions(t) : \A y \in versions(t) : x >= y
  BY CatalogAssumption DEF Newest, versions
<1>2. m \in versions(t) /\ \A y \in versions(t) : m >= y
  BY <1>1 DEF Default, Max
<1>3. versions(t) \subseteq Nat
  BY CatalogAssumption DEF versions
<1> HIDE DEF m
<1>4. m \in Nat /\ v \in Nat /\ m >= v /\ v >= m
  BY <1>2, <1>3 DEF Newest
<1>5. m = v
  BY <1>4
<1> QED
  BY <1>5 DEF m

LEMMA DefaultInit == Init => DefaultInv
<1> SUFFICES ASSUME Init PROVE DefaultInv
  OBVIOUS
<1>1. PICK v \in Version, c \in Commit :
          tag = [w \in Version |-> IF w = v THEN c ELSE None] /\ defaults = {c}
  BY DEF Init
<1>2. Newest(tag, v) /\ tag[v] = c
  BY <1>1, CatalogAssumption DEF Newest, versions
<1>3. Default(tag) = v
  BY <1>2, DefaultIsNewest
<1> QED
  BY <1>1, <1>2, <1>3 DEF Init, DefaultInv, Checking, Idle

\* One request changes to another record.
LEMMA DefaultKept ==
    ASSUME Typed, DefaultInv, NEW p \in Process, NEW r, req' = [req EXCEPT ![p] = r],
           Checking(r), UNCHANGED <<tag, cache, key, defaults>>
    PROVE  DefaultInv'
<1>1. req'[p] = r /\ \A q \in Process \ {p} : req'[q] = req[q]
  BY DEF Typed, TypedRequests
<1>2. \A q \in Process : Checking(req[q])'
  BY <1>1 DEF DefaultInv, Checking, versions, Newest
<1> QED
  BY <1>2 DEF DefaultInv, Newest, versions, Default

LEMMA IdleChecking == Checking(Idle)
BY DEF Checking, Idle

LEMMA DefaultRefuse ==
    ASSUME Typed, DefaultInv, NEW p \in Process, Refuse(p) PROVE DefaultInv'
BY DefaultKept, IdleChecking DEF Refuse, history

\* A step of a request that has resolved its commit.
LEMMA DefaultStep ==
    ASSUME Typed, DefaultInv, NEW p \in Process, NEW s \in Steps,
           req' = [req EXCEPT ![p].pc = s],
           s \notin {"idle", "source", "row", "resolve"},
           s = "default" => req[p].kind = "check",
           req[p].pc \notin {"idle", "source", "row", "resolve"},
           UNCHANGED <<tag, cache, key, defaults>>
    PROVE  DefaultInv'
<1>1. req[p] \in Request /\ Checking(req[p])
  BY DEF Typed, TypedRequests, DefaultInv
<1> DEFINE r == [req[p] EXCEPT !.pc = s]
<1>2. Checking(r) /\ req' = [req EXCEPT ![p] = r]
  BY <1>1 DEF Checking, Request, Typed, TypedRequests
<1> HIDE DEF r
<1> QED
  BY <1>2, DefaultKept

LEMMA DefaultNext == Typed /\ DefaultInv /\ [Next]_vars => DefaultInv'
<1> SUFFICES ASSUME Typed, DefaultInv, [Next]_vars PROVE DefaultInv'
  OBVIOUS
<1>0. ASSUME UNCHANGED <<tag, cache, key, defaults, req>> PROVE DefaultInv'
  BY <1>0 DEF DefaultInv, Checking, Newest, versions, Default
<1>1. ASSUME NEW v \in Version, NEW c \in Commit, Publish(v, c) PROVE DefaultInv'
  <2>1. /\ tag' = [tag EXCEPT ![v] = c] /\ defaults' = defaults \cup {tag'[Default(tag')]}
        /\ UNCHANGED <<cache, key, req>>
    BY <1>1 DEF Publish, catalogVars
  <2>2. versions(tag') = versions(tag) \cup {v}
    BY <2>1, CatalogAssumption DEF versions, Typed
  <2>3. PICK m \in Version : Newest(tag, m)
    BY DEF DefaultInv
  <2>4. \E n \in Version : Newest(tag', n)
    <3>1. CASE v =< m
      BY <2>2, <2>3, <3>1 DEF Newest
    <3>2. CASE ~(v =< m)
      <4>1. versions(tag) \subseteq Nat /\ v \in Nat /\ m \in Nat
        BY CatalogAssumption DEF versions
      <4>2. Newest(tag', v)
        BY <2>2, <2>3, <3>2, <4>1 DEF Newest
      <4> QED
        BY <4>2
    <3> QED
      BY <3>1, <3>2
  <2>5. \A w \in versions(tag) : Newest(tag', w) => Newest(tag, w)
    BY <2>2 DEF Newest
  <2>6. \A p \in Process : Checking(req[p])'
    BY <2>1, <2>2, <2>5 DEF DefaultInv, Checking
  <2> QED
    BY <2>1, <2>4, <2>6 DEF DefaultInv
<1>2. CASE Restart
  BY <1>2, IdleChecking DEF Restart, DefaultInv, Checking, Idle, history, Newest, versions, Default
<1>3. ASSUME NEW s \in BOOLEAN, Finish(s) PROVE DefaultInv'
  BY <1>0, <1>3 DEF Finish, catalogVars
<1>4. ASSUME NEW p \in Process, Ask(p) PROVE DefaultInv'
  <2>1. ASSUME NEW k \in Kinds, NEW v, NEW e, Begin(p, k, v, e) PROVE DefaultInv'
    <3> DEFINE s == IF k \in {"promote", "upgrade"} THEN "source"
                    ELSE IF k = "update" THEN "row" ELSE "resolve"
               r == [Idle EXCEPT !.kind = k, !.asked = v, !.version = v, !.expected = e,
                                 !.pc = s]
    <3>0. s # "default" /\ (k = "check" => s = "resolve")
      OBVIOUS
    <3> HIDE DEF s
    <3>1. Checking(r)
      BY <3>0 DEF Idle, Checking
    <3>2. req' = [req EXCEPT ![p] = r] /\ UNCHANGED <<tag, cache, key, defaults>>
      BY <2>1 DEF Begin, history, catalogVars, s
    <3> HIDE DEF r
    <3> QED
      BY <3>1, <3>2, DefaultKept
  <2> QED
    BY <1>4, <2>1 DEF Ask, Kinds, Changes
<1>5. ASSUME NEW p \in Process, ReadSource(p) PROVE DefaultInv'
  <2>1. CASE Refuse(p)
    BY <2>1, DefaultRefuse
  <2>2. CASE ~Refuse(p)
    <3> DEFINE r == IF req[p].kind = "promote"
                    THEN [req[p] EXCEPT !.pc = "resolve", !.version = row.version,
                                        !.expected = row.commit]
                    ELSE [req[p] EXCEPT !.pc = "row"]
    <3>1. req[p] \in Request /\ Checking(req[p])
      BY DEF Typed, TypedRequests, DefaultInv
    <3>2. req[p].pc = "source"
      BY <1>5 DEF ReadSource
    <3>3. Checking(r)
      BY <3>1, <3>2 DEF Checking, Request
    <3>4. req' = [req EXCEPT ![p] = r] /\ UNCHANGED <<tag, cache, key, defaults>>
      BY <1>5, <2>2, <3>1 DEF ReadSource, intent, history, catalogVars, Typed, TypedRequests
    <3> HIDE DEF r
    <3> QED
      BY <3>3, <3>4, DefaultKept
  <2> QED
    BY <2>1, <2>2
<1>6. ASSUME NEW p \in Process, ReadRow(p) PROVE DefaultInv'
  <2> DEFINE r == [req[p] EXCEPT !.pc = "resolve", !.seen = row.operation,
                                 !.version = IF @ = None THEN row.version ELSE @]
  <2>1. req[p] \in Request /\ Checking(req[p]) /\ req[p].pc = "row"
    BY <1>6 DEF ReadRow, Typed, TypedRequests, DefaultInv
  <2>2. Checking(r)
    BY <2>1 DEF Checking, Request
  <2>3. req' = [req EXCEPT ![p] = r] /\ UNCHANGED <<tag, cache, key, defaults>>
    BY <1>6, <2>1 DEF ReadRow, history, catalogVars, Typed, TypedRequests
  <2> HIDE DEF r
  <2> QED
    BY <2>2, <2>3, DefaultKept
<1>7. ASSUME NEW p \in Process, resolve(p) PROVE DefaultInv'
  <2>1. CASE Refuse(p)
    BY <2>1, DefaultRefuse
  <2>2. CASE ~Refuse(p)
    <3> DEFINE v == IF req[p].version = None THEN Default(tag) ELSE req[p].version
               r == [req[p] EXCEPT !.pc = "checkout", !.version = v, !.commit = tag[v]]
    <3>1. /\ req' = [req EXCEPT ![p].pc = "checkout", ![p].version = v, ![p].commit = tag[v]]
          /\ v \in versions(tag) /\ req[p].pc = "resolve"
          /\ UNCHANGED <<tag, cache, key, defaults>>
      BY <1>7, <2>2 DEF resolve, history, catalogVars
    <3>2. req[p] \in Request /\ Checking(req[p])
      BY DEF Typed, TypedRequests, DefaultInv
    <3>3. v \in Version
      BY <3>1 DEF versions
    <3>4. req[p].version = None \/ Newest(tag, v) => tag[v] \in defaults
      <4>1. req[p].version = None => v = Default(tag)
        OBVIOUS
      <4>2. Newest(tag, v) => v = Default(tag)
        BY <3>3, DefaultIsNewest
      <4> QED
        BY <4>1, <4>2 DEF DefaultInv
    <3>5. req[p].version \in {None, v}
      OBVIOUS
    <3> HIDE DEF v
    <3>6. Checking(r)
      BY <3>1, <3>2, <3>4, <3>5 DEF Checking, Request
    <3>7. req' = [req EXCEPT ![p] = r]
      BY <3>1, <3>2 DEF Typed, TypedRequests
    <3> HIDE DEF r
    <3> QED
      BY <3>1, <3>6, <3>7, DefaultKept
  <2> QED
    BY <2>1, <2>2
<1>8. ASSUME NEW p \in Process, Lock(p) \/ Touch(p) PROVE DefaultInv'
  BY <1>8, DefaultStep DEF Lock, Touch, Steps, history
<1>9. ASSUME NEW p \in Process, Write(p) PROVE DefaultInv'
  <2> DEFINE s == IF req[p].pc = "fetch" THEN "write" ELSE "touch"
  <2>1. req' = [req EXCEPT ![p].pc = s]
    BY <1>9 DEF Write, Typed, TypedRequests, Request
  <2> QED
    BY <1>9, <2>1, DefaultStep DEF Write, Steps, history
<1>10. ASSUME NEW p \in Process, GitFails(p) PROVE DefaultInv'
  BY <1>10, DefaultRefuse DEF GitFails
<1>11. ASSUME NEW p \in Process, Answer(p) \/ accept(p) PROVE DefaultInv'
  BY <1>11, DefaultKept, IdleChecking DEF Answer, accept, catalogVars, history
<1>12. ASSUME NEW p \in Process, check_pattern(p) PROVE DefaultInv'
  <2>1. /\ req[p].pc \in {"checkout", "read"} /\ req[p].kind = "check"
        /\ req' = [req EXCEPT ![p].pc = "default"] /\ UNCHANGED <<tag, key, defaults>>
    BY <1>12 DEF check_pattern, Known, history
  <2>2. cache' \subseteq cache \cup {req[p].commit}
    BY <1>12 DEF check_pattern
  <2>3. req[p].commit \in Commit
    BY <2>1, HasCommit
  <2> DEFINE r == [req[p] EXCEPT !.pc = "default"]
  <2>4. req[p] \in Request /\ Checking(req[p])
    BY DEF Typed, TypedRequests, DefaultInv
  <2>5. Checking(r) /\ req' = [req EXCEPT ![p] = r]
    BY <2>1, <2>4 DEF Checking, Request, Typed, TypedRequests
  <2> HIDE DEF r
  <2>6. req'[p] = r /\ \A q \in Process \ {p} : req'[q] = req[q]
    BY <2>5 DEF Typed, TypedRequests
  <2>7. \A q \in Process : Checking(req[q])'
    BY <2>1, <2>5, <2>6 DEF DefaultInv, Checking, versions, Newest
  <2> QED
    BY <2>1, <2>2, <2>3, <2>7 DEF DefaultInv, Newest, versions, Default
<1>13. ASSUME NEW p \in Process, RememberDefault(p) PROVE DefaultInv'
  <2>1. /\ req[p].pc = "default" /\ req' = [req EXCEPT ![p] = Idle]
        /\ UNCHANGED <<tag, cache, defaults>>
        /\ key' = IF _is_default(req[p].asked) THEN req[p].commit ELSE key
    BY <1>13 DEF RememberDefault, history
  <2>2. Checking(req[p]) /\ req[p].kind = "check"
    BY <2>1 DEF DefaultInv, Checking
  <2>3. PICK m \in Version : Newest(tag, m)
    BY DEF DefaultInv
  <2>4. Default(tag) = m
    BY <2>3, DefaultIsNewest
  <2>5. _is_default(req[p].asked) => req[p].commit \in defaults
    <3>1. CASE req[p].asked = None
      BY <2>1, <2>2, <3>1 DEF Checking
    <3>2. CASE req[p].asked # None /\ _is_default(req[p].asked)
      <4>1. req[p].version = m
        BY <2>1, <2>2, <2>4, <3>2 DEF Checking, _is_default
      <4> QED
        BY <2>1, <2>2, <2>3, <4>1 DEF Checking
    <3> QED
      BY <3>1, <3>2
  <2>6. \A q \in Process : Checking(req[q])'
    <3>1. req'[p] = Idle /\ \A q \in Process \ {p} : req'[q] = req[q]
      BY <2>1 DEF Typed, TypedRequests
    <3> QED
      BY <2>1, <3>1, IdleChecking DEF DefaultInv, Checking, versions, Newest
  <2> QED
    BY <2>1, <2>5, <2>6 DEF DefaultInv, Newest, versions, Default
<1>14. ASSUME NEW p \in Process, accept_change(p) PROVE DefaultInv'
  BY <1>14, DefaultKept, DefaultRefuse, IdleChecking DEF accept_change, catalogVars, history
<1>15. CASE UNCHANGED vars
  BY <1>0, <1>15 DEF vars, catalogVars, history
<1> QED
  BY <1>1, <1>2, <1>3, <1>4, <1>5, <1>6, <1>7, <1>8, <1>9, <1>10, <1>11, <1>12, <1>13, <1>14,
     <1>15 DEF Next

\* What the team checks are shown of a pattern (default_findings) are findings
\* of a commit that its default version did have, whatever versions are checked
\* and however tags move between the two listings of a check (check_pattern).
THEOREM FindingsOfDefault == CatalogSpec => []DefaultFindingsOfDefault
<1>1. Init => DefaultInv
  BY DefaultInit
<1>2. Typed /\ DefaultInv /\ [Next]_vars => DefaultInv'
  BY DefaultNext
<1>3. DefaultInv => DefaultFindingsOfDefault
  BY CatalogAssumption DEF DefaultInv, DefaultFindingsOfDefault, default_findings
<1> QED
  BY <1>1, <1>2, <1>3, CheckoutsSound, PTL DEF CatalogSpec
=============================================================================
