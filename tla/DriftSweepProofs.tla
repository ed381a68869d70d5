-------------------------- MODULE DriftSweepProofs --------------------------
(***************************************************************************)
(* Theorems about DriftSweep, for any finite set of resources, any batch   *)
(* and interval and any number of requests, team edits and restarts.       *)
(***************************************************************************)
EXTENDS DriftSweep, NumberLemmas

Checks == Waiting \cup {"planning"}
Pair == Resource \X Nat
Distinct(s) == \A i, j \in DOMAIN s : s[i] = s[j] => i = j

\* An attempt has candidates from the moment it has listed them on, and only one
\* that has can be overtaken.
Shaped(a, s) ==
    /\ s \in [pc : {"none", "count", "list", "accept", "stamp"}, allowed : Nat,
              candidates : Seq(Pair), bucket : Nat, sleep : Nat]
    /\ s.pc \in {"none", "count", "list"} => s.candidates = <<>>
    /\ s.pc = "stamp" => s.candidates # <<>>
    /\ a = "overtaken" => s.pc \in {"none", "accept", "stamp"}

Typed ==
    /\ row \in [Resource -> [ready : BOOLEAN, operation : Nat, placed : BOOLEAN]]
    /\ age \in [Resource -> 0..Due]
    /\ order \in Seq(Resource) /\ Distinct(order)
    /\ busy \in [Resource -> Checks \cup {Idle, "change", "user_check"}]
    /\ refusal \in [Resource -> {"none", "once", "doubtful"}]
    /\ attempt \in [Attempt -> [pc : {"none", "count", "list", "accept", "stamp"}, allowed : Nat,
                                candidates : Seq(Pair), bucket : Nat, sleep : Nat]]
    /\ \A a \in Attempt : Shaped(a, attempt[a])

\* The checks that count for the sweep, and the room the awaited attempt has left
\* for them.
Outstanding == {r \in Resource \ late : busy[r] \in Checks}

Roomy(s, n) ==
    /\ n + Len(s.candidates) <= Batch
    /\ s.pc = "list" => n + s.allowed <= Batch

Room ==
    /\ late \subseteq {r \in Resource : busy[r] \in Checks}
    /\ Roomy(attempt["awaited"], Cardinality(Outstanding))

\* Whose refused event was written but not yet the stamp.
Stamping(s, r) == s.pc = "stamp" /\ s.candidates[1][1] = r

\* The awaited attempt has each of its candidates once, and refuses none that
\* was refused since it became due; whatever was, is not due.
Unrefused(s) ==
    /\ \A i, j \in DOMAIN s.candidates : s.candidates[i][1] = s.candidates[j][1] => i = j
    /\ \A i \in DOMAIN s.candidates :
           refusal[s.candidates[i][1]] = "once" => s.pc = "stamp" /\ i = 1

Refusals ==
    /\ Unrefused(attempt["awaited"])
    /\ \A r \in Resource : refusal[r] = "once" => age[r] # Due \/ Stamping(attempt["awaited"], r)

SweepInv == Typed /\ Room /\ Refusals

-----------------------------------------------------------------------------
(* Sequences.                                                               *)

IsSelection(s, S, h) ==
    h = [n \in 0..Len(s) |-> IF n = 0 THEN <<>>
                             ELSE IF s[n] \in S THEN Append(h[n - 1], s[n]) ELSE h[n - 1]]

\* `t` is selected from the first n elements of `s`.
Selection(R, s, S, n, t) ==
    /\ t \in Seq(R)
    /\ \A i \in 1..Len(t) : t[i] \in S /\ \E j \in 1..n : t[i] = s[j]
    /\ \A i, j \in 1..Len(t) : t[i] = t[j] => i = j

\* The next element, which no earlier one equals.
LEMMA SelectNext ==
  ASSUME NEW R, NEW s \in Seq(R), Distinct(s), NEW S, NEW n \in Nat, n + 1 \in 1..Len(s),
         s[n + 1] \in S, NEW t, Selection(R, s, S, n, t)
  PROVE  Selection(R, s, S, n + 1, Append(t, s[n + 1]))
<1> DEFINE u == Append(t, s[n + 1])
<1>0. DOMAIN s = 1..Len(s) /\ Len(s) \in Nat /\ s[n + 1] \in R
  OBVIOUS
<1>1. /\ u \in Seq(R) /\ Len(u) = Len(t) + 1 /\ Len(t) \in Nat
      /\ u[Len(t) + 1] = s[n + 1] /\ \A i \in 1..Len(t) : u[i] = t[i]
  BY <1>0 DEF Selection
<1>2. \A i \in 1..Len(t) : t[i] # s[n + 1]
  <2> SUFFICES ASSUME NEW i \in 1..Len(t), t[i] = s[n + 1] PROVE FALSE
    OBVIOUS
  <2>1. PICK j \in 1..n : t[i] = s[j]
    BY DEF Selection
  <2>2. j \in DOMAIN s /\ n + 1 \in DOMAIN s /\ j # n + 1
    BY <1>0
  <2> QED
    BY <2>1, <2>2 DEF Distinct
<1>3. \A i \in 1..Len(u) : i \in 1..Len(t) \/ i = Len(t) + 1
  BY <1>1
<1> HIDE DEF u
<1>4. \A i \in 1..Len(u) : u[i] \in S /\ \E j \in 1..(n + 1) : u[i] = s[j]
  <2> TAKE i \in 1..Len(u)
  <2>1. CASE i \in 1..Len(t)
    <3>1. u[i] = t[i] /\ t[i] \in S /\ \E j \in 1..n : t[i] = s[j]
      BY <1>1, <2>1 DEF Selection
    <3> QED
      BY <3>1
  <2>2. CASE i = Len(t) + 1
    BY <1>1, <2>2
  <2> QED
    BY <1>3, <2>1, <2>2
<1>5. \A i, j \in 1..Len(u) : u[i] = u[j] => i = j
  <2>1. \A i, j \in 1..Len(t) : t[i] = t[j] => i = j
    BY DEF Selection
  <2> QED
    BY <1>1, <1>2, <1>3, <2>1
<1> QED
  BY <1>1, <1>4, <1>5 DEF Selection, u

\* What is selected comes from the sequence and belongs to the set; nothing is
\* selected twice from a sequence without repetitions.
LEMMA Selected ==
  ASSUME NEW R, NEW s \in Seq(R), Distinct(s), NEW S
  PROVE  /\ Select(s, S) \in Seq(R)
         /\ \A i \in DOMAIN Select(s, S) : Select(s, S)[i] \in S
         /\ Distinct(Select(s, S))
<1>1. Len(s) \in Nat /\ DOMAIN s = 1..Len(s) /\ \A i \in 1..Len(s) : s[i] \in R
  OBVIOUS
<1>2. \E h : IsSelection(s, S, h)
  <2> DEFINE D == 1..Len(s)
             prev == [n \in D |-> n - 1]
             rank == [n \in D |-> n]
             step == [p \in D \X Seq(R) |->
                         IF s[p[1]] \in S THEN Append(p[2], s[p[1]]) ELSE p[2]]
  <2>1. Chained(D, 0, prev, rank)
    BY <1>1 DEF Chained
  <2>2. step \in [D \X Seq(R) -> Seq(R)]
    BY <1>1
  <2>3. <<>> \in Seq(R)
    OBVIOUS
  <2> HIDE DEF step, prev, rank
  <2>4. PICK f : AlongChain(D, 0, prev, Seq(R), <<>>, step, f)
    BY <2>1, <2>2, <2>3, ChainRecursion
  <2>5. f \in [0..Len(s) -> Seq(R)] /\ f[0] = <<>>
    <3>1. D \cup {0} = 0..Len(s)
      BY <1>1
    <3> QED
      BY <2>4, <3>1 DEF AlongChain
  <2>6. \A n \in 1..Len(s) : f[n] = IF s[n] \in S THEN Append(f[n - 1], s[n]) ELSE f[n - 1]
    <3> TAKE n \in 1..Len(s)
    <3>1. f[n] = step[<<n, f[prev[n]]>>] /\ prev[n] = n - 1
      BY <2>4 DEF AlongChain, prev
    <3>2. f[n - 1] \in Seq(R)
      BY <1>1, <2>5
    <3> QED
      BY <3>1, <3>2 DEF step
  <2>7. ASSUME NEW n \in 0..Len(s)
        PROVE  f[n] = IF n = 0 THEN <<>>
                      ELSE IF s[n] \in S THEN Append(f[n - 1], s[n]) ELSE f[n - 1]
    <3>1. CASE n = 0
      BY <2>5, <3>1, Zenon
    <3>2. CASE n # 0
      <4>1. n \in 1..Len(s)
        BY <1>1, <3>2
      <4> QED
        BY <2>6, <3>2, <4>1, Zenon
    <3> QED
      BY <3>1, <3>2
  <2>8. f = [n \in 0..Len(s) |-> f[n]]
    BY <2>5
  <2>9. IsSelection(s, S, f)
    BY <2>7, <2>8, Zenon DEF IsSelection
  <2> QED
    BY <2>9
<1> DEFINE h == CHOOSE h : IsSelection(s, S, h)
<1>3. IsSelection(s, S, h)
  BY <1>2
<1>4. Select(s, S) = h[Len(s)]
  BY DEF Select, IsSelection
<1> HIDE DEF h
<1>5. ASSUME NEW n \in 0..Len(s)
      PROVE  h[n] = IF n = 0 THEN <<>> ELSE IF s[n] \in S THEN Append(h[n - 1], s[n]) ELSE h[n - 1]
  BY <1>3, Zenon DEF IsSelection
<1> DEFINE K == {n \in Nat : n \in 0..Len(s) => Selection(R, s, S, n, h[n])}
<1>6. 0 \in K
  <2>1. 0 \in 0..Len(s)
    BY <1>1
  <2>2. h[0] = <<>>
    BY <1>5, <2>1, Zenon
  <2>3. Selection(R, s, S, 0, <<>>)
    BY DEF Selection
  <2> QED
    BY <2>2, <2>3
<1>7. ASSUME NEW n \in K PROVE n + 1 \in K
  <2> SUFFICES ASSUME n + 1 \in 0..Len(s) PROVE Selection(R, s, S, n + 1, h[n + 1])
    OBVIOUS
  <2>1. n \in Nat /\ n \in 0..Len(s) /\ n + 1 \in 1..Len(s) /\ n + 1 # 0 /\ (n + 1) - 1 = n
    BY <1>1
  <2>2. Selection(R, s, S, n, h[n])
    BY <2>1
  <2>3. h[n + 1] = IF s[n + 1] \in S THEN Append(h[n], s[n + 1]) ELSE h[n]
    BY <1>5, <2>1, Zenon
  <2>4. CASE s[n + 1] \in S
    BY <2>1, <2>2, <2>3, <2>4, SelectNext
  <2>5. CASE s[n + 1] \notin S
    BY <2>1, <2>2, <2>3, <2>5 DEF Selection
  <2> QED
    BY <2>4, <2>5
<1>8. K = Nat
  <2> HIDE DEF K
  <2>1. K \in SUBSET Nat
    BY DEF K
  <2> QED
    BY <1>6, <1>7, <2>1, AllNumbers
<1>9. Selection(R, s, S, Len(s), h[Len(s)])
  BY <1>1, <1>8
<1>10. DOMAIN h[Len(s)] = 1..Len(h[Len(s)])
  BY <1>9 DEF Selection
<1> QED
  BY <1>4, <1>9, <1>10 DEF Distinct, Selection

-----------------------------------------------------------------------------
(* Types                                                                    *)

LEMMA Bounds ==
  /\ Batch \in Nat /\ Interval \in Nat /\ Interval > 0 /\ Due = Interval + 1 /\ Due \in Nat
  /\ IsFiniteSet(Resource)
  /\ "awaited" \in Attempt /\ "overtaken" \in Attempt /\ "awaited" # "overtaken"
BY SweepAssumption DEF Due, Attempt

Row == [pc : {"none", "count", "list", "accept", "stamp"}, allowed : Nat,
        candidates : Seq(Pair), bucket : Nat, sleep : Nat]

LEMMA NothingShaped ==
  /\ NoAttempt \in Row /\ NoAttempt.candidates = <<>> /\ NoAttempt.pc = "none"
  /\ \A a \in Attempt : Shaped(a, NoAttempt)
BY DEF NoAttempt, Row, Shaped

\* An attempt's row replaces what the attempt was at.
LEMMA AttemptMoves ==
  ASSUME Typed, NEW a \in Attempt, NEW s, Shaped(a, s), attempt' = [attempt EXCEPT ![a] = s]
  PROVE  /\ attempt' \in [Attempt -> Row] /\ \A b \in Attempt : Shaped(b, attempt'[b])
         /\ attempt'[a] = s /\ \A b \in Attempt : b # a => attempt'[b] = attempt[b]
BY DEF Typed, Shaped, Row

\* Init numbers the resources in some order.
LEMMA InitialOrder ==
  SetToSeq(Resource) \in Seq(Resource) /\ Distinct(SetToSeq(Resource))
<1> DEFINE n == Cardinality(Resource)
<1>1. n \in Nat /\ ExistsBijection(1..n, Resource)
  BY Bounds, FS_CardinalityType
<1>2. \E f \in [1..n -> Resource] : IsInjective(f)
  BY <1>1 DEF ExistsBijection, Bijection, Injection
<1>3. SetToSeq(Resource) \in [1..n -> Resource] /\ IsInjective(SetToSeq(Resource))
  BY <1>2 DEF SetToSeq
<1> QED
  BY <1>1, <1>3 DEF Distinct, IsInjective

LEMMA InitTyped == ASSUME Init PROVE Typed
<1>1. /\ age \in [Resource -> 0..Due]
      /\ row \in [Resource -> [ready : BOOLEAN, operation : Nat, placed : BOOLEAN]]
      /\ busy \in [Resource -> Checks \cup {Idle, "change", "user_check"}]
      /\ refusal \in [Resource -> {"none", "once", "doubtful"}]
  BY Bounds DEF Init
<1>2. attempt \in [Attempt -> Row] /\ \A a \in Attempt : Shaped(a, attempt[a])
  BY NothingShaped DEF Init
<1> QED
  BY <1>1, <1>2, InitialOrder DEF Init, Typed, Row

\* A stamp leaves every resource in the order once.
LEMMA StampTyped ==
  ASSUME Typed, NEW r \in Resource, Stamped(r)
  PROVE  /\ age' \in [Resource -> 0..Due] /\ age'[r] = 0
         /\ \A q \in Resource : q # r => age'[q] = age[q]
         /\ order' \in Seq(Resource) /\ Distinct(order')
<1> DEFINE t == Select(order, Resource \ {r})
<1>1. /\ t \in Seq(Resource) /\ Distinct(t)
      /\ \A i \in DOMAIN t : t[i] \in Resource \ {r}
  BY Selected DEF Typed
<1>2. order' = Append(t, r)
  BY DEF Stamped
<1> HIDE DEF t
<1>3. /\ Append(t, r) \in Seq(Resource) /\ Len(t) \in Nat
      /\ DOMAIN t = 1..Len(t) /\ DOMAIN Append(t, r) = 1..(Len(t) + 1)
      /\ Append(t, r)[Len(t) + 1] = r /\ \A i \in 1..Len(t) : Append(t, r)[i] = t[i]
  BY <1>1
<1>4. Distinct(Append(t, r))
  <2>1. \A i \in 1..(Len(t) + 1) : i \in 1..Len(t) \/ i = Len(t) + 1
    BY <1>3
  <2> QED
    BY <1>1, <1>3, <2>1 DEF Distinct
<1>5. age' \in [Resource -> 0..Due] /\ age'[r] = 0 /\ \A q \in Resource : q # r => age'[q] = age[q]
  BY Bounds DEF Typed, Stamped
<1> QED
  BY <1>2, <1>3, <1>4, <1>5

\* What an attempt lists: pairs of due resources, each once, and not too many.
LEMMA Found ==
  ASSUME Typed, NEW limit \in Nat
  PROVE  /\ drift_candidates(limit) \in Seq(Resource) /\ Distinct(drift_candidates(limit))
         /\ Len(drift_candidates(limit)) <= limit
         /\ \A i \in DOMAIN drift_candidates(limit) : drift_candidates(limit)[i] \in Candidate
<1> DEFINE due == Select(order, Candidate)
           n == IF limit < Len(due) THEN limit ELSE Len(due)
<1>1. /\ due \in Seq(Resource) /\ Distinct(due)
      /\ \A i \in DOMAIN due : due[i] \in Candidate
  BY Selected DEF Typed
<1>2. drift_candidates(limit) = SubSeq(due, 1, n)
  BY DEF drift_candidates
<1> HIDE DEF due
<1>3. n \in Nat /\ n <= limit /\ n <= Len(due) /\ Len(due) \in Nat /\ DOMAIN due = 1..Len(due)
  BY <1>1
<1> HIDE DEF n
<1>4. /\ SubSeq(due, 1, n) \in Seq(Resource) /\ Len(SubSeq(due, 1, n)) = n
      /\ DOMAIN SubSeq(due, 1, n) = 1..n /\ \A i \in 1..n : SubSeq(due, 1, n)[i] = due[i]
  BY <1>1, <1>3
<1>5. \A i \in 1..n : i \in DOMAIN due
  BY <1>3
<1> QED
  BY <1>1, <1>2, <1>3, <1>4, <1>5 DEF Distinct

\* The head of a list and what follows.
LEMMA Listing ==
  ASSUME NEW s \in Seq(Pair), s # <<>>
  PROVE  /\ Head(s) = s[1] /\ s[1] \in Pair /\ s[1][1] \in Resource /\ s[1][2] \in Nat
         /\ Len(s) \in Nat /\ Len(s) > 0 /\ 1 \in DOMAIN s
         /\ Tail(s) \in Seq(Pair) /\ Len(Tail(s)) = Len(s) - 1
         /\ \A i \in DOMAIN Tail(s) : Tail(s)[i] = s[i + 1] /\ i + 1 \in DOMAIN s /\ i \in Nat /\ i > 0
BY DEF Pair
-----------------------------------------------------------------------------
(* The kinds of steps                                                       *)

LEMMA Counted ==
  /\ IsFiniteSet(Outstanding) /\ Cardinality(Outstanding) \in Nat
  /\ \A S \in SUBSET Outstanding : Cardinality(S) \in Nat /\ Cardinality(S) <= Cardinality(Outstanding)
<1>1. IsFiniteSet(Outstanding)
  <2>1. Outstanding \subseteq Resource
    BY DEF Outstanding
  <2> QED
    BY <2>1, Bounds, FS_Subset
<1>2. ASSUME NEW S \in SUBSET Outstanding
      PROVE  Cardinality(S) \in Nat /\ Cardinality(S) <= Cardinality(Outstanding)
  BY <1>1, <1>2, FS_Subset, FS_CardinalityType
<1> QED
  BY <1>1, <1>2, FS_CardinalityType

\* A step that adds no check and no candidate.
LEMMA RoomKept ==
  ASSUME Typed, Room, Typed', late' \subseteq {r \in Resource : busy'[r] \in Checks},
         Outstanding' \subseteq Outstanding,
         LET old == attempt["awaited"]  new == attempt'["awaited"]
         IN /\ Len(new.candidates) <= Len(old.candidates)
            /\ new.pc = "list" => old.pc = "list" /\ new.allowed = old.allowed
  PROVE  Room'
<1>1. Cardinality(Outstanding') \in Nat /\ Cardinality(Outstanding') <= Cardinality(Outstanding)
  BY Counted
<1>2. /\ Len(attempt["awaited"].candidates) \in Nat /\ Len(attempt'["awaited"].candidates) \in Nat
      /\ attempt["awaited"].allowed \in Nat /\ attempt'["awaited"].allowed \in Nat
  BY Bounds DEF Typed
<1>3. Cardinality(Outstanding)' = Cardinality(Outstanding')
  BY DEF Outstanding
<1> QED
  BY <1>1, <1>2, <1>3, Bounds, Counted DEF Room, Roomy

\* A step that leaves the awaited attempt where it is and forgets refusals.
LEMMA RefusalsKept ==
  ASSUME Typed, Refusals,
         attempt'["awaited"].pc = attempt["awaited"].pc,
         attempt'["awaited"].candidates = attempt["awaited"].candidates,
         \A r \in Resource : refusal'[r] = "once" =>
             refusal[r] = "once" /\ (age[r] # Due => age'[r] # Due)
  PROVE  Refusals'
<1>1. Unrefused(attempt["awaited"])'
  <2>1. \A i \in DOMAIN attempt["awaited"].candidates : attempt["awaited"].candidates[i][1] \in Resource
    BY Bounds DEF Typed, Pair
  <2> QED
    BY <2>1 DEF Refusals, Unrefused
<1>2. \A r \in Resource : Stamping(attempt["awaited"], r) => Stamping(attempt["awaited"], r)'
  BY DEF Stamping
<1> QED
  BY <1>1, <1>2 DEF Refusals

LEMMA Unmoved ==
  ASSUME SweepInv, UNCHANGED <<row, age, order, busy, refusal, attempt, late>>
  PROVE  SweepInv'
<1>1. Typed'
  BY DEF SweepInv, Typed
<1>2. Room' /\ Refusals'
  BY DEF SweepInv, Room, Outstanding, Refusals, Unrefused
<1> QED
  BY <1>1, <1>2 DEF SweepInv

\* Everybody else adds no check to what is outstanding, and at most stamps one.
LEMMA WorldStep ==
  ASSUME SweepInv, attempt' = attempt, refusal' = refusal,
         row' \in [Resource -> [ready : BOOLEAN, operation : Nat, placed : BOOLEAN]],
         busy' \in [Resource -> Checks \cup {Idle, "change", "user_check"}],
         UNCHANGED <<age, order>> \/ \E r \in Resource : Stamped(r),
         \A r \in Resource : busy'[r] \in Checks => busy[r] \in Checks,
         late' = {r \in late : busy'[r] \in Checks}
  PROVE  SweepInv'
<1>1. /\ age' \in [Resource -> 0..Due] /\ \A r \in Resource : age'[r] \in {age[r], 0}
      /\ order' \in Seq(Resource) /\ Distinct(order')
  <2>1. CASE UNCHANGED <<age, order>>
    BY <2>1 DEF SweepInv, Typed
  <2>2. ASSUME NEW r \in Resource, Stamped(r)
        PROVE  /\ age' \in [Resource -> 0..Due] /\ \A q \in Resource : age'[q] \in {age[q], 0}
               /\ order' \in Seq(Resource) /\ Distinct(order')
    BY <2>2, StampTyped DEF SweepInv
  <2> QED
    BY <2>1, <2>2
<1>2. Typed'
  BY <1>1 DEF SweepInv, Typed
<1>3. Room'
  <2>1. Outstanding' \subseteq Outstanding /\ late' \subseteq {r \in Resource : busy'[r] \in Checks}
    BY DEF SweepInv, Room, Outstanding
  <2>2. Len(attempt["awaited"].candidates) \in Nat
    BY Bounds DEF SweepInv, Typed
  <2> QED
    BY <1>2, <2>1, <2>2, RoomKept DEF SweepInv
<1>4. Refusals'
  <2>1. 0 # Due
    BY Bounds
  <2> QED
    BY <1>1, <2>1, RefusalsKept DEF SweepInv
<1> QED
  BY <1>2, <1>3, <1>4 DEF SweepInv

LEMMA OthersStep ==
  ASSUME SweepInv, NEW r \in Resource,
         \/ Plan(r) \/ Checked(r) \/ Remap(r)
         \/ Submit(r, "change") \/ Submit(r, "user_check")
         \/ \E outcome \in {"failed", "deployed", "destroyed"} : Finish(r, outcome)
  PROVE  SweepInv'
<1> DEFINE busies == Checks \cup {Idle, "change", "user_check"}
<1>0. /\ row \in [Resource -> [ready : BOOLEAN, operation : Nat, placed : BOOLEAN]]
      /\ busy \in [Resource -> busies]
      /\ late = {q \in late : busy[q] \in Checks}
      /\ "change" \notin Checks /\ "user_check" \notin Checks /\ Idle \notin Checks
      /\ "planning" \in Checks /\ "dispatched" \in Checks /\ "queued" \in Checks
  BY DEF SweepInv, Typed, Room, Checks, Waiting, Idle
<1> HIDE DEF busies
<1>b. Checks \cup {Idle, "change", "user_check"} = busies
  BY DEF busies
<1>c. "planning" \in busies /\ Idle \in busies /\ "change" \in busies /\ "user_check" \in busies
  BY <1>0 DEF busies
<1>1. CASE Plan(r)
  BY <1>0, <1>1, <1>b, <1>c, WorldStep DEF Plan, history
<1>2. CASE Checked(r)
  <2>1. late' = {q \in late : busy'[q] \in Checks}
    BY <1>0, <1>2 DEF Checked
  <2> QED
    BY <1>0, <1>2, <1>b, <1>c, <2>1, WorldStep DEF Checked
<1>3. CASE Remap(r)
  BY <1>0, <1>3, <1>b, WorldStep DEF Remap, history
<1>4. CASE Submit(r, "change") \/ Submit(r, "user_check")
  <2>1. PICK kind \in {"change", "user_check"} : Submit(r, kind)
    BY <1>4
  <2>2. row' \in [Resource -> [ready : BOOLEAN, operation : Nat, placed : BOOLEAN]]
    BY <1>0, <2>1 DEF Submit
  <2>3. /\ busy' \in [Resource -> busies] /\ \A q \in Resource : busy'[q] \in Checks => busy[q] \in Checks
        /\ late' = {q \in late : busy'[q] \in Checks}
    BY <1>0, <1>c, <2>1 DEF Submit, history
  <2>4. attempt' = attempt /\ refusal' = refusal /\ UNCHANGED <<age, order>>
    BY <2>1 DEF Submit, history
  <2> QED
    BY <1>b, <2>2, <2>3, <2>4, WorldStep
<1>5. ASSUME NEW outcome, Finish(r, outcome) PROVE SweepInv'
  <2>1. row' \in [Resource -> [ready : BOOLEAN, operation : Nat, placed : BOOLEAN]]
    <3> DEFINE left == outcome # "destroyed"
    <3>1. left \in BOOLEAN /\ row' = [row EXCEPT ![r].ready = left]
      BY <1>5 DEF Finish
    <3> HIDE DEF left
    <3> QED
      BY <1>0, <3>1
  <2>2. UNCHANGED <<age, order>> \/ Stamped(r)
    BY <1>5 DEF Finish
  <2>3. /\ busy' \in [Resource -> busies] /\ \A q \in Resource : busy'[q] \in Checks => busy[q] \in Checks
        /\ late' = {q \in late : busy'[q] \in Checks}
    BY <1>0, <1>c, <1>5 DEF Finish, history
  <2> QED
    BY <1>b, <1>5, <2>1, <2>2, <2>3, WorldStep DEF Finish, history
<1> QED
  BY <1>1, <1>2, <1>3, <1>4, <1>5

LEMMA DispatchStep ==
  ASSUME SweepInv, Dispatch
  PROVE  SweepInv'
<1>1. "dispatched" \in Checks /\ "queued" \in Checks
  BY DEF Checks, Waiting
<1>2. /\ busy' \in [Resource -> Checks \cup {Idle, "change", "user_check"}]
      /\ \A r \in Resource : busy'[r] \in Checks <=> busy[r] \in Checks
  BY <1>1 DEF Dispatch, SweepInv, Typed
<1>3. late' = {r \in late : busy'[r] \in Checks}
  BY <1>2 DEF Dispatch, history, SweepInv, Room
<1> QED
  BY <1>2, <1>3, WorldStep DEF Dispatch, history, SweepInv, Typed

LEMMA TickStep ==
  ASSUME SweepInv, Tick
  PROVE  SweepInv'
<1>1. /\ attempt' \in [Attempt -> Row] /\ \A a \in Attempt : Shaped(a, attempt'[a])
      /\ \A a \in Attempt : /\ attempt'[a].pc = attempt[a].pc
                            /\ attempt'[a].candidates = attempt[a].candidates
                            /\ attempt'[a].allowed = attempt[a].allowed
  <2>1. attempt \in [Attempt -> Row] /\ \A a \in Attempt : Shaped(a, attempt[a])
    BY DEF SweepInv, Typed, Row
  <2>2. \/ attempt' = attempt
        \/ attempt' = [a \in Attempt |-> IF a \in Listed THEN [attempt[a] EXCEPT !.bucket = 1]
                                         ELSE attempt[a]]
    BY DEF Tick
  <2>3. ASSUME NEW a \in Attempt
        PROVE  LET s == [attempt[a] EXCEPT !.bucket = 1]
               IN Shaped(a, s) /\ s.pc = attempt[a].pc /\ s.candidates = attempt[a].candidates
                  /\ s.allowed = attempt[a].allowed
    BY <2>1 DEF Shaped, Row
  <2>4. \A a \in Attempt : attempt'[a] \in {attempt[a], [attempt[a] EXCEPT !.bucket = 1]}
    BY <2>2
  <2>5. \A a \in Attempt : /\ Shaped(a, attempt'[a])
                           /\ attempt'[a].pc = attempt[a].pc
                           /\ attempt'[a].candidates = attempt[a].candidates
                           /\ attempt'[a].allowed = attempt[a].allowed
    BY <2>1, <2>3, <2>4
  <2>6. attempt' \in [Attempt -> Row]
    <3>1. \A a \in Attempt : attempt'[a] \in Row
      BY <2>5 DEF Shaped, Row
    <3>2. attempt' = [a \in Attempt |-> attempt'[a]]
      BY <2>1, <2>2
    <3> QED
      BY <3>1, <3>2
  <2> QED
    BY <2>5, <2>6
<1>2. /\ age' \in [Resource -> 0..Due]
      /\ \A r \in Resource : age'[r] = IF age[r] < Due THEN age[r] + 1 ELSE Due
  <2>1. age' = [r \in Resource |-> IF age[r] < Due THEN age[r] + 1 ELSE Due]
    BY DEF Tick
  <2>2. ASSUME NEW r \in Resource
        PROVE  (IF age[r] < Due THEN age[r] + 1 ELSE Due) \in 0..Due
    <3>1. Due \in Nat /\ age[r] \in 0..Due
      BY Bounds DEF SweepInv, Typed
    <3> QED
      BY <3>1
  <2> QED
    BY <2>1, <2>2
<1>3. /\ refusal' \in [Resource -> {"none", "once", "doubtful"}]
      /\ \A r \in Resource : refusal'[r] = "once" => refusal[r] = "once" /\ age[r] # Interval
  <2>1. refusal' = [r \in Resource |-> IF age[r] = Interval THEN "none" ELSE refusal[r]]
    BY DEF Tick
  <2>2. refusal \in [Resource -> {"none", "once", "doubtful"}]
    BY DEF SweepInv, Typed
  <2> QED
    BY <2>1, <2>2
<1>4. UNCHANGED <<row, order, busy, late>>
  BY DEF Tick
<1>5. Typed'
  BY <1>1, <1>2, <1>3, <1>4 DEF SweepInv, Typed, Row
<1>6. Room'
  <2>1. Outstanding' = Outstanding
    BY <1>4 DEF Outstanding
  <2>2. Len(attempt["awaited"].candidates) \in Nat
    BY Bounds DEF SweepInv, Typed
  <2> QED
    BY <1>1, <1>4, <1>5, <2>1, <2>2, Bounds, RoomKept DEF SweepInv, Room
<1>7. Refusals'
  <2>1. ASSUME NEW r \in Resource, age[r] # Due, age[r] # Interval PROVE age'[r] # Due
    <3>1. age[r] \in 0..Due
      BY DEF SweepInv, Typed
    <3> QED
      BY <1>2, <2>1, <3>1, Bounds
  <2> QED
    BY <1>1, <1>3, <2>1, Bounds, RefusalsKept DEF SweepInv
<1> QED
  BY <1>5, <1>6, <1>7 DEF SweepInv

-----------------------------------------------------------------------------
(* The attempts                                                             *)

\* A step of an attempt that accepts nothing and writes no refused event leaves
\* the rest alone, except for a stamp.
LEMMA AttemptStep ==
  ASSUME SweepInv, NEW a \in Attempt, NEW s, Shaped(a, s), attempt' = [attempt EXCEPT ![a] = s],
         UNCHANGED <<row, busy, late>>,
         UNCHANGED <<age, order>> \/ \E r \in Resource : Stamped(r),
         \A r \in Resource : refusal'[r] \in {refusal[r], "doubtful"},
         refusal' \in [Resource -> {"none", "once", "doubtful"}],
         a = "awaited" =>
             /\ Roomy(s, Cardinality(Outstanding))
             /\ \A i, j \in DOMAIN s.candidates : s.candidates[i][1] = s.candidates[j][1] => i = j
             /\ \A i \in DOMAIN s.candidates :
                    refusal'[s.candidates[i][1]] = "once" => s.pc = "stamp" /\ i = 1
             /\ \A r \in Resource : refusal'[r] = "once" => age'[r] # Due \/ Stamping(s, r)
  PROVE  SweepInv'
<1>0. Typed
  BY DEF SweepInv
<1>1. /\ attempt' \in [Attempt -> Row] /\ \A b \in Attempt : Shaped(b, attempt'[b])
      /\ attempt'[a] = s /\ \A b \in Attempt : b # a => attempt'[b] = attempt[b]
  BY <1>0, AttemptMoves
<1>2. /\ age' \in [Resource -> 0..Due] /\ \A r \in Resource : age'[r] \in {age[r], 0}
      /\ order' \in Seq(Resource) /\ Distinct(order')
  <2>1. CASE UNCHANGED <<age, order>>
    BY <2>1 DEF SweepInv, Typed
  <2>2. ASSUME NEW r \in Resource, Stamped(r)
        PROVE  /\ age' \in [Resource -> 0..Due] /\ \A q \in Resource : age'[q] \in {age[q], 0}
               /\ order' \in Seq(Resource) /\ Distinct(order')
    BY <2>2, StampTyped DEF SweepInv
  <2> QED
    BY <2>1, <2>2
<1>3. Typed'
  BY <1>0, <1>1, <1>2 DEF Typed, Row
<1>4. Outstanding' = Outstanding
  BY DEF Outstanding
<1>5. CASE a = "awaited"
  <2>1. Room'
    BY <1>1, <1>4, <1>5 DEF SweepInv, Room
  <2>2. Refusals'
    BY <1>1, <1>5 DEF Refusals, Unrefused
  <2> QED
    BY <1>3, <2>1, <2>2 DEF SweepInv
<1>6. CASE a # "awaited"
  <2>1. attempt'["awaited"] = attempt["awaited"]
    BY <1>1, <1>6, Bounds
  <2>2. Room'
    BY <1>4, <2>1 DEF SweepInv, Room
  <2>3. \A r \in Resource : refusal'[r] = "once" =>
            refusal[r] = "once" /\ (age[r] # Due => age'[r] # Due)
    BY <1>2, Bounds
  <2>4. Refusals'
    BY <1>0, <2>1, <2>3, RefusalsKept DEF SweepInv
  <2> QED
    BY <1>3, <2>2, <2>4 DEF SweepInv
<1> QED
  BY <1>5, <1>6

\* What the awaited attempt holds before its step.
LEMMA Awaited ==
  ASSUME SweepInv
  PROVE  LET s == attempt["awaited"]  n == Cardinality(Outstanding)
         IN /\ Shaped("awaited", s) /\ s \in Row /\ s.candidates \in Seq(Pair)
            /\ \A i \in DOMAIN s.candidates : s.candidates[i] \in Pair /\ s.candidates[i][1] \in Resource
            /\ n \in Nat /\ n <= Batch /\ n + Len(s.candidates) <= Batch /\ Len(s.candidates) \in Nat
            /\ s.pc = "list" => n + s.allowed <= Batch
<1>1. /\ Shaped("awaited", attempt["awaited"]) /\ attempt["awaited"] \in Row
      /\ Cardinality(Outstanding) \in Nat
  BY Bounds, Counted DEF SweepInv, Typed, Row
<1>2. Roomy(attempt["awaited"], Cardinality(Outstanding))
  BY DEF SweepInv, Room
<1>3. attempt["awaited"].candidates \in Seq(Pair) /\ Len(attempt["awaited"].candidates) \in Nat
  BY <1>1 DEF Row
<1>4. \A i \in DOMAIN attempt["awaited"].candidates :
          attempt["awaited"].candidates[i] \in Pair /\ attempt["awaited"].candidates[i][1] \in Resource
  BY <1>3 DEF Pair
<1> QED
  BY <1>1, <1>2, <1>3, <1>4, Bounds DEF Roomy

\* An attempt that ends forgets what it had.
LEMMA EmptyHanded ==
  ASSUME SweepInv
  PROVE  /\ Roomy(NoAttempt, Cardinality(Outstanding))
         /\ DOMAIN NoAttempt.candidates = {}
<1>1. NoAttempt.candidates = <<>> /\ Len(<<>>) = 0 /\ DOMAIN <<>> = {}
  BY NothingShaped
<1> QED
  BY <1>1, NothingShaped, Awaited DEF Roomy

LEMMA StartStep ==
  ASSUME SweepInv, Start
  PROVE  SweepInv'
<1>1. CASE ~enabled
  BY <1>1, Unmoved DEF Start, world, history
<1>2. CASE enabled
  <2> DEFINE s == [attempt["awaited"] EXCEPT !.pc = "count"]
  <2>1. /\ attempt' = [attempt EXCEPT !["awaited"] = s]
        /\ UNCHANGED <<row, busy, late, age, order, refusal>>
    BY <1>2 DEF Start, world, history
  <2>2. attempt["awaited"].pc = "none" /\ attempt["awaited"].candidates = <<>>
    BY Awaited DEF Start, Running, Shaped
  <2>3. /\ Shaped("awaited", s) /\ s.pc = "count" /\ s.candidates = <<>>
    BY <2>2, Awaited DEF Shaped, Row
  <2> HIDE DEF s
  <2>4. /\ Roomy(s, Cardinality(Outstanding)) /\ DOMAIN s.candidates = {}
    <3>1. Len(<<>>) = 0 /\ DOMAIN <<>> = {}
      OBVIOUS
    <3> QED
      BY <2>3, <3>1, Awaited DEF Roomy
  <2>5. \A r \in Resource : refusal[r] = "once" => age[r] # Due
    BY <2>2 DEF SweepInv, Refusals, Stamping
  <2>6. refusal' \in [Resource -> {"none", "once", "doubtful"}]
    BY <2>1 DEF SweepInv, Typed
  <2> QED
    BY <2>1, <2>3, <2>4, <2>5, <2>6, Bounds, AttemptStep
<1> QED
  BY <1>1, <1>2

\* Only the awaited attempt counts and lists.
LEMMA CountStep ==
  ASSUME SweepInv, NEW a \in Attempt, Count(a)
  PROVE  SweepInv'
<1> DEFINE n == IF outstanding_count < Batch THEN Batch - outstanding_count ELSE 0
           s == [attempt["awaited"] EXCEPT !.pc = "list", !.allowed = n]
<1>1. a = "awaited"
  BY Bounds DEF SweepInv, Typed, Shaped, Count, Running, Attempt
<1>2. /\ attempt' = [attempt EXCEPT !["awaited"] = s]
      /\ UNCHANGED <<row, busy, late, age, order, refusal>>
  BY <1>1 DEF Count, world, history
<1>3. attempt["awaited"].pc = "count" /\ attempt["awaited"].candidates = <<>>
  BY <1>1, Awaited DEF Count, Running, Shaped
<1>4. outstanding_count \in Nat /\ Cardinality(Outstanding) <= outstanding_count
  <2> DEFINE all == {r \in Resource : busy[r] \in Waiting \cup {"planning"}}
  <2>1. Outstanding \subseteq all /\ all \subseteq Resource
    BY DEF Outstanding, Checks
  <2>2. IsFiniteSet(all)
    BY <2>1, Bounds, FS_Subset
  <2> QED
    BY <2>1, <2>2, FS_Subset, FS_CardinalityType DEF outstanding_count
<1>5. n \in Nat /\ Cardinality(Outstanding) + n <= Batch
  BY <1>4, Bounds, Awaited
<1> HIDE DEF n
<1>6. /\ Shaped("awaited", s) /\ s.pc = "list" /\ s.candidates = <<>> /\ s.allowed = n
  BY <1>3, <1>5, Awaited DEF Shaped, Row
<1> HIDE DEF s
<1>7. /\ Roomy(s, Cardinality(Outstanding)) /\ DOMAIN s.candidates = {}
  <2>1. Len(<<>>) = 0 /\ DOMAIN <<>> = {}
    OBVIOUS
  <2> QED
    BY <1>5, <1>6, <2>1, Awaited DEF Roomy
<1>8. \A r \in Resource : refusal[r] = "once" => age[r] # Due
  BY <1>3 DEF SweepInv, Refusals, Stamping
<1>9. refusal' \in [Resource -> {"none", "once", "doubtful"}]
  BY <1>2 DEF SweepInv, Typed
<1> QED
  BY <1>2, <1>6, <1>7, <1>8, <1>9, Bounds, AttemptStep

LEMMA ListStep ==
  ASSUME SweepInv, NEW a \in Attempt, List(a)
  PROVE  SweepInv'
<1> DEFINE found == drift_candidates(attempt["awaited"].allowed)
           list == [i \in DOMAIN found |-> <<found[i], row[found[i]].operation>>]
           s == [pc |-> "accept", allowed |-> 0, bucket |-> 0, candidates |-> list,
                 sleep |-> IF Len(found) = attempt["awaited"].allowed THEN 1 ELSE Interval]
<1>1. a = "awaited"
  BY Bounds DEF SweepInv, Typed, Shaped, List, Running, Attempt
<1>2. /\ attempt' = [attempt EXCEPT !["awaited"] = s]
      /\ UNCHANGED <<row, busy, late, age, order, refusal>>
  BY <1>1 DEF List, world, history
<1>3. attempt["awaited"].pc = "list" /\ attempt["awaited"].allowed \in Nat
  BY <1>1, Awaited DEF List, Running, Row
<1>4. /\ found \in Seq(Resource) /\ Distinct(found) /\ Len(found) <= attempt["awaited"].allowed
      /\ \A i \in DOMAIN found : found[i] \in Candidate
  BY <1>3, Found DEF SweepInv
<1> HIDE DEF found
<1>5. DOMAIN found = 1..Len(found) /\ Len(found) \in Nat /\ \A i \in DOMAIN found : found[i] \in Resource
  BY <1>4
<1>6. /\ list \in Seq(Pair) /\ Len(list) = Len(found) /\ DOMAIN list = DOMAIN found
      /\ \A i \in DOMAIN list : list[i][1] = found[i]
  <2>1. \A i \in DOMAIN found : <<found[i], row[found[i]].operation>> \in Pair
    BY <1>5 DEF SweepInv, Typed, Pair
  <2>2. list \in [1..Len(found) -> Pair]
    BY <1>5, <2>1
  <2> QED
    BY <1>5, <2>2
<1> HIDE DEF list
<1>7. Shaped("awaited", s) /\ s.pc = "accept" /\ s.candidates = list
  BY <1>6, Bounds DEF Shaped
<1> HIDE DEF s
<1>8. Roomy(s, Cardinality(Outstanding))
  BY <1>3, <1>4, <1>5, <1>6, <1>7, Bounds, Awaited DEF Roomy
<1>9. \A i, j \in DOMAIN list : list[i][1] = list[j][1] => i = j
  BY <1>4, <1>6 DEF Distinct
<1>10. \A r \in Resource : refusal[r] = "once" => age[r] # Due
  BY <1>3 DEF SweepInv, Refusals, Stamping
<1>11. \A i \in DOMAIN list : refusal[list[i][1]] # "once"
  BY <1>4, <1>5, <1>6, <1>10 DEF Candidate
<1>12. refusal' \in [Resource -> {"none", "once", "doubtful"}]
  BY <1>2 DEF SweepInv, Typed
<1> QED
  BY <1>2, <1>7, <1>8, <1>9, <1>10, <1>11, <1>12, Bounds, AttemptStep

\* What is left of a list once its head is dealt with.
LEMMA Dealt ==
  ASSUME SweepInv, NEW a \in Attempt, attempt[a].pc \in {"accept", "stamp"}, attempt[a].candidates # <<>>
  PROVE  LET s == [attempt[a] EXCEPT !.pc = "accept", !.candidates = Tail(@)]
             r == Head(attempt[a].candidates)[1]
         IN /\ Shaped(a, s) /\ s.pc = "accept" /\ s.candidates = Tail(attempt[a].candidates)
            /\ r \in Resource /\ attempt[a].candidates[1][1] = r
            /\ Len(s.candidates) \in Nat /\ Len(s.candidates) + 1 = Len(attempt[a].candidates)
            /\ a = "awaited" =>
                   /\ \A i, j \in DOMAIN s.candidates : s.candidates[i][1] = s.candidates[j][1] => i = j
                   /\ \A i \in DOMAIN s.candidates : s.candidates[i][1] \in Resource \ {r}
                                                     /\ refusal[s.candidates[i][1]] # "once"
<1> DEFINE s == [attempt[a] EXCEPT !.pc = "accept", !.candidates = Tail(@)]
           list == attempt[a].candidates
           r == Head(list)[1]
<1>1. attempt[a] \in Row /\ list \in Seq(Pair) /\ Shaped(a, attempt[a])
  BY DEF SweepInv, Typed, Row
<1>2. /\ r = list[1][1] /\ r \in Resource /\ 1 \in DOMAIN list /\ Tail(list) \in Seq(Pair)
      /\ Len(list) \in Nat /\ Len(list) > 0 /\ Len(Tail(list)) = Len(list) - 1
      /\ \A i \in DOMAIN Tail(list) : Tail(list)[i] = list[i + 1] /\ i + 1 \in DOMAIN list
                                      /\ i \in Nat /\ i > 0
  BY <1>1, Listing
<1>3. Shaped(a, s) /\ s.pc = "accept" /\ s.candidates = Tail(list)
  BY <1>1, <1>2 DEF Shaped, Row
<1>4. ASSUME a = "awaited"
      PROVE  /\ \A i, j \in DOMAIN Tail(list) : Tail(list)[i][1] = Tail(list)[j][1] => i = j
             /\ \A i \in DOMAIN Tail(list) : /\ Tail(list)[i][1] \in Resource \ {r}
                                             /\ refusal[Tail(list)[i][1]] # "once"
  <2>1. /\ \A i, j \in DOMAIN list : list[i][1] = list[j][1] => i = j
        /\ \A i \in DOMAIN list : refusal[list[i][1]] = "once" => i = 1
        /\ \A i \in DOMAIN list : list[i][1] \in Resource
    BY <1>4, Awaited DEF SweepInv, Refusals, Unrefused
  <2>2. ASSUME NEW i \in DOMAIN Tail(list), NEW j \in DOMAIN Tail(list),
               Tail(list)[i][1] = Tail(list)[j][1]
        PROVE  i = j
    <3>1. i + 1 = j + 1
      BY <1>2, <2>1, <2>2
    <3> QED
      BY <1>2, <3>1
  <2>3. ASSUME NEW i \in DOMAIN Tail(list)
        PROVE  Tail(list)[i][1] \in Resource \ {r} /\ refusal[Tail(list)[i][1]] # "once"
    <3>1. i + 1 \in DOMAIN list /\ i + 1 # 1 /\ Tail(list)[i] = list[i + 1]
      BY <1>2
    <3> QED
      BY <1>2, <2>1, <3>1
  <2> QED
    BY <2>2, <2>3
<1> QED
  BY <1>2, <1>3, <1>4

LEMMA StampStep ==
  ASSUME SweepInv, NEW a \in Attempt, Stamp(a)
  PROVE  SweepInv'
<1> DEFINE s == [attempt[a] EXCEPT !.pc = "accept", !.candidates = Tail(@)]
           r == Head(attempt[a].candidates)[1]
<1>1. /\ attempt[a].pc = "stamp" /\ Stamped(r) /\ attempt' = [attempt EXCEPT ![a] = s]
      /\ UNCHANGED <<row, busy, late, refusal>>
  BY DEF Stamp, Running, stamp_drift_refusal, history
<1>2. attempt[a].candidates # <<>>
  BY <1>1 DEF SweepInv, Typed, Shaped
<1>3. /\ Shaped(a, s) /\ s.pc = "accept" /\ r \in Resource /\ attempt[a].candidates[1][1] = r
      /\ Len(s.candidates) \in Nat /\ Len(s.candidates) + 1 = Len(attempt[a].candidates)
      /\ a = "awaited" =>
             /\ \A i, j \in DOMAIN s.candidates : s.candidates[i][1] = s.candidates[j][1] => i = j
             /\ \A i \in DOMAIN s.candidates : s.candidates[i][1] \in Resource \ {r}
                                               /\ refusal[s.candidates[i][1]] # "once"
  BY <1>1, <1>2, Dealt
<1> HIDE DEF s, r
<1>4. a = "awaited" => Roomy(s, Cardinality(Outstanding))
  BY <1>3, Awaited, Bounds DEF Roomy
<1>5. \A q \in Resource : a = "awaited" /\ refusal[q] = "once" => age'[q] # Due
  <2> SUFFICES ASSUME NEW q \in Resource, a = "awaited", refusal[q] = "once" PROVE age'[q] # Due
    OBVIOUS
  <2>1. /\ age'[r] = 0
        /\ q # r => age'[q] = age[q]
    BY <1>1, <1>3, StampTyped DEF SweepInv
  <2>2. age[q] # Due \/ q = r
    BY <1>3 DEF SweepInv, Refusals, Stamping
  <2> QED
    BY <2>1, <2>2, Bounds
<1>6. refusal' \in [Resource -> {"none", "once", "doubtful"}]
  BY <1>1 DEF SweepInv, Typed
<1> QED
  BY <1>1, <1>3, <1>4, <1>5, <1>6, AttemptStep

LEMMA ReturnStep ==
  ASSUME SweepInv, NEW a \in Attempt, Return(a)
  PROVE  SweepInv'
<1>1. /\ attempt' = [attempt EXCEPT ![a] = NoAttempt] /\ attempt[a].pc = "accept"
      /\ UNCHANGED <<row, busy, late, age, order, refusal>>
  BY DEF Return, Running, world, history
<1>2. \A r \in Resource : a = "awaited" /\ refusal[r] = "once" => age[r] # Due
  BY <1>1 DEF SweepInv, Refusals, Stamping
<1>3. refusal' \in [Resource -> {"none", "once", "doubtful"}]
  BY <1>1 DEF SweepInv, Typed
<1> QED
  BY <1>1, <1>2, <1>3, NothingShaped, EmptyHanded, AttemptStep

\* The check that the awaited attempt accepts takes its candidate's place; one
\* that an overtaken attempt accepts is late.
LEMMA AcceptStep ==
  ASSUME SweepInv, NEW a \in Attempt, accept_system(a)
  PROVE  SweepInv'
<1> DEFINE s == [attempt[a] EXCEPT !.candidates = Tail(@)]
           t == [attempt[a] EXCEPT !.pc = "accept", !.candidates = Tail(@)]
           r == Head(attempt[a].candidates)[1]
           operation == Head(attempt[a].candidates)[2]
           key == <<r, attempt[a].bucket>>
<1>1. /\ attempt[a].pc = "accept" /\ attempt[a].candidates # <<>>
      /\ attempt' = [attempt EXCEPT ![a] = s]
      /\ UNCHANGED <<row, age, order, refusal>>
  BY DEF accept_system, Running
<1>2. s = t
  BY <1>1 DEF SweepInv, Typed, Row
<1>a. /\ Shaped(a, t) /\ t.pc = "accept" /\ r \in Resource
      /\ Len(t.candidates) \in Nat /\ Len(t.candidates) + 1 = Len(attempt[a].candidates)
      /\ a = "awaited" =>
             /\ \A i, j \in DOMAIN t.candidates : t.candidates[i][1] = t.candidates[j][1] => i = j
             /\ \A i \in DOMAIN t.candidates : t.candidates[i][1] \in Resource \ {r}
                                               /\ refusal[t.candidates[i][1]] # "once"
  BY <1>1, Dealt
<1>4. \/ UNCHANGED <<busy, late>>
      \/ /\ busy[r] = Idle /\ busy' = [busy EXCEPT ![r] = "queued"]
         /\ late' = IF a = "awaited" THEN late ELSE late \cup {r}
  BY DEF accept_system, Acceptable
<1> HIDE DEF s, t, r
<1>3. /\ Shaped(a, s) /\ s.pc = "accept" /\ r \in Resource
      /\ Len(s.candidates) \in Nat /\ Len(s.candidates) + 1 = Len(attempt[a].candidates)
      /\ a = "awaited" =>
             /\ \A i, j \in DOMAIN s.candidates : s.candidates[i][1] = s.candidates[j][1] => i = j
             /\ \A i \in DOMAIN s.candidates : s.candidates[i][1] \in Resource \ {r}
                                               /\ refusal[s.candidates[i][1]] # "once"
  BY <1>2, <1>a
<1>5. \A q \in Resource : a = "awaited" /\ refusal[q] = "once" => age[q] # Due
  BY <1>1 DEF SweepInv, Refusals, Stamping
<1>6. refusal' \in [Resource -> {"none", "once", "doubtful"}]
  BY <1>1 DEF SweepInv, Typed
<1>7. CASE UNCHANGED <<busy, late>>
  <2>1. a = "awaited" => Roomy(s, Cardinality(Outstanding))
    BY <1>3, Awaited, Bounds DEF Roomy
  <2> QED
    BY <1>1, <1>3, <1>5, <1>6, <1>7, <2>1, AttemptStep
<1>8. CASE /\ busy[r] = Idle /\ busy' = [busy EXCEPT ![r] = "queued"]
           /\ late' = IF a = "awaited" THEN late ELSE late \cup {r}
  <2>0. /\ "queued" \in Checks /\ Idle \notin Checks
        /\ busy \in [Resource -> Checks \cup {Idle, "change", "user_check"}]
        /\ late \subseteq {q \in Resource : busy[q] \in Checks}
    BY DEF Checks, Waiting, Idle, SweepInv, Typed, Room
  <2>1. /\ attempt' \in [Attempt -> Row] /\ \A b \in Attempt : Shaped(b, attempt'[b])
        /\ attempt'[a] = s /\ \A b \in Attempt : b # a => attempt'[b] = attempt[b]
    BY <1>1, <1>3, AttemptMoves DEF SweepInv
  <2>2. Typed'
    <3>1. busy' \in [Resource -> Checks \cup {Idle, "change", "user_check"}]
      BY <1>8, <2>0
    <3> QED
      BY <1>1, <1>6, <2>1, <3>1 DEF SweepInv, Typed, Row
  <2>3. /\ r \notin late /\ r \notin Outstanding
        /\ late' \subseteq {q \in Resource : busy'[q] \in Checks}
        /\ Outstanding' = IF a = "awaited" THEN Outstanding \cup {r} ELSE Outstanding
    <3>1. r \notin late /\ r \notin Outstanding
      BY <1>8, <2>0 DEF Outstanding
    <3>2. busy'[r] = "queued" /\ \A q \in Resource : q # r => busy'[q] = busy[q]
      BY <1>3, <1>8, <2>0
    <3>3. late' \subseteq {q \in Resource : busy'[q] \in Checks}
      BY <1>3, <1>8, <2>0, <3>2
    <3>4. Outstanding' = {q \in Resource \ late' : busy'[q] \in Checks}
      BY DEF Outstanding
    <3>5. Outstanding' = IF a = "awaited" THEN Outstanding \cup {r} ELSE Outstanding
      BY <1>3, <1>8, <2>0, <3>1, <3>2, <3>4 DEF Outstanding
    <3> QED
      BY <3>1, <3>3, <3>5
  <2>4. CASE a = "awaited"
    <3>1. Cardinality(Outstanding \cup {r}) = Cardinality(Outstanding) + 1
      BY <2>3, Counted, FS_AddElement
    <3>2. Cardinality(Outstanding)' = Cardinality(Outstanding) + 1
      BY <2>3, <2>4, <3>1
    <3>3. Roomy(s, Cardinality(Outstanding) + 1)
      BY <1>3, <2>4, Awaited, Bounds DEF Roomy
    <3>4. Room'
      BY <2>1, <2>3, <2>4, <3>2, <3>3 DEF Room
    <3>5. Refusals'
      BY <1>1, <1>3, <1>5, <2>1, <2>4 DEF Refusals, Unrefused
    <3> QED
      BY <2>2, <3>4, <3>5 DEF SweepInv
  <2>5. CASE a # "awaited"
    <3>1. attempt'["awaited"] = attempt["awaited"]
      BY <2>1, <2>5, Bounds
    <3>2. Room'
      BY <2>3, <2>5, <3>1 DEF SweepInv, Room
    <3>3. Refusals'
      BY <1>1, <3>1, RefusalsKept DEF SweepInv
    <3> QED
      BY <2>2, <3>2, <3>3 DEF SweepInv
  <2> QED
    BY <2>4, <2>5
<1> QED
  BY <1>4, <1>7, <1>8

\* Only the candidate at the head is refused, and not a second time.
LEMMA RefusedStep ==
  ASSUME SweepInv, NEW a \in Attempt, refused(a)
  PROVE  SweepInv'
<1> DEFINE s == [attempt[a] EXCEPT !.pc = "stamp"]
           list == attempt[a].candidates
           r == Head(list)[1]
<1>1. /\ attempt[a].pc = "accept" /\ list # <<>>
      /\ attempt' = [attempt EXCEPT ![a] = s]
      /\ refusal' = [refusal EXCEPT ![r] = IF a = "awaited" THEN "once" ELSE "doubtful"]
      /\ UNCHANGED <<row, busy, late, age, order>>
  BY DEF refused, Running, world
<1>2. /\ attempt[a] \in Row /\ list \in Seq(Pair) /\ Shaped(a, attempt[a])
      /\ refusal \in [Resource -> {"none", "once", "doubtful"}]
  BY DEF SweepInv, Typed, Row
<1>3. Shaped(a, s) /\ s.pc = "stamp" /\ s.candidates = list
  BY <1>1, <1>2 DEF Shaped, Row
<1>4. r = list[1][1] /\ r \in Resource /\ 1 \in DOMAIN list
  BY <1>1, <1>2, Listing
<1> HIDE DEF s, r
<1>5. refusal' \in [Resource -> {"none", "once", "doubtful"}]
  BY <1>1, <1>2, <1>4
<1>6. CASE a = "awaited"
  <2>0. /\ refusal'[r] = "once" /\ \A q \in Resource : q # r => refusal'[q] = refusal[q]
    BY <1>1, <1>2, <1>4, <1>6
  <2>1. /\ attempt' \in [Attempt -> Row] /\ \A b \in Attempt : Shaped(b, attempt'[b])
        /\ attempt'[a] = s
    BY <1>1, <1>3, AttemptMoves DEF SweepInv
  <2>2. Typed'
    BY <1>1, <1>5, <2>1 DEF SweepInv, Typed, Row
  <2>3. Room'
    <3>1. Outstanding' = Outstanding /\ late' \subseteq {q \in Resource : busy'[q] \in Checks}
      BY <1>1 DEF SweepInv, Room, Outstanding
    <3>2. Len(list) \in Nat
      BY <1>2
    <3> QED
      BY <1>3, <1>6, <2>1, <2>2, <3>1, <3>2, RoomKept DEF SweepInv
  <2>4. /\ \A i, j \in DOMAIN list : list[i][1] = list[j][1] => i = j
        /\ \A i \in DOMAIN list : refusal[list[i][1]] # "once" /\ list[i][1] \in Resource
    BY <1>1, <1>6, Awaited DEF SweepInv, Refusals, Unrefused
  <2>6. \A q \in Resource : refusal[q] = "once" => age[q] # Due
    BY <1>1, <1>6 DEF SweepInv, Refusals, Stamping
  <2>7. Stamping(s, r)
    BY <1>3, <1>4 DEF Stamping
  <2>8. Unrefused(attempt["awaited"])'
    BY <1>3, <1>4, <1>6, <2>0, <2>1, <2>4 DEF Unrefused
  <2>9. Refusals'
    BY <1>1, <1>6, <2>0, <2>1, <2>6, <2>7, <2>8 DEF Refusals
  <2> QED
    BY <2>2, <2>3, <2>9 DEF SweepInv
<1>7. CASE a # "awaited"
  <2>1. \A q \in Resource : refusal'[q] \in {refusal[q], "doubtful"}
    BY <1>1, <1>2, <1>4, <1>7
  <2> QED
    BY <1>1, <1>3, <1>5, <1>7, <2>1, AttemptStep
<1> QED
  BY <1>6, <1>7

\* An attempt that is lost between the refused event and the stamp leaves a doubt.
LEMMA Lost ==
  ASSUME SweepInv, NEW a \in Attempt, Lose(a)
  PROVE  /\ \A r \in Resource : refusal'[r] \in {refusal[r], "doubtful"}
         /\ refusal' \in [Resource -> {"none", "once", "doubtful"}]
         /\ a = "awaited" => \A r \in Resource : refusal'[r] = "once" => age[r] # Due
<1>0. refusal \in [Resource -> {"none", "once", "doubtful"}]
  BY DEF SweepInv, Typed
<1>1. CASE ~Running(a, "stamp")
  <2>1. refusal' = refusal
    BY <1>1 DEF Lose
  <2> QED
    BY <1>0, <1>1, <2>1 DEF SweepInv, Refusals, Stamping, Running
<1>2. CASE Running(a, "stamp")
  <2> DEFINE r == Head(attempt[a].candidates)[1]
  <2>1. attempt[a].candidates \in Seq(Pair) /\ attempt[a].candidates # <<>>
    BY <1>2 DEF SweepInv, Typed, Shaped, Running
  <2>2. r = attempt[a].candidates[1][1] /\ r \in Resource
    BY <2>1, Listing
  <2>3. refusal' = [refusal EXCEPT ![r] = "doubtful"]
    BY <1>2 DEF Lose
  <2> HIDE DEF r
  <2>4. refusal'[r] = "doubtful" /\ \A q \in Resource : q # r => refusal'[q] = refusal[q]
    BY <1>0, <2>2, <2>3
  <2>5. a = "awaited" => \A q \in Resource : q # r /\ refusal[q] = "once" => age[q] # Due
    BY <2>2 DEF SweepInv, Refusals, Stamping
  <2> QED
    BY <1>0, <2>2, <2>3, <2>4, <2>5
<1> QED
  BY <1>1, <1>2

LEMMA DieStep ==
  ASSUME SweepInv, NEW a \in Attempt, Die(a)
  PROVE  SweepInv'
<1>1. /\ attempt' = [attempt EXCEPT ![a] = NoAttempt] /\ Lose(a)
      /\ UNCHANGED <<row, busy, late, age, order>>
  BY DEF Die, world
<1> QED
  BY <1>1, Lost, NothingShaped, EmptyHanded, AttemptStep

LEMMA TimeOutStep ==
  ASSUME SweepInv, TimeOut
  PROVE  SweepInv'
<1> DEFINE s == attempt["awaited"]
<1>1. /\ s.candidates # <<>> /\ Lose("awaited")
      /\ attempt' = [awaited |-> NoAttempt, overtaken |-> s]
      /\ UNCHANGED <<row, busy, late, age, order>>
  BY DEF TimeOut, world
<1>2. Shaped("awaited", s) /\ s \in Row
  BY Awaited
<1>3. Shaped("overtaken", s)
  BY <1>1, <1>2 DEF Shaped
<1>4. /\ attempt' \in [Attempt -> Row] /\ \A a \in Attempt : Shaped(a, attempt'[a])
      /\ attempt'["awaited"] = NoAttempt
  <2>1. attempt'["awaited"] = NoAttempt /\ attempt'["overtaken"] = s
    BY <1>1
  <2>2. DOMAIN attempt' = Attempt /\ attempt' = [a \in Attempt |-> attempt'[a]]
    BY <1>1 DEF Attempt
  <2>3. \A a \in Attempt : attempt'[a] \in {NoAttempt, s} /\ Shaped(a, attempt'[a])
    BY <1>2, <1>3, <2>1, NothingShaped, Bounds DEF Attempt
  <2>4. \A a \in Attempt : attempt'[a] \in Row
    BY <1>2, <2>3, NothingShaped
  <2> QED
    BY <2>1, <2>2, <2>3, <2>4
<1>5. Typed'
  BY <1>1, <1>4, Lost, Bounds DEF SweepInv, Typed, Row
<1>6. Room'
  BY <1>1, <1>4, EmptyHanded DEF SweepInv, Room, Outstanding
<1>7. Refusals'
  BY <1>1, <1>4, Lost, Bounds, EmptyHanded DEF Refusals, Unrefused
<1> QED
  BY <1>5, <1>6, <1>7 DEF SweepInv


-----------------------------------------------------------------------------
(* The theorems                                                             *)

LEMMA SweepInit ==
  ASSUME Init
  PROVE  SweepInv
<1>1. late = {} /\ Outstanding = {}
  BY DEF Init, Outstanding, Checks, Waiting, Idle
<1>2. attempt["awaited"] = NoAttempt
  BY Bounds DEF Init
<1>3. Len(<<>>) = 0 /\ DOMAIN <<>> = {}
  OBVIOUS
<1>4. Room
  BY <1>1, <1>2, <1>3, NothingShaped, Bounds, FS_EmptySet DEF Room, Roomy
<1>5. Refusals
  BY <1>2, <1>3, NothingShaped DEF Init, Refusals, Unrefused
<1> QED
  BY <1>4, <1>5, InitTyped DEF SweepInv

LEMMA SweepStep ==
  ASSUME SweepInv, [Next]_vars
  PROVE  SweepInv'
<1>1. CASE start_drift_sweep
  BY <1>1, Unmoved DEF start_drift_sweep, world, history
<1>2. CASE Exhausted
  BY <1>2, Unmoved DEF Exhausted, world, history
<1>3. CASE Dispatch
  BY <1>3, DispatchStep
<1>4. CASE Wake
  BY <1>4, Unmoved DEF Wake, world, history
<1>5. CASE Configure
  BY <1>5, Unmoved DEF Configure, history
<1>6. CASE Tick
  BY <1>6, TickStep
<1>7. CASE Start
  BY <1>7, StartStep
<1>8. CASE TimeOut
  BY <1>8, TimeOutStep
<1>9. ASSUME NEW a \in Attempt, Work(a) \/ Die(a)
      PROVE  SweepInv'
  BY <1>9, CountStep, ListStep, AcceptStep, RefusedStep, StampStep, ReturnStep, DieStep DEF Work
<1>10. ASSUME NEW r \in Resource,
              \/ Plan(r) \/ Checked(r) \/ Remap(r)
              \/ Submit(r, "change") \/ Submit(r, "user_check")
              \/ \E outcome \in {"failed", "deployed", "destroyed"} : Finish(r, outcome)
       PROVE  SweepInv'
  BY <1>10, OthersStep
<1>11. CASE UNCHANGED vars
  BY <1>11, Unmoved DEF vars
<1> QED
  BY <1>1, <1>2, <1>3, <1>4, <1>5, <1>6, <1>7, <1>8, <1>9, <1>10, <1>11 DEF Next

\* Every reachable state satisfies the inductive invariant: what an attempt may
\* hold, the room it has left and whom it may still refuse (sweep_drift).
THEOREM SweepInvariant == SweepSpec => []SweepInv
<1>1. SweepInv /\ [Next]_vars => SweepInv'
  BY SweepStep
<1> QED
  BY <1>1, SweepInit, PTL DEF SweepSpec

\* For any number of resources and any batch, however slow the checks are
\* planned and whatever attempts die, repeat or are overtaken, the awaited
\* attempts never have more than Batch checks outstanding (sweep_drift reads the
\* count and the candidates in transactions of their own).
THEOREM SweepWithinBatch == SweepSpec => []BatchHeld
<1>1. SweepInv => BatchHeld
  BY Awaited DEF BatchHeld, Outstanding, Checks
<1> QED
  BY <1>1, SweepInvariant, PTL

\* The step in which the awaited attempt goes from accepting to stamping is the
\* refused event of its first candidate.
LEMMA RefusalIsFirst ==
  ASSUME SweepInv, attempt["awaited"].pc = "accept", attempt["awaited"].candidates # <<>>
  PROVE  refusal[Head(attempt["awaited"].candidates)[1]] # "once"
<1>1. attempt["awaited"].candidates \in Seq(Pair)
  BY Awaited
<1>2. /\ Head(attempt["awaited"].candidates) = attempt["awaited"].candidates[1]
      /\ 1 \in DOMAIN attempt["awaited"].candidates
  BY <1>1, Listing
<1> QED
  BY <1>2 DEF SweepInv, Refusals, Unrefused

\* Nothing else brings an attempt there.
LEMMA OnlyRefused ==
  ASSUME SweepInv, [Next]_vars, attempt["awaited"].pc = "accept", attempt'["awaited"].pc = "stamp"
  PROVE  refused("awaited")
<1> DEFINE s == attempt["awaited"]
<1>0. /\ s \in Row /\ attempt \in [Attempt -> Row] /\ "awaited" \in Attempt /\ NoAttempt.pc = "none"
      /\ \A a \in Attempt : a # "awaited" => a = "overtaken"
  BY Awaited, Bounds, NothingShaped DEF SweepInv, Typed, Row, Attempt
<1>1. attempt' # attempt
  BY <1>0
<1>2. ~Tick
  <2>1. Tick => attempt'["awaited"] \in {s, [s EXCEPT !.bucket = 1]}
    BY <1>0 DEF Tick
  <2>2. [s EXCEPT !.bucket = 1].pc = s.pc
    BY <1>0 DEF Row
  <2> QED
    BY <2>1, <2>2
<1>3. ~TimeOut
  BY <1>0 DEF TimeOut
<1>4. ASSUME NEW a \in Attempt, a # "awaited", Work(a) \/ Die(a)
      PROVE  FALSE
  BY <1>0, <1>4 DEF Work, Count, List, accept_system, refused, Stamp, Return, Die
<1>5. ~Count("awaited") /\ ~List("awaited") /\ ~Stamp("awaited") /\ ~Start
  BY <1>0 DEF Count, List, Stamp, Start, Running
<1>6. ~Return("awaited") /\ ~Die("awaited")
  BY <1>0 DEF Return, Die
<1>7. ~accept_system("awaited")
  <2>1. accept_system("awaited") => attempt'["awaited"] = [s EXCEPT !.candidates = Tail(@)]
    BY <1>0 DEF accept_system
  <2>2. [s EXCEPT !.candidates = Tail(@)].pc = s.pc
    BY <1>0 DEF Row
  <2> QED
    BY <2>1, <2>2
<1>8. \E a \in Attempt : Work(a) \/ Die(a)
  BY <1>1, <1>2, <1>3, <1>5 DEF Next, vars, start_drift_sweep, Exhausted, Dispatch, Wake, Configure,
     Plan, Checked, Remap, Submit, Finish
<1> QED
  BY <1>4, <1>5, <1>6, <1>7, <1>8 DEF Work

\* However requests, restarts and clock ticks fall between the refused event and
\* the stamp, no resource has a second refused event before it is due again,
\* except after a doubtful end of an attempt (sweep_drift, stamp_drift_refusal).
THEOREM RefusalsOncePerInterval == SweepSpec => RefusedOncePerInterval
<1> DEFINE Once == \A a \in Attempt :
                      Running(a, "accept") /\ attempt'[a].pc = "stamp" =>
                          \/ a = "overtaken"
                          \/ refusal[Head(attempt[a].candidates)[1]] # "once"
<1>1. ASSUME SweepInv, [Next]_vars
      PROVE  Once
  <2> SUFFICES ASSUME attempt["awaited"].pc = "accept", attempt'["awaited"].pc = "stamp"
               PROVE  refusal[Head(attempt["awaited"].candidates)[1]] # "once"
    BY DEF Running, Attempt
  <2>1. refused("awaited")
    BY <1>1, OnlyRefused
  <2>2. attempt["awaited"].candidates # <<>>
    BY <2>1 DEF refused
  <2> QED
    BY <1>1, <2>2, RefusalIsFirst
<1>2. SweepInv /\ [Next]_vars => [Once]_vars
  BY <1>1
<1> HIDE DEF Once
<1>3. SweepSpec => [][Once]_vars
  BY <1>2, SweepInvariant, PTL DEF SweepSpec
<1> QED
  BY <1>3 DEF RefusedOncePerInterval, Once
=============================================================================
