------------------------------ MODULE BreakerProofs ------------------------------
(***************************************************************************)
(* Proofs about ContinuityBreaker: the record of outcomes and the record of *)
(* captured settings, for any turns, attempts, policies and limits.         *)
(***************************************************************************)
EXTENDS ContinuityBreaker, TLAPS, SequenceTheorems

-----------------------------------------------------------------------------
(* Lists that keep their newest elements. *)

\* Where the elements that a list keeps were in it.
Dropped(s, n) == IF Len(s) > n THEN Len(s) - n ELSE 0

LEMMA NewestElements ==
    ASSUME NEW S, NEW s \in Seq(S), NEW n \in Nat
    PROVE  /\ Newest(s, n) \in Seq(S)
           /\ Dropped(s, n) \in Nat
           /\ Len(Newest(s, n)) = Len(s) - Dropped(s, n)
           /\ Len(Newest(s, n)) <= n
           /\ \A i \in 1..Len(Newest(s, n)) : Newest(s, n)[i] = s[i + Dropped(s, n)]
<1> DEFINE m == IF Len(s) > n THEN Len(s) - n + 1 ELSE 1
<1>1. Len(s) \in Nat /\ \A i \in 1..Len(s) : s[i] \in S
    BY LenProperties, ElementOfSeq
<1>2. m \in Int /\ m = Dropped(s, n) + 1 /\ Dropped(s, n) \in Nat /\ Dropped(s, n) <= Len(s)
      /\ \A i \in m..Len(s) : s[i] \in S
    BY <1>1 DEF Dropped
<1>3. Newest(s, n) = SubSeq(s, m, Len(s))
    BY DEF Newest
<1> HIDE DEF m
<1>4. /\ SubSeq(s, m, Len(s)) \in Seq(S)
      /\ Len(SubSeq(s, m, Len(s))) = IF m <= Len(s) THEN Len(s) - m + 1 ELSE 0
      /\ \A i \in 1..(Len(s) - m + 1) : SubSeq(s, m, Len(s))[i] = s[m + i - 1]
    BY <1>1, <1>2, SubSeqProperties
<1>5. Len(SubSeq(s, m, Len(s))) = Len(s) - Dropped(s, n)
    BY <1>1, <1>2, <1>4
<1>6. Len(s) - Dropped(s, n) <= n
    BY <1>1 DEF Dropped
<1>7. \A i \in 1..(Len(s) - Dropped(s, n)) :
          SubSeq(s, m, Len(s))[i] = s[i + Dropped(s, n)]
  <2> TAKE i \in 1..(Len(s) - Dropped(s, n))
  <2>1. i \in 1..(Len(s) - m + 1)
      BY <1>1, <1>2
  <2>2. m + i - 1 = i + Dropped(s, n)
      BY <1>1, <1>2
  <2>3. SubSeq(s, m, Len(s))[i] = s[m + i - 1]
      BY <2>1, <1>4
  <2> QED
      BY <2>2, <2>3
<1> QED
    BY <1>2, <1>3, <1>4, <1>5, <1>6, <1>7

\* A list that is no longer than its limit is kept whole.
LEMMA NewestWhole ==
    ASSUME NEW S, NEW s \in Seq(S), NEW n \in Nat, Len(s) <= n
    PROVE  Newest(s, n) = s
<1>1. Dropped(s, n) = 0
    BY DEF Dropped
<1>2. Len(s) \in Nat
    BY LenProperties
<1>3. /\ Newest(s, n) \in Seq(S) /\ Len(Newest(s, n)) = Len(s)
      /\ \A i \in 1..Len(s) : Newest(s, n)[i] = s[i]
    BY <1>1, <1>2, NewestElements
<1> QED
    BY <1>3, SeqEqual

LEMMA RemoveAtElements ==
    ASSUME NEW S, NEW s \in Seq(S), NEW p \in 1..Len(s)
    PROVE  /\ RemoveAt(s, p) \in Seq(S)
           /\ Len(RemoveAt(s, p)) = Len(s) - 1
           /\ \A i \in 1..(Len(s) - 1) : RemoveAt(s, p)[i] = IF i < p THEN s[i] ELSE s[i + 1]
<1> DEFINE l == SubSeq(s, 1, p - 1)
           r == SubSeq(s, p + 1, Len(s))
<1>1. Len(s) \in Nat /\ \A i \in 1..Len(s) : s[i] \in S
    BY LenProperties, ElementOfSeq
<1>2. /\ l \in Seq(S) /\ Len(l) = p - 1
      /\ \A i \in 1..(p - 1) : l[i] = s[i]
  <2>1. /\ l \in Seq(S) /\ Len(l) = IF 1 <= p - 1 THEN (p - 1) - 1 + 1 ELSE 0
        /\ \A i \in 1..((p - 1) - 1 + 1) : l[i] = s[1 + i - 1]
      BY <1>1, SubSeqProperties
  <2> HIDE DEF l
  <2> QED
      BY <1>1, <2>1
<1>3. /\ r \in Seq(S) /\ Len(r) = Len(s) - p
      /\ \A i \in 1..(Len(s) - p) : r[i] = s[p + i]
  <2>1. /\ r \in Seq(S) /\ Len(r) = IF p + 1 <= Len(s) THEN Len(s) - (p + 1) + 1 ELSE 0
        /\ \A i \in 1..(Len(s) - (p + 1) + 1) : r[i] = s[(p + 1) + i - 1]
      BY <1>1, SubSeqProperties
  <2> HIDE DEF r
  <2> QED
      BY <1>1, <2>1
<1>4. RemoveAt(s, p) = l \o r
    BY DEF RemoveAt
<1> HIDE DEF l, r
<1>5. /\ l \o r \in Seq(S) /\ Len(l \o r) = Len(l) + Len(r)
      /\ \A i \in 1..(Len(l) + Len(r)) : (l \o r)[i] = IF i <= Len(l) THEN l[i] ELSE r[i - Len(l)]
    BY <1>2, <1>3, ConcatProperties
<1> QED
    BY <1>1, <1>2, <1>3, <1>4, <1>5

\* A list without one of its elements, or without none.
LEMMA DropAtElements ==
    ASSUME NEW S, NEW s \in Seq(S), NEW places \in SUBSET (1..Len(s))
    PROVE  DropAt(s, places) \in Seq(S)
<1>1. CASE places = {}
    BY <1>1 DEF DropAt
<1>2. CASE places # {}
  <2>1. PICK p \in places : DropAt(s, places) = RemoveAt(s, p)
      BY <1>2 DEF DropAt
  <2> QED
      BY <2>1, RemoveAtElements
<1> QED
    BY <1>1, <1>2

-----------------------------------------------------------------------------
(* The record of outcomes. *)

\* No turn is counted twice.
Once(outcomes) ==
    \A i, j \in DOMAIN outcomes : i # j => outcomes[i].turn # outcomes[j].turn

\* The first outcome of a turn, judged on the outcomes it is added to.
Fresh(outcomes, t, ok, p) ==
    [turn |-> t, succeeded |-> ok, allowed |-> ok \/ ~Open(outcomes, p)]

\* The outcome of a retry that succeeded.
Recovered(t) == [turn |-> t, succeeded |-> TRUE, allowed |-> TRUE]

\* A turn that the record does not show yet is appended, and the oldest outcome
\* of a full record goes.
LEMMA FirstOutcome ==
    ASSUME NEW s \in Seq(Outcomes), Len(s) <= Kept, NEW t \in Turns,
           NEW ok \in BOOLEAN, NEW p, Places(s, t) = {}
    PROVE  LET r == Recorded(s, t, ok, p)
               d == IF Len(s) = Kept THEN 1 ELSE 0
           IN /\ r \in Seq(Outcomes) /\ Len(r) = Len(s) + 1 - d /\ Len(r) <= Kept
              /\ \A i \in 1..(Len(s) - d) : r[i] = s[i + d]
              /\ r[Len(r)] = Fresh(s, t, ok, p)
<1> DEFINE f == Fresh(s, t, ok, p)
           c == Append(s, f)
           d == IF Len(s) = Kept THEN 1 ELSE 0
<1>1. f \in Outcomes
    BY DEF Fresh, Outcomes
<1>2. Recorded(s, t, ok, p) = Newest(c, Kept)
    BY DEF Recorded, Fresh
<1> HIDE DEF f
<1>3. Len(s) \in Nat /\ Kept \in Nat \ {0}
    BY LenProperties, BoundsAssumption
<1>4. /\ c \in Seq(Outcomes) /\ Len(c) = Len(s) + 1
      /\ c[Len(s) + 1] = f
      /\ \A i \in 1..Len(s) : c[i] = s[i]
    BY <1>1, <1>3, AppendProperties
<1> HIDE DEF c
<1>5. Dropped(c, Kept) = d
    BY <1>3, <1>4 DEF Dropped
<1>6. d \in {0, 1} /\ d <= Len(s)
    BY <1>3
<1> DEFINE r == Newest(c, Kept)
<1>7. /\ r \in Seq(Outcomes) /\ Len(r) = Len(s) + 1 - d /\ Len(r) <= Kept
      /\ \A i \in 1..Len(r) : r[i] = c[i + d]
    BY <1>3, <1>4, <1>5, NewestElements
<1> HIDE DEF r, d
<1>8. \A i \in 1..(Len(s) - d) : r[i] = s[i + d]
    BY <1>3, <1>4, <1>6, <1>7
<1>9. r[Len(r)] = f
  <2>1. Len(r) \in 1..Len(r) /\ Len(r) + d = Len(s) + 1
      BY <1>3, <1>6, <1>7
  <2>2. r[Len(r)] = c[Len(r) + d]
      BY <1>7, <2>1
  <2> QED
      BY <1>4, <2>1, <2>2
<1> QED
    BY <1>2, <1>7, <1>8, <1>9 DEF r, d, f

\* The outcome of a turn that the record shows is replaced in its place.
LEMMA OutcomeReplaced ==
    ASSUME NEW s \in Seq(Outcomes), Len(s) <= Kept, NEW t \in Turns,
           NEW ok, NEW p, Places(s, t) # {}
    PROVE  LET r == Recorded(s, t, ok, p)
           IN /\ r \in Seq(Outcomes) /\ Len(r) = Len(s)
              /\ \A i \in 1..Len(s) : r[i] = IF s[i].turn = t THEN Recovered(t) ELSE s[i]
<1> DEFINE e == [i \in DOMAIN s |-> IF s[i].turn = t THEN Recovered(t) ELSE s[i]]
<1>1. Len(s) \in Nat /\ DOMAIN s = 1..Len(s) /\ \A i \in 1..Len(s) : s[i] \in Outcomes
    BY LenProperties, ElementOfSeq
<1>2. Recovered(t) \in Outcomes
    BY DEF Recovered, Outcomes
<1>3. e \in [1..Len(s) -> Outcomes]
    BY <1>1, <1>2
<1>4. e \in Seq(Outcomes) /\ Len(e) = Len(s)
    BY <1>1, <1>3
<1>5. \A i \in 1..Len(s) : e[i] = IF s[i].turn = t THEN Recovered(t) ELSE s[i]
    BY <1>1
<1>6. Recorded(s, t, ok, p) = Newest(e, Kept)
    BY DEF Recorded, Recovered
<1> HIDE DEF e
<1>7. Newest(e, Kept) = e
    BY <1>4, NewestWhole, BoundsAssumption
<1> QED
    BY <1>4, <1>5, <1>6, <1>7

\* What s holds of a turn r holds too, but for the oldest of a full record, and
\* a success is not taken back.
Stands(s, r) ==
    \A i \in 1..Len(s) :
        \/ i = 1 /\ Len(s) = Kept
        \/ \E j \in 1..Len(r) : /\ r[j].turn = s[i].turn
                                /\ s[i].succeeded => r[j].succeeded

\* All that r holds of turns that s does not show is f.
Adds(s, r, f) ==
    \A j \in 1..Len(r) : r[j] = f \/ \E i \in 1..Len(s) : r[j].turn = s[i].turn

LEMMA RecordedOutcomes ==
    ASSUME NEW s \in Seq(Outcomes), Len(s) <= Kept, Once(s), NEW t \in Turns,
           NEW ok \in BOOLEAN, NEW p
    PROVE  /\ Recorded(s, t, ok, p) \in Seq(Outcomes)
           /\ Len(Recorded(s, t, ok, p)) <= Kept
           /\ Once(Recorded(s, t, ok, p))
           /\ Stands(s, Recorded(s, t, ok, p))
           /\ Adds(s, Recorded(s, t, ok, p), Fresh(s, t, ok, p))
<1> DEFINE r == Recorded(s, t, ok, p)
<1>0. Len(s) \in Nat /\ Kept \in Nat \ {0}
    BY LenProperties, BoundsAssumption
<1>1. DOMAIN s = 1..Len(s) /\ \A i \in 1..Len(s) : s[i] \in Outcomes
    BY LenProperties, ElementOfSeq
<1>2. Fresh(s, t, ok, p).turn = t /\ Recovered(t).turn = t /\ Recovered(t).succeeded
    BY DEF Fresh, Recovered
<1>3. CASE Places(s, t) = {}
  <2> DEFINE d == IF Len(s) = Kept THEN 1 ELSE 0
  <2>1. /\ r \in Seq(Outcomes) /\ Len(r) = Len(s) + 1 - d /\ Len(r) <= Kept
        /\ \A i \in 1..(Len(s) - d) : r[i] = s[i + d]
        /\ r[Len(r)] = Fresh(s, t, ok, p)
      BY <1>3, FirstOutcome
  <2>2. /\ d = 0 \/ (d = 1 /\ Len(s) = Kept)
        /\ d \in {0, 1} /\ d <= Len(s)
    <3>1. Len(s) = Kept => d = 1
        OBVIOUS
    <3>2. Len(s) # Kept => d = 0
        OBVIOUS
    <3> HIDE DEF d
    <3> QED
        BY <1>0, <3>1, <3>2
  <2>3. DOMAIN r = 1..Len(r)
      BY <2>1, LenProperties
  <2> HIDE DEF r, d
  <2>4. \A i \in 1..Len(s) : s[i].turn # t
      BY <1>1, <1>3 DEF Places
  <2>5. \A j \in 1..Len(r) : j # Len(r) =>
                               j + d \in 1..Len(s) /\ r[j] = s[j + d]
    <3> TAKE j \in 1..Len(r)
    <3> HAVE j # Len(r)
    <3>1. j < Len(s) + 1 - d
        BY <1>0, <2>1, <2>2
    <3>2. j \in 1..(Len(s) - d) /\ j + d \in 1..Len(s)
        BY <1>0, <2>2, <3>1
    <3> QED
        BY <2>1, <3>2
  <2>6. Once(r)
    <3> SUFFICES ASSUME NEW i \in 1..Len(r), NEW j \in 1..Len(r), i # j
                 PROVE  r[i].turn # r[j].turn
        BY <2>3 DEF Once
    <3>1. CASE i = Len(r)
        BY <1>2, <2>1, <2>4, <2>5, <3>1
    <3>2. CASE j = Len(r)
        BY <1>2, <2>1, <2>4, <2>5, <3>2
    <3>3. CASE i # Len(r) /\ j # Len(r)
      <4>1. /\ i + d \in 1..Len(s) /\ r[i] = s[i + d]
            /\ j + d \in 1..Len(s) /\ r[j] = s[j + d]
          BY <2>5, <3>3
      <4>2. i + d # j + d
          BY <2>2
      <4> QED
          BY <1>1, <4>1, <4>2 DEF Once
    <3> QED
        BY <3>1, <3>2, <3>3
  <2>7. \A i \in 1..Len(s) : \/ i = 1 /\ Len(s) = Kept
                             \/ \E j \in 1..Len(r) : r[j] = s[i]
    <3> TAKE i \in 1..Len(s)
    <3>1. CASE i = 1 /\ d = 1
        BY <2>2, <3>1
    <3>2. CASE ~(i = 1 /\ d = 1)
      <4>0. i \in Int /\ i - d >= 1 /\ i <= Len(s)
        <5>1. CASE d = 0
            BY <1>0, <5>1
        <5>2. CASE d = 1
            BY <1>0, <3>2, <5>2
        <5> QED
            BY <2>2, <5>1, <5>2
      <4>1. i - d \in 1..(Len(s) - d) /\ (i - d) + d = i
          BY <1>0, <2>2, <4>0
      <4>2. i - d \in 1..Len(r)
          BY <1>0, <2>1, <2>2, <4>0
      <4>3. r[i - d] = s[(i - d) + d]
          BY <2>1, <4>1
      <4> QED
          BY <4>1, <4>2, <4>3
    <3> QED
        BY <3>1, <3>2
  <2>8. \A j \in 1..Len(r) : \/ r[j] = Fresh(s, t, ok, p)
                             \/ \E i \in 1..Len(s) : r[j] = s[i]
      BY <2>1, <2>5
  <2>9. Stands(s, r) /\ Adds(s, r, Fresh(s, t, ok, p))
      BY <2>7, <2>8 DEF Stands, Adds
  <2> QED
      BY <2>1, <2>6, <2>9 DEF r
<1>4. CASE Places(s, t) # {}
  <2>1. /\ r \in Seq(Outcomes) /\ Len(r) = Len(s)
        /\ \A i \in 1..Len(s) : r[i] = IF s[i].turn = t THEN Recovered(t) ELSE s[i]
      BY <1>4, OutcomeReplaced
  <2>2. DOMAIN r = 1..Len(s)
      BY <2>1, LenProperties
  <2> HIDE DEF r
  <2>3. \A i \in 1..Len(s) : r[i].turn = s[i].turn /\ (s[i].succeeded => r[i].succeeded)
      BY <1>2, <2>1
  <2>4. Once(r)
      BY <1>1, <2>2, <2>3 DEF Once
  <2>5. Stands(s, r) /\ Adds(s, r, Fresh(s, t, ok, p))
      BY <2>1, <2>3 DEF Stands, Adds
  <2> QED
      BY <2>1, <2>4, <2>5 DEF r
<1> QED
    BY <1>3, <1>4

-----------------------------------------------------------------------------
(* Types.  TypeOK is not inductive: a key that begins still has a try, and   *)
(* an attempt that is under way has a turn.                                  *)

Phases == {"idle", "read", "store", "begun", "refused"}
Stages == {"idle", "effective", "read", "write", "answered"}
UnderWay == {"effective", "read", "write"}
Works == [turn: Turns \cup {NoTurn}, policy: Policies, succeeded: BOOLEAN,
          current: Records, tries: 0..(Tries - 1)]
Answers == [given: BOOLEAN, presented: BOOLEAN, available: BOOLEAN]

RecordTypes ==
    /\ health \in Records /\ Len(health.outcomes) <= Kept
    /\ settings \in Settings
    /\ snapshots \in Seq(Captures) /\ Len(snapshots) <= SnapshotLimit
    /\ begun \in Seq(Turns)

BeginTypes ==
    /\ phase \in [Turns -> Phases]
    /\ bound \in [Turns -> Settings]
    /\ items \in [Turns -> Seq(Captures)]
    /\ tried \in [Turns -> 0..Tries]
    /\ \A t \in Turns : phase[t] \in {"idle", "read", "store"} => tried[t] < Tries

CompletionTypes ==
    /\ pc \in [Attempts -> Stages]
    /\ work \in [Attempts -> Works]
    /\ answer \in [Attempts -> Answers]
    /\ \A a \in Attempts : pc[a] \in UnderWay => work[a].turn \in Turns

Typed == RecordTypes /\ BeginTypes /\ CompletionTypes

LEMMA NoWorkTyped == NoWork \in Works
<1> USE BoundsAssumption, PolicyAssumption
<1>1. 0 \in 0..MaxResets /\ 0 \in 0..(Tries - 1)
    OBVIOUS
<1>2. <<>> \in Seq(Outcomes)
    BY EmptySeq
<1> QED
    BY <1>1, <1>2 DEF NoWork, Works, Absent, Records

LEMMA InitiallyTyped == Init => Typed
<1> SUFFICES ASSUME Init PROVE Typed
    OBVIOUS
<1> USE BoundsAssumption, PolicyAssumption
<1>1. 0 \in 0..MaxEdits /\ 0 \in 0..MaxResets /\ 0 \in 0..Tries /\ 0 \in 0..(Tries - 1)
      /\ 0 < Tries /\ 0 <= Kept /\ 0 <= SnapshotLimit
    OBVIOUS
<1>2. \A S : <<>> \in Seq(S) /\ Len(<<>>) = 0
    BY EmptySeq
<1>3. Absent \in Records /\ Absent.outcomes = <<>>
    BY <1>1, <1>2 DEF Absent, Records
<1>4. settings \in Settings
    BY <1>1 DEF Init, Settings
<1>5. RecordTypes
    BY <1>1, <1>2, <1>3, <1>4 DEF Init, RecordTypes
<1>6. BeginTypes
    BY <1>1, <1>2, <1>4 DEF Init, BeginTypes, Phases
<1>7. NoWork \in Works /\ NoAnswer \in Answers
    BY NoWorkTyped DEF NoAnswer, Answers
<1>8. CompletionTypes
    BY <1>7 DEF Init, CompletionTypes, Stages, UnderWay
<1> QED
    BY <1>5, <1>6, <1>8 DEF Typed

\* A step that moves one attempt and keeps, or replaces, the record of health.
LEMMA AttemptMoves ==
    ASSUME Typed, NEW a \in Attempts, NEW x \in Stages, NEW w \in Works, NEW y \in Answers,
           x \in UnderWay => w.turn \in Turns,
           pc' = [pc EXCEPT ![a] = x],
           work' = [work EXCEPT ![a] = w],
           answer' = [answer EXCEPT ![a] = y],
           health' \in Records, Len(health'.outcomes) <= Kept,
           UNCHANGED <<settings, snapshots, begun, begins>>
    PROVE  Typed'
<1>1. CompletionTypes'
    BY DEF Typed, CompletionTypes
<1>2. RecordTypes' /\ BeginTypes'
    BY DEF Typed, RecordTypes, BeginTypes, begins
<1> QED
    BY <1>1, <1>2 DEF Typed

LEMMA AttemptMovesOnly ==
    ASSUME Typed, NEW a \in Attempts, NEW x \in Stages, NEW w \in Works,
           x \in UnderWay => w.turn \in Turns,
           pc' = [pc EXCEPT ![a] = x],
           work' = [work EXCEPT ![a] = w],
           UNCHANGED <<records, begins, answer>>
    PROVE  Typed'
<1>1. answer[a] \in Answers /\ answer' = [answer EXCEPT ![a] = answer[a]]
    BY DEF Typed, CompletionTypes
<1>2. health' \in Records /\ Len(health'.outcomes) <= Kept
      /\ UNCHANGED <<settings, snapshots, begun, begins>>
    BY DEF Typed, RecordTypes, records
<1> QED
    BY <1>1, <1>2, AttemptMoves

LEMMA AttemptReturns ==
    ASSUME Typed, NEW a \in Attempts, NEW presented \in BOOLEAN, NEW available \in BOOLEAN,
           Return(a, presented, available),
           health' \in Records, Len(health'.outcomes) <= Kept,
           UNCHANGED <<settings, snapshots, begun, begins>>
    PROVE  Typed'
<1> DEFINE y == [given |-> TRUE, presented |-> presented, available |-> available]
<1>1. y \in Answers /\ "answered" \in Stages /\ "answered" \notin UnderWay
    BY DEF Answers, Stages, UnderWay
<1>2. NoWork \in Works
    BY NoWorkTyped
<1>3. /\ pc' = [pc EXCEPT ![a] = "answered"] /\ work' = [work EXCEPT ![a] = NoWork]
      /\ answer' = [answer EXCEPT ![a] = y]
    BY DEF Return
<1> QED
    BY <1>1, <1>2, <1>3, AttemptMoves

\* Both FindPolicy and ReadEffective: the attempt has its policy, and persists.
LEMMA PersistTyped ==
    ASSUME Typed, NEW a \in Attempts, NEW t \in Turns, NEW p \in Policies, NEW ok \in BOOLEAN,
           NEW from, Goto(a, from, "read"), Persist(a, t, p, ok),
           UNCHANGED <<records, begins, answer>>
    PROVE  Typed'
<1> DEFINE w == [NoWork EXCEPT !.turn = t, !.policy = p, !.succeeded = ok]
<1>1. w \in Works /\ w.turn = t
    BY NoWorkTyped DEF Works
<1>2. "read" \in Stages
    BY DEF Stages
<1>3. pc' = [pc EXCEPT ![a] = "read"] /\ work' = [work EXCEPT ![a] = w]
    BY DEF Goto, Persist
<1> HIDE DEF w
<1> QED
    BY <1>1, <1>2, <1>3, AttemptMovesOnly

LEMMA FindPolicyTyped ==
    ASSUME Typed, NEW a \in Attempts, NEW t \in Turns, NEW ok \in BOOLEAN, FindPolicy(a, t, ok)
    PROVE  Typed'
<1>1. PICK i \in SnapshotsOf(t) : Persist(a, t, snapshots[i].settings.policy, ok)
    BY DEF FindPolicy
<1>2. i \in DOMAIN snapshots
    BY DEF SnapshotsOf, Places
<1>3. snapshots[i] \in Captures
    BY <1>2, LenProperties, ElementOfSeq DEF Typed, RecordTypes
<1>4. snapshots[i].settings.policy \in Policies
    BY <1>3 DEF Captures, Settings
<1> QED
    BY <1>1, <1>4, PersistTyped DEF FindPolicy

LEMMA NoSnapshotTyped ==
    ASSUME Typed, NEW a \in Attempts, NEW t \in Turns, NoSnapshot(a, t)
    PROVE  Typed'
<1> DEFINE w == [work[a] EXCEPT !.turn = t]
<1>1. work[a] \in Works
    BY DEF Typed, CompletionTypes
<1>2. w \in Works /\ w.turn = t
    BY <1>1 DEF Works
<1>3. pc' = [pc EXCEPT ![a] = "effective"] /\ work' = [work EXCEPT ![a] = w]
    BY DEF NoSnapshot, Goto
<1>4. "effective" \in Stages
    BY DEF Stages
<1> HIDE DEF w
<1> QED
    BY <1>2, <1>3, <1>4, AttemptMovesOnly DEF NoSnapshot

LEMMA ReadEffectiveTyped ==
    ASSUME Typed, NEW a \in Attempts, NEW ok \in BOOLEAN, ReadEffective(a, ok)
    PROVE  Typed'
<1>1. work[a].turn \in Turns
    BY DEF ReadEffective, Goto, Typed, CompletionTypes, UnderWay
<1>2. settings.policy \in Policies
    BY DEF Typed, RecordTypes, Settings
<1> QED
    BY <1>1, <1>2, PersistTyped DEF ReadEffective

LEMMA ReadHealthTyped ==
    ASSUME Typed, NEW a \in Attempts, ReadHealth(a)
    PROVE  Typed'
<1> DEFINE w == [work[a] EXCEPT !.current = health]
<1>1. work[a] \in Works /\ work[a].turn \in Turns /\ health \in Records
    BY DEF Typed, CompletionTypes, RecordTypes, ReadHealth, Goto, UnderWay
<1>2. w \in Works /\ w.turn = work[a].turn
    BY <1>1 DEF Works
<1>3. pc' = [pc EXCEPT ![a] = "write"] /\ work' = [work EXCEPT ![a] = w]
    BY DEF ReadHealth, Goto
<1>4. "write" \in Stages
    BY DEF Stages
<1> HIDE DEF w
<1> QED
    BY <1>1, <1>2, <1>3, <1>4, AttemptMovesOnly DEF ReadHealth

LEMMA RecordsFailTyped ==
    ASSUME Typed, NEW a \in Attempts, Unavailable(a), UNCHANGED <<records, begins>>
    PROVE  Typed'
<1>1. health' \in Records /\ Len(health'.outcomes) <= Kept
      /\ UNCHANGED <<settings, snapshots, begun, begins>>
    BY DEF Typed, RecordTypes, records
<1> QED
    BY <1>1, AttemptReturns DEF Unavailable

LEMMA AlreadySettledTyped ==
    ASSUME Typed, NEW a \in Attempts, AlreadySettled(a)
    PROVE  Typed'
<1>1. health' \in Records /\ Len(health'.outcomes) <= Kept
      /\ UNCHANGED <<settings, snapshots, begun, begins>>
    BY DEF Typed, RecordTypes, records, AlreadySettled
<1>2. Presented(health.outcomes, work[a].turn, work[a].policy) \in BOOLEAN
    BY DEF Presented
<1> QED
    BY <1>1, <1>2, AttemptReturns DEF AlreadySettled, Decide

LEMMA RecordedTyped ==
    ASSUME NEW s \in Seq(Outcomes), Len(s) <= Kept, NEW t \in Turns,
           NEW ok \in BOOLEAN, NEW p
    PROVE  Recorded(s, t, ok, p) \in Seq(Outcomes) /\ Len(Recorded(s, t, ok, p)) <= Kept
<1>1. CASE Places(s, t) = {}
    BY <1>1, FirstOutcome
<1>2. CASE Places(s, t) # {}
    BY <1>2, OutcomeReplaced
<1> QED
    BY <1>1, <1>2

\* What the record is after an attempt has written it, when nobody wrote it
\* since the attempt read it.
LEMMA UpdatedRecord ==
    ASSUME Typed, NEW a \in Attempts, pc[a] = "write", health = work[a].current
    PROVE  /\ Updated(a) \in Records
           /\ Updated(a).outcomes
                 = Recorded(health.outcomes, work[a].turn, work[a].succeeded, work[a].policy)
           /\ Len(Updated(a).outcomes) <= Kept
           /\ Updated(a).resets = health.resets
           /\ work[a].turn \in Turns /\ work[a].succeeded \in BOOLEAN /\ work[a].policy \in Policies
<1>1. health \in Records /\ Len(health.outcomes) <= Kept
    BY DEF Typed, RecordTypes
<1>2. /\ work[a].turn \in Turns /\ work[a].succeeded \in BOOLEAN /\ work[a].policy \in Policies
    BY DEF Typed, CompletionTypes, Works, UnderWay
<1> DEFINE r == Recorded(health.outcomes, work[a].turn, work[a].succeeded, work[a].policy)
<1>3. health.outcomes \in Seq(Outcomes)
    BY <1>1 DEF Records
<1>4. r \in Seq(Outcomes) /\ Len(r) <= Kept
    BY <1>1, <1>2, <1>3, RecordedTyped
<1>5. Updated(a) = [health EXCEPT !.exists = TRUE, !.outcomes = r]
    BY <1>1 DEF Updated, Records
<1> HIDE DEF r
<1>6. Updated(a) \in Records /\ Updated(a).outcomes = r /\ Updated(a).resets = health.resets
    BY <1>1, <1>4, <1>5 DEF Records
<1> QED
    BY <1>2, <1>4, <1>6 DEF r

LEMMA WriteHealthTyped ==
    ASSUME Typed, NEW a \in Attempts, WriteHealth(a)
    PROVE  Typed'
<1>1. health' \in Records /\ Len(health'.outcomes) <= Kept
    BY UpdatedRecord DEF WriteHealth
<1>2. Presented(Updated(a).outcomes, work[a].turn, work[a].policy) \in BOOLEAN
    BY DEF Presented
<1> QED
    BY <1>1, <1>2, AttemptReturns DEF WriteHealth, Decide

LEMMA TryAgainTyped ==
    ASSUME Typed, NEW a \in Attempts, TryAgain(a),
           health' \in Records, Len(health'.outcomes) <= Kept,
           UNCHANGED <<settings, snapshots, begun, begins>>
    PROVE  Typed'
<1>1. CASE /\ work[a].tries + 1 < Tries
           /\ Goto(a, "write", "read")
           /\ work' = [work EXCEPT ![a].tries = @ + 1, ![a].current = Absent]
           /\ UNCHANGED answer
  <2> DEFINE w == [work[a] EXCEPT !.tries = @ + 1, !.current = Absent]
  <2>1. work[a] \in Works /\ work[a].turn \in Turns /\ answer[a] \in Answers
      BY <1>1 DEF Typed, CompletionTypes, Goto, UnderWay
  <2>2. work[a].tries + 1 \in 0..(Tries - 1)
      BY <1>1, <2>1, BoundsAssumption DEF Works
  <2>3. Absent \in Records
      BY NoWorkTyped DEF NoWork, Works
  <2>4. w \in Works /\ w.turn = work[a].turn
      BY <2>1, <2>2, <2>3 DEF Works
  <2>5. /\ pc' = [pc EXCEPT ![a] = "read"] /\ work' = [work EXCEPT ![a] = w]
        /\ answer' = [answer EXCEPT ![a] = answer[a]]
      BY <1>1 DEF Goto, Typed, CompletionTypes
  <2>6. "read" \in Stages
      BY DEF Stages
  <2> HIDE DEF w
  <2> QED
      BY <2>1, <2>4, <2>5, <2>6, AttemptMoves
<1>2. CASE Unavailable(a)
    BY <1>2, AttemptReturns DEF Unavailable
<1> QED
    BY <1>1, <1>2 DEF TryAgain

LEMMA HealthLostTyped ==
    ASSUME Typed, NEW a \in Attempts, HealthLost(a)
    PROVE  Typed'
<1>1. health' \in Records /\ Len(health'.outcomes) <= Kept
      /\ UNCHANGED <<settings, snapshots, begun, begins>>
    BY DEF HealthLost, Typed, RecordTypes, records
<1> QED
    BY <1>1, TryAgainTyped DEF HealthLost

LEMMA WriteUnansweredTyped ==
    ASSUME Typed, NEW a \in Attempts, WriteUnanswered(a)
    PROVE  Typed'
<1>1. health' \in Records /\ Len(health'.outcomes) <= Kept
    BY UpdatedRecord DEF WriteUnanswered
<1>2. UNCHANGED <<settings, snapshots, begun, begins>>
    BY DEF WriteUnanswered
<1>3. CASE Unavailable(a)
    BY <1>1, <1>2, <1>3, AttemptReturns DEF Unavailable
<1>4. CASE TryAgain(a)
    BY <1>1, <1>2, <1>4, TryAgainTyped
<1> QED
    BY <1>3, <1>4 DEF WriteUnanswered

LEMMA CompletionTyped ==
    ASSUME Typed, NEW a \in Attempts,
           \/ \E t \in Turns : \/ NoSnapshot(a, t)
                               \/ \E ok \in BOOLEAN : FindPolicy(a, t, ok)
           \/ \E ok \in BOOLEAN : ReadEffective(a, ok)
           \/ ReadHealth(a) \/ AlreadySettled(a) \/ WriteHealth(a) \/ HealthLost(a)
           \/ WriteUnanswered(a) \/ RecordsFail(a)
    PROVE  Typed'
<1>1. CASE \E t \in Turns : NoSnapshot(a, t)
    BY <1>1, NoSnapshotTyped
<1>2. CASE \E t \in Turns, ok \in BOOLEAN : FindPolicy(a, t, ok)
    BY <1>2, FindPolicyTyped
<1>3. CASE \E ok \in BOOLEAN : ReadEffective(a, ok)
    BY <1>3, ReadEffectiveTyped
<1>4. CASE ReadHealth(a)
    BY <1>4, ReadHealthTyped
<1>5. CASE AlreadySettled(a)
    BY <1>5, AlreadySettledTyped
<1>6. CASE WriteHealth(a)
    BY <1>6, WriteHealthTyped
<1>7. CASE HealthLost(a)
    BY <1>7, HealthLostTyped
<1>8. CASE WriteUnanswered(a)
    BY <1>8, WriteUnansweredTyped
<1>9. CASE RecordsFail(a)
    BY <1>9, RecordsFailTyped DEF RecordsFail
<1> QED
    BY <1>1, <1>2, <1>3, <1>4, <1>5, <1>6, <1>7, <1>8, <1>9

\* A step of begin_interaction changes what one turn has, and may store.
LEMMA TurnMoves ==
    ASSUME Typed, NEW t \in Turns, NEW x \in Phases, NEW b \in Settings,
           NEW i \in Seq(Captures), NEW n \in 0..Tries,
           x \in {"idle", "read", "store"} => n < Tries,
           phase' = [phase EXCEPT ![t] = x], bound' = [bound EXCEPT ![t] = b],
           items' = [items EXCEPT ![t] = i], tried' = [tried EXCEPT ![t] = n],
           snapshots' \in Seq(Captures), Len(snapshots') <= SnapshotLimit, begun' \in Seq(Turns),
           UNCHANGED <<health, settings, completions>>
    PROVE  Typed'
<1>1. BeginTypes'
    BY DEF Typed, BeginTypes
<1>2. CompletionTypes' /\ RecordTypes'
    BY DEF Typed, RecordTypes, CompletionTypes, completions
<1> QED
    BY <1>1, <1>2 DEF Typed

\* What is unchanged of a turn, as TurnMoves asks for it.
LEMMA TurnStays ==
    ASSUME Typed, NEW t \in Turns
    PROVE  /\ phase[t] \in Phases /\ bound[t] \in Settings /\ items[t] \in Seq(Captures)
           /\ tried[t] \in 0..Tries
           /\ phase[t] \in {"idle", "read", "store"} => tried[t] < Tries
           /\ phase = [phase EXCEPT ![t] = phase[t]] /\ bound = [bound EXCEPT ![t] = bound[t]]
           /\ items = [items EXCEPT ![t] = items[t]] /\ tried = [tried EXCEPT ![t] = tried[t]]
           /\ snapshots \in Seq(Captures) /\ Len(snapshots) <= SnapshotLimit /\ begun \in Seq(Turns)
           /\ settings \in Settings
    BY DEF Typed, BeginTypes, RecordTypes

LEMMA StoreCaptureTyped ==
    ASSUME Typed, NEW t \in Turns, StoreCapture(t)
    PROVE  /\ snapshots' \in Seq(Captures) /\ Len(snapshots') <= SnapshotLimit
           /\ begun' \in Seq(Turns)
<1> DEFINE old == DropAt(items[t], Places(items[t], t))
           older == DropAt(begun, { i \in DOMAIN begun : begun[i] = t })
<1>1. items[t] \in Seq(Captures) /\ begun \in Seq(Turns) /\ bound[t] \in Settings
    BY TurnStays
<1>2. DOMAIN items[t] = 1..Len(items[t]) /\ DOMAIN begun = 1..Len(begun)
    BY <1>1, LenProperties
<1>3. old \in Seq(Captures) /\ older \in Seq(Turns)
    BY <1>1, <1>2, DropAtElements DEF Places
<1>4. Captured(t) \in Captures
    BY <1>1 DEF Captured, Captures
<1>5. snapshots' = Newest(Append(old, Captured(t)), SnapshotLimit) /\ begun' = Append(older, t)
    BY DEF StoreCapture, WithCapture
<1> HIDE DEF old, older
<1>6. Append(old, Captured(t)) \in Seq(Captures) /\ Append(older, t) \in Seq(Turns)
    BY <1>3, <1>4, AppendProperties
<1> QED
    BY <1>5, <1>6, NewestElements, BoundsAssumption

LEMMA ReadSettingsTyped ==
    ASSUME Typed, NEW t \in Turns, ReadSettings(t)
    PROVE  Typed'
<1>1. "read" \in Phases /\ tried[t] < Tries
    BY TurnStays DEF Phases, ReadSettings
<1>2. UNCHANGED <<health, settings, snapshots, begun, items, tried, completions>>
    BY DEF ReadSettings, records
<1>3. phase' = [phase EXCEPT ![t] = "read"] /\ bound' = [bound EXCEPT ![t] = settings]
    BY DEF ReadSettings
<1> QED
    BY <1>1, <1>2, <1>3, TurnStays, TurnMoves

LEMMA ReadSnapshotsTyped ==
    ASSUME Typed, NEW t \in Turns, ReadSnapshots(t)
    PROVE  Typed'
<1>1. "store" \in Phases /\ tried[t] < Tries
    BY TurnStays DEF Phases, ReadSnapshots
<1>2. UNCHANGED <<health, settings, snapshots, begun, bound, tried, completions>>
    BY DEF ReadSnapshots, records
<1>3. phase' = [phase EXCEPT ![t] = "store"] /\ items' = [items EXCEPT ![t] = snapshots]
    BY DEF ReadSnapshots
<1> QED
    BY <1>1, <1>2, <1>3, TurnStays, TurnMoves

LEMMA StoreSnapshotTyped ==
    ASSUME Typed, NEW t \in Turns, StoreSnapshot(t)
    PROVE  Typed'
<1> DEFINE x == "begun"
<1>1. x \in Phases /\ x \notin {"idle", "read", "store"}
    BY DEF Phases
<1>2. UNCHANGED <<health, settings, bound, items, tried, completions>>
      /\ phase' = [phase EXCEPT ![t] = x] /\ StoreCapture(t)
    BY DEF StoreSnapshot
<1> HIDE DEF x
<1>3. /\ bound' = [bound EXCEPT ![t] = bound[t]] /\ items' = [items EXCEPT ![t] = items[t]]
      /\ tried' = [tried EXCEPT ![t] = tried[t]]
    BY <1>2, TurnStays
<1>4. /\ snapshots' \in Seq(Captures) /\ Len(snapshots') <= SnapshotLimit
      /\ begun' \in Seq(Turns)
    BY <1>2, TurnStays, StoreCaptureTyped
<1>5. /\ bound[t] \in Settings /\ items[t] \in Seq(Captures) /\ tried[t] \in 0..Tries
    BY TurnStays
<1> QED
    BY <1>1, <1>2, <1>3, <1>4, <1>5, TurnMoves

LEMMA StoreUnansweredTyped ==
    ASSUME Typed, NEW t \in Turns, StoreUnanswered(t)
    PROVE  Typed'
<1> DEFINE x == IF items[t] = <<>> /\ tried[t] + 1 < Tries THEN "read" ELSE "refused"
<1>1. x \in Phases /\ (x \in {"idle", "read", "store"} => tried[t] + 1 < Tries)
    BY DEF Phases
<1>2. phase' = [phase EXCEPT ![t] = x]
    BY DEF StoreUnanswered
<1> HIDE DEF x
<1>3. UNCHANGED <<health, settings, bound, items, completions>>
      /\ tried' = [tried EXCEPT ![t] = tried[t] + 1] /\ StoreCapture(t)
    BY TurnStays DEF StoreUnanswered
<1>4. tried[t] + 1 \in 0..Tries
    BY TurnStays, BoundsAssumption DEF StoreUnanswered, StoreCapture
<1> QED
    BY <1>1, <1>2, <1>3, <1>4, TurnStays, TurnMoves, StoreCaptureTyped

LEMMA SnapshotLostTyped ==
    ASSUME Typed, NEW t \in Turns, SnapshotLost(t)
    PROVE  Typed'
<1> DEFINE x == IF tried[t] + 1 < Tries THEN "read" ELSE "refused"
<1>1. x \in Phases /\ (x \in {"idle", "read", "store"} => tried[t] + 1 < Tries)
    BY DEF Phases
<1>2. phase' = [phase EXCEPT ![t] = x]
    BY DEF SnapshotLost
<1> HIDE DEF x
<1>3. UNCHANGED <<health, settings, snapshots, begun, bound, items, completions>>
      /\ tried' = [tried EXCEPT ![t] = tried[t] + 1]
    BY TurnStays DEF SnapshotLost, records
<1>4. tried[t] + 1 \in 0..Tries
    BY TurnStays, BoundsAssumption DEF SnapshotLost
<1> QED
    BY <1>1, <1>2, <1>3, <1>4, TurnStays, TurnMoves

LEMMA BeginFailsTyped ==
    ASSUME Typed, NEW t \in Turns, BeginFails(t)
    PROVE  Typed'
<1> DEFINE x == "refused"
<1>1. x \in Phases /\ x \notin {"idle", "read", "store"}
    BY DEF Phases
<1>2. UNCHANGED <<health, settings, snapshots, begun, bound, items, tried, completions>>
      /\ phase' = [phase EXCEPT ![t] = x]
    BY DEF BeginFails, records
<1> HIDE DEF x
<1>3. /\ bound' = [bound EXCEPT ![t] = bound[t]] /\ items' = [items EXCEPT ![t] = items[t]]
      /\ tried' = [tried EXCEPT ![t] = tried[t]]
    BY <1>2, TurnStays
<1>4. /\ snapshots' \in Seq(Captures) /\ Len(snapshots') <= SnapshotLimit
      /\ begun' \in Seq(Turns)
    BY <1>2, TurnStays
<1>5. /\ bound[t] \in Settings /\ items[t] \in Seq(Captures) /\ tried[t] \in 0..Tries
    BY TurnStays
<1> QED
    BY <1>1, <1>2, <1>3, <1>4, <1>5, TurnMoves

LEMMA AdministrationTyped ==
    ASSUME Typed, Reset \/ \E p \in Policies : SaveSettings(p)
    PROVE  Typed'
<1>1. CASE Reset
  <2>1. health.resets + 1 \in 0..MaxResets
      BY <1>1, BoundsAssumption DEF Reset, Typed, RecordTypes, Records
  <2>2. health' \in Records /\ health'.outcomes = <<>>
      BY <1>1, <2>1, EmptySeq DEF Reset, Records
  <2>3. Len(health'.outcomes) <= Kept
      BY <2>2, EmptySeq, BoundsAssumption
  <2>4. RecordTypes' /\ BeginTypes' /\ CompletionTypes'
      BY <1>1, <2>2, <2>3
      DEF Reset, Typed, RecordTypes, BeginTypes, CompletionTypes, begins, completions
  <2> QED
      BY <2>4 DEF Typed
<1>2. ASSUME NEW p \in Policies, SaveSettings(p) PROVE Typed'
  <2>1. settings.revision + 1 \in 0..MaxEdits
      BY <1>2, BoundsAssumption DEF SaveSettings, Typed, RecordTypes, Settings
  <2>2. settings' \in Settings
      BY <1>2, <2>1 DEF SaveSettings, Settings
  <2>3. RecordTypes' /\ BeginTypes' /\ CompletionTypes'
      BY <1>2, <2>2
      DEF SaveSettings, Typed, RecordTypes, BeginTypes, CompletionTypes, begins, completions
  <2> QED
      BY <2>3 DEF Typed
<1> QED
    BY <1>1, <1>2

LEMMA StepTyped == Typed /\ [Next]_vars => Typed'
<1> SUFFICES ASSUME Typed, [Next]_vars PROVE Typed'
    OBVIOUS
<1>1. CASE \E t \in Turns :
             \/ ReadSettings(t) \/ ReadSnapshots(t) \/ StoreSnapshot(t) \/ SnapshotLost(t)
             \/ StoreUnanswered(t) \/ BeginFails(t)
    BY <1>1, ReadSettingsTyped, ReadSnapshotsTyped, StoreSnapshotTyped, SnapshotLostTyped,
       StoreUnansweredTyped, BeginFailsTyped
<1>2. CASE Reset \/ \E p \in Policies : SaveSettings(p)
    BY <1>2, AdministrationTyped
<1>3. CASE \E a \in Attempts :
             \/ \E t \in Turns : \/ NoSnapshot(a, t)
                                 \/ \E ok \in BOOLEAN : FindPolicy(a, t, ok)
             \/ \E ok \in BOOLEAN : ReadEffective(a, ok)
             \/ ReadHealth(a) \/ AlreadySettled(a) \/ WriteHealth(a) \/ HealthLost(a)
             \/ WriteUnanswered(a) \/ RecordsFail(a)
    BY <1>3, CompletionTyped
<1>4. CASE UNCHANGED vars
    BY <1>4 DEF Typed, RecordTypes, BeginTypes, CompletionTypes, vars, records, begins, completions
<1> QED
    BY <1>1, <1>2, <1>3, <1>4 DEF Next

\* TypeOK: the records, loops and answers stay well formed, and no record
\* outgrows its limit (continuity_health.py, line 222; continuity_settings.py,
\* line 124).
THEOREM TypesHold == Spec => []Typed
<1>1. Init => Typed
    BY InitiallyTyped
<1>2. Typed /\ [Next]_vars => Typed'
    BY StepTyped
<1> QED
    BY <1>1, <1>2, PTL DEF Spec

-----------------------------------------------------------------------------
(* What a step does to the record of outcomes. *)

\* Only two steps touch the outcomes: an attempt that finds the record as it
\* read it, and a reset.
LEMMA HealthSteps ==
    ASSUME Typed, [Next]_vars
    PROVE  \/ UNCHANGED health
           \/ health'.resets = health.resets + 1 /\ health'.outcomes = <<>>
           \/ \E a \in Attempts :
                  pc[a] = "write" /\ health = work[a].current /\ health' = Updated(a)
<1> USE DEF records
<1>1. CASE \E t \in Turns :
             \/ ReadSettings(t) \/ ReadSnapshots(t) \/ StoreSnapshot(t) \/ SnapshotLost(t)
             \/ StoreUnanswered(t) \/ BeginFails(t)
    BY <1>1 DEF ReadSettings, ReadSnapshots, StoreSnapshot, SnapshotLost, StoreUnanswered, BeginFails
<1>2. CASE Reset \/ \E p \in Policies : SaveSettings(p)
    BY <1>2 DEF Reset, SaveSettings
<1>3. ASSUME NEW a \in Attempts,
             \/ \E t \in Turns : \/ NoSnapshot(a, t)
                                 \/ \E ok \in BOOLEAN : FindPolicy(a, t, ok)
             \/ \E ok \in BOOLEAN : ReadEffective(a, ok)
             \/ ReadHealth(a) \/ AlreadySettled(a) \/ HealthLost(a) \/ RecordsFail(a)
      PROVE  UNCHANGED health
    BY <1>3 DEF NoSnapshot, FindPolicy, ReadEffective, ReadHealth, AlreadySettled, HealthLost, RecordsFail
<1>4. ASSUME NEW a \in Attempts, WriteHealth(a) \/ WriteUnanswered(a)
      PROVE  pc[a] = "write" /\ health = work[a].current /\ health' = Updated(a)
    BY <1>4 DEF WriteHealth, WriteUnanswered
<1>5. CASE UNCHANGED vars
    BY <1>5 DEF vars
<1> QED
    BY <1>1, <1>2, <1>3, <1>4, <1>5 DEF Next

\* The record counts each turn once: "one final persistence outcome per
\* interaction key" (continuity_health.py, line 164).
THEOREM CountedOnce == Spec => []OneOutcomePerTurn
<1>1. Init => Once(health.outcomes)
    BY DEF Init, Absent, Once
<1>2. Typed /\ Once(health.outcomes) /\ [Next]_vars => Once(health.outcomes)'
  <2> SUFFICES ASSUME Typed, Once(health.outcomes), [Next]_vars PROVE Once(health'.outcomes)
      OBVIOUS
  <2>1. CASE UNCHANGED health
      BY <2>1
  <2>2. CASE health'.outcomes = <<>>
      BY <2>2 DEF Once
  <2>3. ASSUME NEW a \in Attempts,
               pc[a] = "write" /\ health = work[a].current /\ health' = Updated(a)
        PROVE  Once(health'.outcomes)
    <3>1. health.outcomes \in Seq(Outcomes) /\ Len(health.outcomes) <= Kept
        BY DEF Typed, RecordTypes, Records
    <3> QED
        BY <2>3, <3>1, UpdatedRecord, RecordedOutcomes
  <2> QED
      BY <2>1, <2>2, <2>3, HealthSteps
<1>3. Once(health.outcomes) => OneOutcomePerTurn
    BY DEF Once, OneOutcomePerTurn
<1> QED
    BY <1>1, <1>2, <1>3, TypesHold, PTL DEF Spec

\* Between resets no outcome is lost, but for the oldest of a full record, and a
\* late failure never takes a success back (continuity_health.py, lines 171-233).
THEOREM OutcomesAlwaysStand == Spec => OutcomesStand
<1> DEFINE Stand == health'.resets = health.resets =>
               \A i \in DOMAIN health.outcomes :
                 \/ i = 1 /\ Len(health.outcomes) = Kept
                 \/ \E o \in ToSet(health'.outcomes) :
                      /\ o.turn = health.outcomes[i].turn
                      /\ health.outcomes[i].succeeded => o.succeeded
<1>1. Typed /\ OneOutcomePerTurn /\ [Next]_vars => Stand
  <2> SUFFICES ASSUME Typed, OneOutcomePerTurn, [Next]_vars, health'.resets = health.resets,
                      NEW i \in DOMAIN health.outcomes
               PROVE  \/ i = 1 /\ Len(health.outcomes) = Kept
                      \/ \E o \in ToSet(health'.outcomes) :
                           /\ o.turn = health.outcomes[i].turn
                           /\ health.outcomes[i].succeeded => o.succeeded
      OBVIOUS
  <2>1. health \in Records /\ health.outcomes \in Seq(Outcomes) /\ Len(health.outcomes) <= Kept
        /\ health.resets \in Nat
      BY BoundsAssumption DEF Typed, RecordTypes, Records
  <2>2. DOMAIN health.outcomes = 1..Len(health.outcomes)
      BY <2>1, LenProperties
  <2>3. CASE UNCHANGED health
      BY <2>3 DEF ToSet
  <2>4. ASSUME NEW a \in Attempts,
               pc[a] = "write" /\ health = work[a].current /\ health' = Updated(a)
        PROVE  \/ i = 1 /\ Len(health.outcomes) = Kept
               \/ \E o \in ToSet(health'.outcomes) :
                    /\ o.turn = health.outcomes[i].turn
                    /\ health.outcomes[i].succeeded => o.succeeded
    <3> DEFINE s == health.outcomes
               r == health'.outcomes
    <3>1. Once(s)
        BY DEF Once, OneOutcomePerTurn
    <3>2. r \in Seq(Outcomes) /\ Stands(s, r)
        BY <2>1, <2>4, <3>1, UpdatedRecord, RecordedOutcomes
    <3>3. \A j \in 1..Len(r) : r[j] \in ToSet(r)
        BY <3>2, LenProperties DEF ToSet
    <3>4. CASE i = 1 /\ Len(s) = Kept
        BY <3>4
    <3>5. CASE \E j \in 1..Len(r) : r[j].turn = s[i].turn /\ (s[i].succeeded => r[j].succeeded)
        BY <3>3, <3>5
    <3>6. i \in 1..Len(s) /\ Stands(s, r)
        BY <2>2, <3>2
    <3> HIDE DEF s, r
    <3>7. \/ i = 1 /\ Len(s) = Kept
          \/ \E j \in 1..Len(r) : r[j].turn = s[i].turn /\ (s[i].succeeded => r[j].succeeded)
        BY <3>6 DEF Stands
    <3> QED
        BY <3>4, <3>5, <3>7
  <2> QED
      BY <2>1, <2>3, <2>4, HealthSteps
<1> HIDE DEF Stand
<1>2. Typed /\ OneOutcomePerTurn /\ [Next]_vars => [Stand]_vars
    BY <1>1
<1> QED
    BY <1>2, TypesHold, CountedOnce, PTL DEF Spec, OutcomesStand, Stand

\* A turn's first outcome is withheld exactly when it failed and the circuit was
\* open in the record it was added to (continuity_health.py, lines 192-205).
THEOREM AlwaysDecidedOnTheRecord == Spec => DecidedOnTheRecord
<1> DEFINE Decided == \A o \in ToSet(health'.outcomes) : Places(health.outcomes, o.turn) = {} =>
               \E a \in Attempts :
                 /\ pc[a] = "write" /\ work[a].turn = o.turn /\ work[a].succeeded = o.succeeded
                 /\ o.allowed = (o.succeeded \/ ~Open(health.outcomes, work[a].policy))
<1>1. Typed /\ OneOutcomePerTurn /\ [Next]_vars => Decided
  <2> SUFFICES ASSUME Typed, OneOutcomePerTurn, [Next]_vars,
                      NEW o \in ToSet(health'.outcomes), Places(health.outcomes, o.turn) = {}
               PROVE  \E a \in Attempts :
                        /\ pc[a] = "write" /\ work[a].turn = o.turn
                        /\ work[a].succeeded = o.succeeded
                        /\ o.allowed = (o.succeeded \/ ~Open(health.outcomes, work[a].policy))
      OBVIOUS
  <2> DEFINE s == health.outcomes
  <2>1. s \in Seq(Outcomes) /\ Len(s) <= Kept
      BY DEF Typed, RecordTypes, Records
  <2>2. DOMAIN s = 1..Len(s)
      BY <2>1, LenProperties
  <2>3. PICK j \in DOMAIN health'.outcomes : o = health'.outcomes[j]
      BY DEF ToSet
  <2>4. \A i \in 1..Len(s) : s[i].turn # o.turn
      BY <2>2 DEF Places
  <2>5. CASE UNCHANGED health
      BY <2>2, <2>3, <2>4, <2>5
  <2>6. CASE health'.outcomes = <<>>
      BY <2>3, <2>6
  <2>7. ASSUME NEW a \in Attempts,
               pc[a] = "write" /\ health = work[a].current /\ health' = Updated(a)
        PROVE  /\ work[a].turn = o.turn /\ work[a].succeeded = o.succeeded
               /\ o.allowed = (o.succeeded \/ ~Open(s, work[a].policy))
    <3>1. Once(s)
        BY DEF Once, OneOutcomePerTurn
    <3> DEFINE r == health'.outcomes
               f == Fresh(s, work[a].turn, work[a].succeeded, work[a].policy)
    <3>2. r = Recorded(s, work[a].turn, work[a].succeeded, work[a].policy)
          /\ work[a].turn \in Turns /\ work[a].succeeded \in BOOLEAN
        BY <2>7, UpdatedRecord
    <3>3. r \in Seq(Outcomes) /\ Adds(s, r, f)
        BY <2>1, <3>1, <3>2, RecordedOutcomes
    <3>4. j \in 1..Len(r)
        BY <2>3, <3>3, LenProperties
    <3>5. o = f
        BY <2>3, <2>4, <3>3, <3>4 DEF Adds
    <3>6. /\ f.turn = work[a].turn /\ f.succeeded = work[a].succeeded
          /\ f.allowed = (work[a].succeeded \/ ~Open(s, work[a].policy))
        BY DEF f, Fresh
    <3> QED
        BY <3>5, <3>6
  <2> QED
      BY <2>5, <2>6, <2>7, HealthSteps
<1> HIDE DEF Decided
<1>2. Typed /\ OneOutcomePerTurn /\ [Next]_vars => [Decided]_vars
    BY <1>1
<1> QED
    BY <1>2, TypesHold, CountedOnce, PTL DEF Spec, DecidedOnTheRecord, Decided

\* What a record says of a turn, as far as the newest w outcomes show it.
Tells(s, t, w) == \A i \in Places(s, t) : Len(s) - i < w => s[i].allowed

LEMMA WindowPlaces ==
    ASSUME NEW l \in Nat, NEW w \in Nat, NEW d \in Nat, d = IF l > w THEN l - w ELSE 0
    PROVE  /\ \A i \in 1..l : l - i < w => i - d \in 1..(l - d) /\ (i - d) + d = i
           /\ \A j \in 1..(l - d) : j + d \in 1..l /\ l - (j + d) < w
    OBVIOUS

\* The window of a policy shows the newest outcomes, as many as it is long.
LEMMA WindowTells ==
    ASSUME NEW s \in Seq(Outcomes), NEW t, NEW p \in Policies
    PROVE  Presented(s, t, p) = Tells(s, t, p.window)
<1>1. PICK w \in Nat : w = p.window
    BY PolicyAssumption, BoundsAssumption
<1>2. PICK n \in Seq(Outcomes), d \in Nat :
          /\ n = Window(s, p) /\ d = Dropped(s, w)
          /\ Len(n) = Len(s) - d /\ \A i \in 1..Len(n) : n[i] = s[i + d]
    BY <1>1, NewestElements DEF Window
<1>3. /\ Len(s) \in Nat /\ Len(n) \in Nat
      /\ DOMAIN s = 1..Len(s) /\ DOMAIN n = 1..Len(n)
    BY LenProperties
<1>4. d = IF Len(s) > w THEN Len(s) - w ELSE 0
    BY <1>2 DEF Dropped
<1>5. Len(n) = Len(s) - d
    BY <1>2
<1>6. /\ \A i \in 1..Len(s) : Len(s) - i < w => i - d \in 1..Len(n) /\ (i - d) + d = i
      /\ \A j \in 1..Len(n) : j + d \in 1..Len(s) /\ Len(s) - (j + d) < w
  <2>1. PICK l \in Nat : l = Len(s)
      BY <1>3
  <2>2. /\ \A i \in 1..l : l - i < w => i - d \in 1..(l - d) /\ (i - d) + d = i
        /\ \A j \in 1..(l - d) : j + d \in 1..l /\ l - (j + d) < w
    <3>1. d = IF l > w THEN l - w ELSE 0
        BY <1>4, <2>1
    <3> QED
        BY <3>1, WindowPlaces
  <2> QED
      BY <1>5, <2>1, <2>2
<1>7. ASSUME Presented(s, t, p), NEW i \in Places(s, t), Len(s) - i < w PROVE s[i].allowed
  <2>1. i \in 1..Len(s) /\ s[i].turn = t
      BY <1>3, <1>7 DEF Places
  <2>2. i - d \in 1..Len(n) /\ n[i - d] = s[i]
    <3>1. i - d \in 1..Len(n) /\ (i - d) + d = i
        BY <1>7, <1>6, <2>1
    <3> QED
        BY <1>2, <3>1
  <2>3. i - d \in Places(n, t)
      BY <1>3, <2>1, <2>2 DEF Places
  <2> QED
      BY <1>2, <1>7, <2>2, <2>3 DEF Presented
<1>8. ASSUME Tells(s, t, w), NEW j \in Places(n, t) PROVE n[j].allowed
  <2>1. j \in 1..Len(n) /\ n[j].turn = t
      BY <1>3 DEF Places
  <2>2. j + d \in 1..Len(s) /\ n[j] = s[j + d] /\ Len(s) - (j + d) < w
    <3>1. j + d \in 1..Len(s) /\ Len(s) - (j + d) < w
        BY <1>6, <2>1
    <3> QED
        BY <1>2, <2>1, <3>1
  <2>3. j + d \in Places(s, t)
      BY <1>3, <2>1, <2>2 DEF Places
  <2> QED
      BY <1>8, <2>2, <2>3 DEF Tells
<1> QED
    BY <1>1, <1>2, <1>7, <1>8 DEF Presented, Tells

\* What an attempt is told agrees with what the record says of its turn when it
\* is told, until as many outcomes as its policy's window shows have joined the
\* record after it, for any policies, windows and limits of the record
\* (presentation, continuity_health.py, lines 66-72 and 101-122).
THEOREM AnswersAlwaysFollowRecord == Spec => AnswersFollowRecord
<1> DEFINE Follow == \A a \in Attempts :
                answer'[a].given /\ ~answer[a].given /\ answer'[a].available =>
                  answer'[a].presented = Tells(health'.outcomes, work[a].turn, work[a].policy.window)
<1>1. Typed /\ [Next]_vars => Follow
  <2> SUFFICES ASSUME Typed, [Next]_vars, NEW a \in Attempts,
                      answer'[a].given, ~answer[a].given, answer'[a].available
               PROVE  answer'[a].presented
                        = Tells(health'.outcomes, work[a].turn, work[a].policy.window)
      OBVIOUS
  <2>1. answer \in [Attempts -> Answers] /\ answer[a] \in Answers
      BY DEF Typed, CompletionTypes
  <2>2. ASSUME NEW s \in Seq(Outcomes), Len(s) <= Kept, pc[a] \in UnderWay, Decide(a, s)
        PROVE  answer'[a].presented = Tells(s, work[a].turn, work[a].policy.window)
    <3>1. work[a].policy \in Policies
        BY DEF Typed, CompletionTypes, Works
    <3>2. answer'[a].presented = Presented(s, work[a].turn, work[a].policy)
        BY <2>1, <2>2 DEF Decide, Return
    <3> QED
        BY <2>2, <3>1, <3>2, WindowTells
  <2>3. \/ \E b \in Attempts : AlreadySettled(b) \/ WriteHealth(b)
        \/ \E b \in Attempts : Unavailable(b)
        \/ UNCHANGED answer
    <3> USE DEF completions
    <3>1. CASE \E t \in Turns :
                 \/ ReadSettings(t) \/ ReadSnapshots(t) \/ StoreSnapshot(t) \/ SnapshotLost(t)
                 \/ StoreUnanswered(t) \/ BeginFails(t)
        BY <3>1 DEF ReadSettings, ReadSnapshots, StoreSnapshot, SnapshotLost, StoreUnanswered, BeginFails
    <3>2. CASE Reset \/ \E p \in Policies : SaveSettings(p)
        BY <3>2 DEF Reset, SaveSettings
    <3>3. ASSUME NEW b \in Attempts,
                 \/ \E t \in Turns : \/ NoSnapshot(b, t)
                                     \/ \E ok \in BOOLEAN : FindPolicy(b, t, ok)
                 \/ \E ok \in BOOLEAN : ReadEffective(b, ok)
                 \/ ReadHealth(b) \/ HealthLost(b) \/ RecordsFail(b) \/ WriteUnanswered(b)
          PROVE  UNCHANGED answer \/ Unavailable(b)
        BY <3>3 DEF NoSnapshot, FindPolicy, ReadEffective, ReadHealth, HealthLost, RecordsFail,
                    WriteUnanswered, TryAgain
    <3>4. CASE UNCHANGED vars
        BY <3>4 DEF vars
    <3> QED
        BY <3>1, <3>2, <3>3, <3>4 DEF Next
  <2>4. ASSUME NEW b \in Attempts, NEW p, NEW v, Return(b, p, v) PROVE b = a
      BY <2>1, <2>4 DEF Return
  <2>5. ~UNCHANGED answer
      OBVIOUS
  <2>6. ASSUME NEW b \in Attempts, Unavailable(b) PROVE FALSE
    <3>1. b = a
        BY <2>4, <2>6 DEF Unavailable
    <3>2. answer'[a] = [given |-> TRUE, presented |-> TRUE, available |-> FALSE]
        BY <2>1, <2>6, <3>1 DEF Unavailable, Return
    <3> QED
        BY <3>2
  <2>7. ASSUME NEW b \in Attempts, AlreadySettled(b)
        PROVE  answer'[a].presented = Tells(health'.outcomes, work[a].turn, work[a].policy.window)
    <3>1. b = a
        BY <2>4, <2>7 DEF AlreadySettled, Decide
    <3>2. health.outcomes \in Seq(Outcomes) /\ Len(health.outcomes) <= Kept /\ health' = health
        BY <2>7 DEF Typed, RecordTypes, Records, AlreadySettled, records
    <3>3. Decide(a, health.outcomes) /\ pc[a] \in UnderWay
        BY <2>7, <3>1 DEF AlreadySettled, UnderWay
    <3> QED
        BY <2>2, <3>2, <3>3
  <2>8. ASSUME NEW b \in Attempts, WriteHealth(b)
        PROVE  answer'[a].presented = Tells(health'.outcomes, work[a].turn, work[a].policy.window)
    <3>1. b = a
        BY <2>4, <2>8 DEF WriteHealth, Decide
    <3>2. /\ health'.outcomes \in Seq(Outcomes) /\ Len(health'.outcomes) <= Kept
          /\ Decide(a, health'.outcomes) /\ pc[a] \in UnderWay
        BY <2>8, <3>1, UpdatedRecord DEF WriteHealth, Records, UnderWay
    <3> QED
        BY <2>2, <3>2
  <2> QED
      BY <2>3, <2>5, <2>6, <2>7, <2>8
<1> HIDE DEF Follow
<1>2. Typed /\ [Next]_vars => [Follow]_vars
    BY <1>1
<1> QED
    BY <1>2, TypesHold, PTL DEF Spec, AnswersFollowRecord, Follow, Tells

-----------------------------------------------------------------------------
(* The record of captured settings: it mirrors the newest of the turns, in   *)
(* the order in which their settings were captured.                          *)

Distinct(b) == \A i, j \in 1..Len(b) : b[i] = b[j] => i = j

Mirrors(s, b) ==
    /\ Len(s) = Len(b) - Dropped(b, SnapshotLimit)
    /\ \A i \in 1..Len(s) : s[i] = Captured(b[i + Dropped(b, SnapshotLimit)])

\* The turn is among the newest.
ShownIn(b, t) == \E i \in 1..Len(b) : i > Len(b) - SnapshotLimit /\ b[i] = t

\* The turns in order, after t has captured its settings.
MovedLast(b, t) == Append(DropAt(b, { i \in DOMAIN b : b[i] = t }), t)

LEMMA NotYetBegun ==
    ASSUME NEW b \in Seq(Turns), NEW t \in Turns, \A i \in 1..Len(b) : b[i] # t
    PROVE  /\ MovedLast(b, t) \in Seq(Turns) /\ Len(MovedLast(b, t)) = Len(b) + 1
           /\ MovedLast(b, t)[Len(b) + 1] = t
           /\ \A i \in 1..Len(b) : MovedLast(b, t)[i] = b[i]
<1>1. { i \in DOMAIN b : b[i] = t } = {}
    BY LenProperties
<1>2. MovedLast(b, t) = Append(b, t)
    BY <1>1 DEF MovedLast, DropAt
<1> QED
    BY <1>2, AppendProperties

LEMMA BegunBefore ==
    ASSUME NEW b \in Seq(Turns), Distinct(b), NEW t \in Turns, NEW p \in 1..Len(b), b[p] = t
    PROVE  /\ MovedLast(b, t) \in Seq(Turns) /\ Len(MovedLast(b, t)) = Len(b)
           /\ MovedLast(b, t)[Len(b)] = t
           /\ \A i \in 1..(Len(b) - 1) : MovedLast(b, t)[i] = IF i < p THEN b[i] ELSE b[i + 1]
<1> DEFINE o == RemoveAt(b, p)
<1>1. DOMAIN b = 1..Len(b)
    BY LenProperties
<1>2. { i \in DOMAIN b : b[i] = t } = {p}
    BY <1>1 DEF Distinct
<1>3. MovedLast(b, t) = Append(o, t)
    BY <1>2 DEF MovedLast, DropAt
<1>4. /\ o \in Seq(Turns) /\ Len(o) = Len(b) - 1
      /\ \A i \in 1..(Len(b) - 1) : o[i] = IF i < p THEN b[i] ELSE b[i + 1]
    BY RemoveAtElements
<1>5. Len(b) \in Nat
    BY LenProperties
<1> HIDE DEF o
<1>6. /\ Append(o, t) \in Seq(Turns) /\ Len(Append(o, t)) = Len(o) + 1
      /\ Append(o, t)[Len(o) + 1] = t
      /\ \A i \in 1..Len(o) : Append(o, t)[i] = o[i]
    BY <1>4, AppendProperties
<1>7. Len(o) + 1 = Len(b)
    BY <1>4, <1>5
<1> QED
    BY <1>3, <1>4, <1>6, <1>7

\* No turn is twice among those begun, and only the one that captures its
\* settings joins the newest.
LEMMA MovedLastOrder ==
    ASSUME NEW b \in Seq(Turns), Distinct(b), NEW t \in Turns
    PROVE  /\ MovedLast(b, t) \in Seq(Turns)
           /\ Distinct(MovedLast(b, t))
           /\ \A i \in 1..Len(MovedLast(b, t)) :
                MovedLast(b, t)[i] = t \/ \E j \in 1..Len(b) : MovedLast(b, t)[i] = b[j]
           /\ \A x : ShownIn(MovedLast(b, t), x) => x = t \/ ShownIn(b, x)
<1> DEFINE m == MovedLast(b, t)
<1>0. Len(b) \in Nat
    BY LenProperties
<1>1. CASE \A i \in 1..Len(b) : b[i] # t
  <2>1. /\ m \in Seq(Turns) /\ Len(m) = Len(b) + 1 /\ m[Len(b) + 1] = t
        /\ \A i \in 1..Len(b) : m[i] = b[i]
      BY <1>1, NotYetBegun
  <2> HIDE DEF m
  <2>2. \A i \in 1..Len(m) : i = Len(m) \/ i \in 1..Len(b)
      BY <1>0, <2>1
  <2>3. Distinct(m)
      BY <1>0, <1>1, <2>1, <2>2 DEF Distinct
  <2>4. \A i \in 1..Len(m) : m[i] = t \/ \E j \in 1..Len(b) : m[i] = b[j]
      BY <2>1, <2>2
  <2>5. ASSUME NEW x, ShownIn(m, x), x # t PROVE ShownIn(b, x)
    <3>1. PICK i \in 1..Len(m) : i > Len(m) - SnapshotLimit /\ m[i] = x
        BY <2>5 DEF ShownIn
    <3>2. i \in 1..Len(b) /\ b[i] = x
        BY <2>1, <2>2, <2>5, <3>1
    <3>3. i > Len(b) - SnapshotLimit
        BY <1>0, <2>1, <3>1, BoundsAssumption
    <3> QED
        BY <3>2, <3>3 DEF ShownIn
  <2> QED
      BY <2>1, <2>3, <2>4, <2>5 DEF m
<1>2. ASSUME NEW p \in 1..Len(b), b[p] = t
      PROVE  /\ m \in Seq(Turns) /\ Distinct(m)
             /\ \A i \in 1..Len(m) : m[i] = t \/ \E j \in 1..Len(b) : m[i] = b[j]
             /\ \A x : ShownIn(m, x) => x = t \/ ShownIn(b, x)
  <2>1. /\ m \in Seq(Turns) /\ Len(m) = Len(b) /\ m[Len(b)] = t
        /\ \A i \in 1..(Len(b) - 1) : m[i] = IF i < p THEN b[i] ELSE b[i + 1]
      BY <1>2, BegunBefore
  <2> HIDE DEF m
  <2> DEFINE from(i) == IF i < p THEN i ELSE i + 1
  <2>2. \A i \in 1..Len(m) : \/ i = Len(b)
                             \/ /\ i \in 1..(Len(b) - 1) /\ from(i) \in 1..Len(b)
                                /\ from(i) >= i /\ from(i) # p
      BY <1>0, <2>1
  <2>3. \A i \in 1..(Len(b) - 1) : m[i] = b[from(i)]
      BY <2>1
  <2>4. \A i, j \in 1..(Len(b) - 1) : from(i) = from(j) => i = j
      BY <1>0
  <2> HIDE DEF from
  <2>5. \A i \in 1..Len(m) : i # Len(b) => m[i] # t
      BY <1>2, <2>2, <2>3 DEF Distinct
  <2>6. Distinct(m)
    <3> SUFFICES ASSUME NEW i \in 1..Len(m), NEW j \in 1..Len(m), m[i] = m[j]
                 PROVE  i = j
        BY DEF Distinct
    <3>1. CASE i = Len(b) \/ j = Len(b)
        BY <2>1, <2>5, <3>1
    <3>2. CASE i # Len(b) /\ j # Len(b)
      <4>1. from(i) = from(j)
          BY <2>2, <2>3, <3>2 DEF Distinct
      <4> QED
          BY <2>2, <2>4, <3>2, <4>1
    <3> QED
        BY <3>1, <3>2
  <2>7. \A i \in 1..Len(m) : m[i] = t \/ \E j \in 1..Len(b) : m[i] = b[j]
      BY <2>1, <2>2, <2>3
  <2>8. ASSUME NEW x, ShownIn(m, x), x # t PROVE ShownIn(b, x)
    <3>1. PICK i \in 1..Len(m) : i > Len(m) - SnapshotLimit /\ m[i] = x
        BY <2>8 DEF ShownIn
    <3>2. from(i) \in 1..Len(b) /\ b[from(i)] = x /\ from(i) >= i
        BY <2>1, <2>2, <2>3, <2>8, <3>1
    <3>3. from(i) > Len(b) - SnapshotLimit
        BY <1>0, <2>1, <3>1, <3>2, BoundsAssumption
    <3> QED
        BY <3>2, <3>3 DEF ShownIn
  <2> QED
      BY <2>1, <2>6, <2>7, <2>8
<1> QED
    BY <1>1, <1>2

\* The record after t has stored its settings, when nobody replaced it since t
\* read it, mirrors the newest of the turns again.
LEMMA StoreMirrors ==
    ASSUME NEW b \in Seq(Turns), Distinct(b), NEW s \in Seq(Captures), Mirrors(s, b),
           NEW t \in Turns, Captured(t) \in Captures
    PROVE  Mirrors(WithCapture(s, t), MovedLast(b, t))
<1> DEFINE m == MovedLast(b, t)
           d == Dropped(b, SnapshotLimit)
           old == DropAt(s, Places(s, t))
           c == Append(old, Captured(t))
           e == Dropped(c, SnapshotLimit)
           r == WithCapture(s, t)
<1>1. Len(b) \in Nat /\ Len(s) \in Nat /\ SnapshotLimit \in Nat \ {0}
    BY LenProperties, BoundsAssumption
<1>2. d \in Nat /\ d <= Len(b) /\ (d > 0 => d = Len(b) - SnapshotLimit)
      /\ Len(b) - d <= SnapshotLimit
    BY <1>1 DEF Dropped
<1>3. DOMAIN s = 1..Len(s)
    BY LenProperties
<1>4. Len(s) = Len(b) - d /\ \A i \in 1..Len(s) : s[i] = Captured(b[i + d])
    BY DEF Mirrors
<1>5. \A i \in 1..Len(s) : s[i].turn = b[i + d]
    BY <1>4 DEF Captured
<1>6. r = Newest(c, SnapshotLimit)
    BY DEF WithCapture
<1>7. ASSUME old \in Seq(Captures)
      PROVE  /\ c \in Seq(Captures) /\ Len(c) = Len(old) + 1
             /\ c[Len(old) + 1] = Captured(t)
             /\ \A i \in 1..Len(old) : c[i] = old[i]
             /\ e \in Nat
             /\ Len(r) = Len(c) - e
             /\ \A i \in 1..Len(r) : r[i] = c[i + e]
  <2>1. /\ c \in Seq(Captures) /\ Len(c) = Len(old) + 1
        /\ c[Len(old) + 1] = Captured(t)
        /\ \A i \in 1..Len(old) : c[i] = old[i]
      BY <1>7, AppendProperties
  <2> HIDE DEF c
  <2>2. /\ e \in Nat /\ Len(Newest(c, SnapshotLimit)) = Len(c) - e
        /\ \A i \in 1..Len(Newest(c, SnapshotLimit)) : Newest(c, SnapshotLimit)[i] = c[i + e]
      BY <1>1, <2>1, NewestElements
  <2> QED
      BY <1>6, <2>1, <2>2
<1> HIDE DEF d, r
<1>8. CASE \A i \in 1..Len(b) : b[i] # t
  <2>1. Places(s, t) = {}
      BY <1>1, <1>2, <1>3, <1>4, <1>5, <1>8 DEF Places
  <2>2. old = s
      BY <2>1 DEF DropAt
  <2> HIDE DEF old
  <2>3. /\ Len(c) = Len(s) + 1 /\ c[Len(s) + 1] = Captured(t)
        /\ \A i \in 1..Len(s) : c[i] = s[i]
        /\ e \in Nat /\ Len(r) = Len(c) - e
        /\ \A i \in 1..Len(r) : r[i] = c[i + e]
      BY <1>7, <2>2
  <2> HIDE DEF c
  <2>4. /\ Len(m) = Len(b) + 1 /\ m[Len(b) + 1] = t
        /\ \A i \in 1..Len(b) : m[i] = b[i]
      BY <1>8, NotYetBegun
  <2> HIDE DEF m
  <2>5. Dropped(m, SnapshotLimit) = d + e
      BY <1>1, <2>3, <2>4, <1>4 DEF d, Dropped
  <2> HIDE DEF e
  <2>6. ASSUME NEW i \in 1..Len(r) PROVE r[i] = Captured(m[i + (d + e)])
    <3>1. r[i] = c[i + e]
        BY <2>3
    <3>2. CASE i + e = Len(s) + 1
      <4>1. i + (d + e) = Len(b) + 1
          BY <1>1, <1>2, <1>4, <2>3, <3>2
      <4> QED
          BY <2>3, <2>4, <3>1, <3>2, <4>1
    <3>3. CASE i + e # Len(s) + 1
      <4>1. i + e \in 1..Len(s) /\ i + (d + e) \in 1..Len(b) /\ (i + e) + d = i + (d + e)
          BY <1>1, <1>2, <1>4, <2>3, <3>3
      <4>2. s[i + e] = Captured(b[i + (d + e)])
          BY <1>4, <4>1
      <4> QED
          BY <2>3, <2>4, <3>1, <4>1, <4>2
    <3> QED
        BY <3>2, <3>3
  <2>7. Len(r) = Len(m) - (d + e)
      BY <1>1, <1>2, <1>4, <2>3, <2>4
  <2> QED
      BY <2>5, <2>6, <2>7 DEF Mirrors, m, r
<1>9. ASSUME NEW p \in 1..Len(b), b[p] = t, p <= d
      PROVE  Mirrors(r, m)
  <2>1. Places(s, t) = {}
    <3> SUFFICES ASSUME NEW i \in 1..Len(s) PROVE s[i].turn # t
        BY <1>3 DEF Places
    <3>1. i + d \in 1..Len(b) /\ i + d # p
        BY <1>1, <1>2, <1>4, <1>9
    <3> QED
        BY <1>5, <1>9, <3>1 DEF Distinct
  <2>2. old = s
      BY <2>1 DEF DropAt
  <2> HIDE DEF old
  <2>3. /\ Len(c) = Len(s) + 1 /\ c[Len(s) + 1] = Captured(t)
        /\ \A i \in 1..Len(s) : c[i] = s[i]
        /\ e \in Nat /\ Len(r) = Len(c) - e
        /\ \A i \in 1..Len(r) : r[i] = c[i + e]
      BY <1>7, <2>2
  <2> HIDE DEF c
  <2>4. /\ Len(m) = Len(b) /\ m[Len(b)] = t
        /\ \A i \in 1..(Len(b) - 1) : m[i] = IF i < p THEN b[i] ELSE b[i + 1]
      BY <1>9, BegunBefore
  <2> HIDE DEF m
  <2>5. d = Len(b) - SnapshotLimit /\ d > 0
      BY <1>1, <1>2, <1>9
  <2>6. Dropped(m, SnapshotLimit) = d
      BY <1>1, <2>4, <2>5 DEF Dropped
  <2>7. e = 1
      BY <1>1, <1>4, <2>3, <2>5 DEF Dropped
  <2> HIDE DEF e
  <2>8. ASSUME NEW i \in 1..Len(r) PROVE r[i] = Captured(m[i + d])
    <3>1. r[i] = c[i + 1]
        BY <2>3, <2>7
    <3>2. CASE i = Len(s)
      <4>1. i + d = Len(b)
          BY <1>1, <1>2, <1>4, <3>2
      <4> QED
          BY <2>3, <2>4, <3>1, <3>2, <4>1
    <3>3. CASE i # Len(s)
      <4>1. /\ i + 1 \in 1..Len(s) /\ i + d \in 1..(Len(b) - 1) /\ ~(i + d < p)
            /\ (i + 1) + d = (i + d) + 1
        <5>1. i \in 1..Len(s)
            BY <1>1, <2>3, <2>7
        <5>2. i + 1 \in 1..Len(s)
            BY <1>1, <3>3, <5>1
        <5>3. i + d \in 1..(Len(b) - 1)
            BY <1>1, <1>2, <1>4, <5>1, <5>2
        <5>4. ~(i + d < p) /\ (i + 1) + d = (i + d) + 1
            BY <1>2, <1>9, <5>1
        <5> QED
            BY <5>2, <5>3, <5>4
      <4>2. s[i + 1] = Captured(b[(i + d) + 1])
          BY <1>4, <4>1
      <4>3. m[i + d] = b[(i + d) + 1]
          BY <2>4, <4>1
      <4> QED
          BY <2>3, <3>1, <4>1, <4>2, <4>3
    <3> QED
        BY <3>2, <3>3
  <2>9. Len(r) = Len(m) - d
      BY <1>1, <1>2, <1>4, <2>3, <2>4, <2>7
  <2> QED
      BY <2>6, <2>8, <2>9 DEF Mirrors
<1>10. ASSUME NEW p \in 1..Len(b), b[p] = t, p > d
       PROVE  Mirrors(r, m)
  <2> DEFINE q == p - d
  <2>1. q \in 1..Len(s) /\ q + d = p
      BY <1>1, <1>2, <1>4, <1>10
  <2>2. Places(s, t) = {q}
    <3>1. s[q].turn = t
        BY <1>5, <1>10, <2>1
    <3>2. ASSUME NEW i \in 1..Len(s), s[i].turn = t PROVE i = q
      <4>1. i + d \in 1..Len(b) /\ b[i + d] = b[p]
          BY <1>1, <1>2, <1>4, <1>5, <1>10, <3>2
      <4>2. i + d = p
          BY <4>1, <1>10 DEF Distinct
      <4> QED
          BY <1>2, <2>1, <4>2
    <3> QED
        BY <1>3, <2>1, <3>1, <3>2 DEF Places
  <2>3. old = RemoveAt(s, q)
      BY <2>2 DEF DropAt
  <2> HIDE DEF q, old
  <2>4. /\ old \in Seq(Captures) /\ Len(old) = Len(s) - 1
        /\ \A i \in 1..(Len(s) - 1) : old[i] = IF i < q THEN s[i] ELSE s[i + 1]
      BY <2>1, <2>3, RemoveAtElements
  <2>5. /\ Len(c) = Len(s) /\ c[Len(s)] = Captured(t)
        /\ \A i \in 1..(Len(s) - 1) : c[i] = IF i < q THEN s[i] ELSE s[i + 1]
        /\ e \in Nat /\ Len(r) = Len(c) - e
        /\ \A i \in 1..Len(r) : r[i] = c[i + e]
    <3>1. Len(old) + 1 = Len(s)
        BY <1>1, <2>4
    <3> QED
        BY <1>7, <2>4, <3>1
  <2> HIDE DEF c
  <2>6. e = 0
      BY <1>1, <1>2, <1>4, <2>5 DEF Dropped
  <2> HIDE DEF e
  <2>7. /\ Len(m) = Len(b) /\ m[Len(b)] = t
        /\ \A i \in 1..(Len(b) - 1) : m[i] = IF i < p THEN b[i] ELSE b[i + 1]
      BY <1>10, BegunBefore
  <2> HIDE DEF m
  <2>8. Dropped(m, SnapshotLimit) = d
      BY <2>7 DEF d, Dropped
  <2>9. ASSUME NEW i \in 1..Len(r) PROVE r[i] = Captured(m[i + d])
    <3>1. r[i] = c[i] /\ i \in 1..Len(s)
        BY <1>1, <2>5, <2>6
    <3>2. CASE i = Len(s)
      <4>1. i + d = Len(b)
          BY <1>1, <1>2, <1>4, <3>2
      <4> QED
          BY <2>5, <2>7, <3>1, <3>2, <4>1
    <3>3. CASE i # Len(s)
      <4>1. i \in 1..(Len(s) - 1) /\ i + d \in 1..(Len(b) - 1)
          BY <1>1, <1>2, <1>4, <3>1, <3>3
      <4>2. CASE i < q
        <5>1. i + d < p
            BY <1>2, <2>1, <4>1, <4>2
        <5>2. c[i] = s[i] /\ m[i + d] = b[i + d]
            BY <2>5, <2>7, <4>1, <4>2, <5>1
        <5> QED
            BY <1>4, <3>1, <5>2
      <4>3. CASE ~(i < q)
        <5>1. ~(i + d < p) /\ i + 1 \in 1..Len(s) /\ (i + 1) + d = (i + d) + 1
            BY <1>1, <1>2, <2>1, <4>1, <4>3
        <5>2. c[i] = s[i + 1] /\ m[i + d] = b[(i + d) + 1]
            BY <2>5, <2>7, <4>1, <4>3, <5>1
        <5>3. s[i + 1] = Captured(b[(i + 1) + d])
            BY <1>4, <5>1
        <5> QED
            BY <3>1, <5>1, <5>2, <5>3
      <4> QED
          BY <4>2, <4>3
    <3> QED
        BY <3>2, <3>3
  <2>10. Len(r) = Len(m) - d
      BY <1>1, <1>2, <1>4, <2>5, <2>6, <2>7
  <2> QED
      BY <2>8, <2>9, <2>10 DEF Mirrors
<1>11. ASSUME NEW p \in 1..Len(b) PROVE p <= d \/ p > d
    BY <1>2
<1> QED
    BY <1>8, <1>9, <1>10, <1>11 DEF m, r

\* A turn is captured once, after its begin has started; a host that completes
\* its turn without having begun it never starts.
Capturing ==
    /\ Distinct(begun)
    /\ \A i \in 1..Len(begun) : phase[begun[i]] # "idle"
    /\ \A t \in SelfKeyed : phase[t] = "idle"
    /\ Mirrors(snapshots, begun)

\* An attempt that is under way found its turn begun.  It looks for the settings
\* of the moment only when the turn is no longer among the newest, where it never
\* comes back, and otherwise has the policy that the turn captured.
KeepsPolicy(a, t) ==
    /\ t \in SelfKeyed \/ phase[t] = "begun"
    /\ pc[a] = "effective" /\ t \notin BodyTurns => ~ShownIn(begun, t)
    /\ pc[a] \in {"read", "write"} /\ t \notin BodyTurns /\ ShownIn(begun, t) =>
          work[a].policy = bound[t].policy

PoliciesKept == \A a \in Attempts : pc[a] \in UnderWay => KeepsPolicy(a, work[a].turn)

LEMMA InitiallyCapturing == Init => Capturing /\ PoliciesKept
<1> SUFFICES ASSUME Init PROVE Capturing /\ PoliciesKept
    OBVIOUS
<1>1. Len(begun) = 0 /\ Len(snapshots) = 0
    BY EmptySeq DEF Init
<1>2. Dropped(begun, SnapshotLimit) = 0
    BY <1>1, BoundsAssumption DEF Dropped
<1>3. Mirrors(snapshots, begun)
    BY <1>1, <1>2 DEF Mirrors
<1>4. Distinct(begun) /\ \A i \in 1..Len(begun) : phase[begun[i]] # "idle"
    BY <1>1 DEF Distinct
<1>5. \A t \in SelfKeyed : phase[t] = "idle"
    BY KeysAssumption DEF Init
<1>6. \A a \in Attempts : pc[a] \notin UnderWay
    BY DEF Init, UnderWay
<1> QED
    BY <1>3, <1>4, <1>5, <1>6 DEF Capturing, PoliciesKept

\* A step of one turn's begin, which may capture its settings.
LEMMA TurnKeeps ==
    ASSUME Typed, Capturing, PoliciesKept, NEW t \in Turns, NEW x, x # "idle",
           phase[t] # "begun", t \notin SelfKeyed,
           phase' = [phase EXCEPT ![t] = x],
           \A u \in Turns : u # t => bound'[u] = bound[u],
           \/ /\ UNCHANGED <<snapshots, begun>>
              /\ phase[t] = "idle" \/ bound'[t] = bound[t]
           \/ /\ snapshots' = WithCapture(snapshots, t) /\ begun' = MovedLast(begun, t)
              /\ UNCHANGED bound,
           UNCHANGED completions
    PROVE  Capturing' /\ PoliciesKept'
<1>1. /\ begun \in Seq(Turns) /\ snapshots \in Seq(Captures) /\ bound[t] \in Settings
      /\ \A u \in Turns : phase'[u] = IF u = t THEN x ELSE phase[u]
    BY DEF Typed, RecordTypes, BeginTypes
<1>2. Len(begun) \in Nat /\ \A i \in 1..Len(begun) : begun[i] \in Turns
    BY <1>1, LenProperties, ElementOfSeq
<1>3. \A u \in SelfKeyed : phase'[u] = "idle"
    BY <1>1, KeysAssumption DEF Capturing
<1>4. CASE UNCHANGED <<snapshots, begun>> /\ (phase[t] = "idle" \/ bound'[t] = bound[t])
  <2>1. \A i \in 1..Len(begun) : bound'[begun[i]] = bound[begun[i]]
      BY <1>2, <1>4 DEF Capturing
  <2>2. Dropped(begun, SnapshotLimit) \in Nat
      BY <1>2, BoundsAssumption DEF Dropped
  <2>3. ASSUME NEW i \in 1..Len(snapshots)
        PROVE  snapshots[i] = [turn |-> begun[i + Dropped(begun, SnapshotLimit)],
                               settings |-> bound'[begun[i + Dropped(begun, SnapshotLimit)]]]
    <3>1. i + Dropped(begun, SnapshotLimit) \in 1..Len(begun)
        BY <1>2, <2>2 DEF Capturing, Mirrors
    <3> QED
        BY <2>1, <3>1 DEF Capturing, Mirrors, Captured
  <2>4. Mirrors(snapshots, begun)'
      BY <1>4, <2>3 DEF Capturing, Mirrors, Captured, Dropped
  <2>5. Distinct(begun)' /\ \A i \in 1..Len(begun') : phase'[begun'[i]] # "idle"
      BY <1>1, <1>2, <1>4 DEF Capturing
  <2>6. Capturing'
      BY <1>3, <2>4, <2>5 DEF Capturing
  <2>7. PoliciesKept'
    <3> SUFFICES ASSUME NEW a \in Attempts, pc[a] \in UnderWay
                 PROVE  KeepsPolicy(a, work[a].turn)'
        BY DEF PoliciesKept, completions
    <3>1. work[a].turn \in Turns /\ KeepsPolicy(a, work[a].turn)
        BY DEF Typed, CompletionTypes, PoliciesKept
    <3>2. work[a].turn # t
        BY <3>1 DEF KeepsPolicy
    <3> QED
        BY <1>1, <1>4, <3>1, <3>2 DEF KeepsPolicy, ShownIn, completions
  <2> QED
      BY <2>6, <2>7
<1>5. CASE /\ snapshots' = WithCapture(snapshots, t) /\ begun' = MovedLast(begun, t)
           /\ UNCHANGED bound
  <2>1. Captured(t) \in Captures
      BY <1>1 DEF Captured, Captures
  <2>2. Mirrors(snapshots', begun')
      BY <1>1, <1>5, <2>1, StoreMirrors DEF Capturing
  <2>3. Mirrors(snapshots, begun)'
      BY <1>5, <2>2 DEF Mirrors, Captured, Dropped
  <2>4. /\ Distinct(begun')
        /\ \A i \in 1..Len(begun') : begun'[i] = t \/ \E j \in 1..Len(begun) : begun'[i] = begun[j]
        /\ \A u : ShownIn(begun', u) => u = t \/ ShownIn(begun, u)
      BY <1>1, <1>5, MovedLastOrder DEF Capturing
  <2>5. Distinct(begun)' /\ \A i \in 1..Len(begun') : phase'[begun'[i]] # "idle"
      BY <1>1, <1>2, <2>4 DEF Capturing, Distinct
  <2>6. Capturing'
      BY <1>3, <2>3, <2>5 DEF Capturing
  <2>7. PoliciesKept'
    <3> SUFFICES ASSUME NEW a \in Attempts, pc[a] \in UnderWay
                 PROVE  KeepsPolicy(a, work[a].turn)'
        BY DEF PoliciesKept, completions
    <3>1. work[a].turn \in Turns /\ KeepsPolicy(a, work[a].turn)
        BY DEF Typed, CompletionTypes, PoliciesKept
    <3>2. work[a].turn # t
        BY <3>1 DEF KeepsPolicy
    <3>3. ShownIn(begun', work[a].turn) => ShownIn(begun, work[a].turn)
        BY <2>4, <3>2
    <3>4. phase'[work[a].turn] = phase[work[a].turn]
        BY <1>1, <3>1, <3>2
    <3> QED
        BY <1>5, <3>1, <3>3, <3>4 DEF KeepsPolicy, completions, ShownIn
  <2> QED
      BY <2>6, <2>7
<1> QED
    BY <1>4, <1>5

LEMMA BeginKeeps ==
    ASSUME Typed, Capturing, PoliciesKept, NEW t \in Turns,
           \/ ReadSettings(t) \/ ReadSnapshots(t) \/ StoreSnapshot(t) \/ SnapshotLost(t)
           \/ StoreUnanswered(t) \/ BeginFails(t)
    PROVE  Capturing' /\ PoliciesKept'
<1>1. phase \in [Turns -> Phases] /\ bound \in [Turns -> Settings]
    BY DEF Typed, BeginTypes
<1>2. phase[t] # "begun" /\ t \notin SelfKeyed
    BY DEF Capturing, ReadSettings, ReadSnapshots, StoreSnapshot, SnapshotLost, StoreUnanswered,
           BeginFails, StoreCapture
<1>3. CASE ReadSettings(t)
  <2>1. /\ phase' = [phase EXCEPT ![t] = "read"] /\ phase[t] = "idle"
        /\ \A u \in Turns : u # t => bound'[u] = bound[u]
        /\ UNCHANGED <<snapshots, begun>> /\ UNCHANGED completions
      BY <1>1, <1>3 DEF ReadSettings, records
  <2> QED
      BY <1>2, <2>1, TurnKeeps
<1>4. CASE ReadSnapshots(t) \/ SnapshotLost(t) \/ BeginFails(t)
  <2>1. PICK x \in {"read", "store", "refused"} : phase' = [phase EXCEPT ![t] = x]
      BY <1>4 DEF ReadSnapshots, SnapshotLost, BeginFails
  <2>2. UNCHANGED <<snapshots, begun, bound>> /\ UNCHANGED completions
      BY <1>4 DEF ReadSnapshots, SnapshotLost, BeginFails, records
  <2> QED
      BY <1>2, <2>1, <2>2, TurnKeeps
<1>5. CASE StoreSnapshot(t) \/ StoreUnanswered(t)
  <2>1. PICK x \in {"read", "begun", "refused"} : phase' = [phase EXCEPT ![t] = x]
      BY <1>5 DEF StoreSnapshot, StoreUnanswered
  <2>2. /\ snapshots' = WithCapture(snapshots, t) /\ begun' = MovedLast(begun, t)
        /\ UNCHANGED bound /\ UNCHANGED completions
      BY <1>5 DEF StoreSnapshot, StoreUnanswered, StoreCapture, MovedLast
  <2> QED
      BY <1>2, <2>1, <2>2, TurnKeeps
<1> QED
    BY <1>3, <1>4, <1>5

\* A step of one attempt.
LEMMA AttemptKeeps ==
    ASSUME Typed, Capturing, PoliciesKept, NEW a \in Attempts, NEW x, NEW w,
           pc' = [pc EXCEPT ![a] = x], work' = [work EXCEPT ![a] = w],
           UNCHANGED <<snapshots, begun, phase, bound>>,
           x \in UnderWay =>
             /\ w.turn \in SelfKeyed \/ phase[w.turn] = "begun"
             /\ x = "effective" /\ w.turn \notin BodyTurns => ~ShownIn(begun, w.turn)
             /\ x \in {"read", "write"} /\ w.turn \notin BodyTurns /\ ShownIn(begun, w.turn) =>
                   w.policy = bound[w.turn].policy
    PROVE  Capturing' /\ PoliciesKept'
<1>1. Capturing'
    BY DEF Capturing, Distinct, Mirrors, Captured, Dropped
<1>2. PoliciesKept'
  <2> SUFFICES ASSUME NEW b \in Attempts, pc'[b] \in UnderWay
               PROVE  KeepsPolicy(b, work[b].turn)'
      BY DEF PoliciesKept
  <2>1. /\ pc'[b] = IF b = a THEN x ELSE pc[b]
        /\ work'[b] = IF b = a THEN w ELSE work[b]
      BY DEF Typed, CompletionTypes
  <2>2. CASE b = a
      BY <2>1, <2>2 DEF KeepsPolicy, ShownIn
  <2>3. CASE b # a
      BY <2>1, <2>3 DEF KeepsPolicy, ShownIn, PoliciesKept
  <2> QED
      BY <2>2, <2>3
<1> QED
    BY <1>1, <1>2

\* An attempt that ends, or that goes on with its turn and its policy.
LEMMA AttemptGoesOn ==
    ASSUME Typed, Capturing, PoliciesKept, NEW a \in Attempts,
           UNCHANGED <<snapshots, begun, phase, bound>>,
           \/ \E p, v : Return(a, p, v)
           \/ /\ pc[a] \in {"read", "write"}
              /\ \E x \in {"read", "write"} : pc' = [pc EXCEPT ![a] = x]
              /\ \E w : work' = [work EXCEPT ![a] = w] /\ w.turn = work[a].turn
                                                       /\ w.policy = work[a].policy
    PROVE  Capturing' /\ PoliciesKept'
<1>1. CASE \E p, v : Return(a, p, v)
  <2>1. pc' = [pc EXCEPT ![a] = "answered"] /\ work' = [work EXCEPT ![a] = NoWork]
        /\ "answered" \notin UnderWay
      BY <1>1 DEF Return, UnderWay
  <2> QED
      BY <2>1, AttemptKeeps
<1>2. CASE /\ pc[a] \in {"read", "write"}
           /\ \E x \in {"read", "write"} : pc' = [pc EXCEPT ![a] = x]
           /\ \E w : work' = [work EXCEPT ![a] = w] /\ w.turn = work[a].turn
                                                    /\ w.policy = work[a].policy
  <2>1. PICK x \in {"read", "write"} : pc' = [pc EXCEPT ![a] = x]
      BY <1>2
  <2>2. PICK w : work' = [work EXCEPT ![a] = w] /\ w.turn = work[a].turn
                                                /\ w.policy = work[a].policy
      BY <1>2
  <2>3. KeepsPolicy(a, work[a].turn) /\ x # "effective"
      BY <1>2 DEF PoliciesKept, UnderWay
  <2>4. /\ w.turn \in SelfKeyed \/ phase[w.turn] = "begun"
        /\ w.turn \notin BodyTurns /\ ShownIn(begun, w.turn) => w.policy = bound[w.turn].policy
      BY <1>2, <2>2, <2>3 DEF KeepsPolicy
  <2> QED
      BY <2>1, <2>2, <2>3, <2>4, AttemptKeeps
<1> QED
    BY <1>1, <1>2

\* What the record holds of a turn is what the turn captured, and it holds
\* something of every turn that is among the newest.
LEMMA CapturedSettings ==
    ASSUME Typed, Capturing, NEW t \in Turns
    PROVE  /\ \A i \in Places(snapshots, t) : snapshots[i].settings = bound[t]
           /\ Places(snapshots, t) = {} => ~ShownIn(begun, t)
<1> DEFINE d == Dropped(begun, SnapshotLimit)
<1>1. begun \in Seq(Turns) /\ snapshots \in Seq(Captures)
    BY DEF Typed, RecordTypes
<1>2. Len(begun) \in Nat /\ Len(snapshots) \in Nat /\ SnapshotLimit \in Nat \ {0}
    BY <1>1, LenProperties, BoundsAssumption
<1>3. DOMAIN snapshots = 1..Len(snapshots)
    BY <1>1, LenProperties
<1>4. d \in Nat /\ (d > 0 => d = Len(begun) - SnapshotLimit) /\ (d = 0 => Len(begun) <= SnapshotLimit)
    BY <1>2 DEF Dropped
<1>5. /\ Len(snapshots) = Len(begun) - d
      /\ \A i \in 1..Len(snapshots) : /\ snapshots[i].turn = begun[i + d]
                                      /\ snapshots[i].settings = bound[begun[i + d]]
    BY DEF Capturing, Mirrors, Captured
<1> HIDE DEF d
<1>6. \A i \in Places(snapshots, t) : snapshots[i].settings = bound[t]
    BY <1>3, <1>5 DEF Places
<1>7. ASSUME ShownIn(begun, t) PROVE Places(snapshots, t) # {}
  <2>1. PICK j \in 1..Len(begun) : j > Len(begun) - SnapshotLimit /\ begun[j] = t
      BY <1>7 DEF ShownIn
  <2>2. j - d \in 1..Len(snapshots) /\ (j - d) + d = j
      BY <1>2, <1>4, <1>5, <2>1
  <2>3. snapshots[j - d].turn = t
      BY <1>5, <2>1, <2>2
  <2> QED
      BY <1>3, <2>2, <2>3 DEF Places
<1> QED
    BY <1>6, <1>7

LEMMA FindPolicyKeeps ==
    ASSUME Typed, Capturing, PoliciesKept, NEW a \in Attempts, NEW t \in Turns, NEW ok \in BOOLEAN,
           FindPolicy(a, t, ok)
    PROVE  Capturing' /\ PoliciesKept'
<1>1. PICK i \in SnapshotsOf(t) : Persist(a, t, snapshots[i].settings.policy, ok)
    BY DEF FindPolicy
<1> DEFINE w == [NoWork EXCEPT !.turn = t, !.policy = snapshots[i].settings.policy, !.succeeded = ok]
<1>2. pc' = [pc EXCEPT ![a] = "read"] /\ work' = [work EXCEPT ![a] = w]
      /\ UNCHANGED <<snapshots, begun, phase, bound>>
    BY <1>1 DEF FindPolicy, Goto, Persist, records, begins
<1>3. w.turn = t /\ w.policy = snapshots[i].settings.policy
    BY DEF NoWork
<1>4. t \in SelfKeyed \/ phase[t] = "begun"
    BY DEF FindPolicy, Known
<1>5. t \notin BodyTurns => snapshots[i].settings = bound[t]
    BY CapturedSettings DEF SnapshotsOf, CompletionKey
<1> HIDE DEF w
<1> QED
    BY <1>2, <1>3, <1>4, <1>5, AttemptKeeps

LEMMA NoSnapshotKeeps ==
    ASSUME Typed, Capturing, PoliciesKept, NEW a \in Attempts, NEW t \in Turns, NoSnapshot(a, t)
    PROVE  Capturing' /\ PoliciesKept'
<1> DEFINE w == [work[a] EXCEPT !.turn = t]
<1>1. work[a] \in Works
    BY DEF Typed, CompletionTypes
<1>2. w.turn = t
    BY <1>1 DEF Works
<1>3. pc' = [pc EXCEPT ![a] = "effective"] /\ work' = [work EXCEPT ![a] = w]
      /\ UNCHANGED <<snapshots, begun, phase, bound>>
    BY DEF NoSnapshot, Goto, records, begins
<1>4. t \in SelfKeyed \/ phase[t] = "begun"
    BY DEF NoSnapshot, Known
<1>5. t \notin BodyTurns => ~ShownIn(begun, t)
    BY CapturedSettings DEF NoSnapshot, SnapshotsOf, CompletionKey
<1> HIDE DEF w
<1> QED
    BY <1>2, <1>3, <1>4, <1>5, AttemptKeeps

LEMMA ReadEffectiveKeeps ==
    ASSUME Typed, Capturing, PoliciesKept, NEW a \in Attempts, NEW ok \in BOOLEAN, ReadEffective(a, ok)
    PROVE  Capturing' /\ PoliciesKept'
<1> DEFINE w == [NoWork EXCEPT !.turn = work[a].turn, !.policy = settings.policy, !.succeeded = ok]
<1>1. pc' = [pc EXCEPT ![a] = "read"] /\ work' = [work EXCEPT ![a] = w]
      /\ UNCHANGED <<snapshots, begun, phase, bound>>
    BY DEF ReadEffective, Goto, Persist, records, begins
<1>2. w.turn = work[a].turn
    BY DEF NoWork
<1>3. KeepsPolicy(a, work[a].turn) /\ pc[a] = "effective"
    BY DEF PoliciesKept, UnderWay, ReadEffective, Goto
<1> HIDE DEF w
<1> QED
    BY <1>1, <1>2, <1>3, AttemptKeeps DEF KeepsPolicy

LEMMA CompletionKeeps ==
    ASSUME Typed, Capturing, PoliciesKept, NEW a \in Attempts,
           \/ ReadHealth(a) \/ AlreadySettled(a) \/ WriteHealth(a) \/ HealthLost(a)
           \/ WriteUnanswered(a) \/ RecordsFail(a)
    PROVE  Capturing' /\ PoliciesKept'
<1>1. UNCHANGED <<snapshots, begun, phase, bound>>
    BY DEF ReadHealth, AlreadySettled, WriteHealth, HealthLost, WriteUnanswered, RecordsFail,
           records, begins
<1>2. work[a] \in Works
    BY DEF Typed, CompletionTypes
<1>3. CASE ReadHealth(a)
  <2> DEFINE w == [work[a] EXCEPT !.current = health]
  <2>1. w.turn = work[a].turn /\ w.policy = work[a].policy
      BY <1>2 DEF Works
  <2>2. work' = [work EXCEPT ![a] = w] /\ pc' = [pc EXCEPT ![a] = "write"] /\ pc[a] = "read"
      BY <1>3 DEF ReadHealth, Goto
  <2> HIDE DEF w
  <2> QED
      BY <1>1, <2>1, <2>2, AttemptGoesOn
<1>4. CASE TryAgain(a)
  <2>1. CASE Unavailable(a)
      BY <1>1, <2>1, AttemptGoesOn DEF Unavailable
  <2>2. CASE /\ Goto(a, "write", "read")
             /\ work' = [work EXCEPT ![a].tries = @ + 1, ![a].current = Absent]
    <3> DEFINE w == [work[a] EXCEPT !.tries = @ + 1, !.current = Absent]
    <3>1. w.turn = work[a].turn /\ w.policy = work[a].policy
        BY <1>2 DEF Works
    <3>2. work' = [work EXCEPT ![a] = w] /\ pc' = [pc EXCEPT ![a] = "read"] /\ pc[a] = "write"
        BY <2>2 DEF Goto, Typed, CompletionTypes
    <3> HIDE DEF w
    <3> QED
        BY <1>1, <3>1, <3>2, AttemptGoesOn
  <2> QED
      BY <1>4, <2>1, <2>2 DEF TryAgain
<1>5. CASE AlreadySettled(a) \/ WriteHealth(a)
    BY <1>1, <1>5, AttemptGoesOn DEF AlreadySettled, WriteHealth, Decide
<1>6. CASE Unavailable(a)
    BY <1>1, <1>6, AttemptGoesOn DEF Unavailable
<1> QED
    BY <1>3, <1>4, <1>5, <1>6 DEF HealthLost, WriteUnanswered, RecordsFail

LEMMA StepKeeps == Typed /\ Capturing /\ PoliciesKept /\ [Next]_vars => Capturing' /\ PoliciesKept'
<1> SUFFICES ASSUME Typed, Capturing, PoliciesKept, [Next]_vars PROVE Capturing' /\ PoliciesKept'
    OBVIOUS
<1>1. CASE \E t \in Turns :
             \/ ReadSettings(t) \/ ReadSnapshots(t) \/ StoreSnapshot(t) \/ SnapshotLost(t)
             \/ StoreUnanswered(t) \/ BeginFails(t)
    BY <1>1, BeginKeeps
<1>2. ASSUME UNCHANGED <<snapshots, begun, phase, bound, pc, work>>
      PROVE  Capturing' /\ PoliciesKept'
    BY <1>2 DEF Capturing, Distinct, Mirrors, Captured, Dropped, PoliciesKept, KeepsPolicy, ShownIn
<1>3. CASE Reset \/ \E p \in Policies : SaveSettings(p)
    BY <1>2, <1>3 DEF Reset, SaveSettings, begins, completions
<1>4. CASE \E a \in Attempts, t \in Turns : NoSnapshot(a, t)
    BY <1>4, NoSnapshotKeeps
<1>5. CASE \E a \in Attempts, t \in Turns, ok \in BOOLEAN : FindPolicy(a, t, ok)
    BY <1>5, FindPolicyKeeps
<1>6. CASE \E a \in Attempts, ok \in BOOLEAN : ReadEffective(a, ok)
    BY <1>6, ReadEffectiveKeeps
<1>7. CASE \E a \in Attempts :
             \/ ReadHealth(a) \/ AlreadySettled(a) \/ WriteHealth(a) \/ HealthLost(a)
             \/ WriteUnanswered(a) \/ RecordsFail(a)
    BY <1>7, CompletionKeeps
<1>8. CASE UNCHANGED vars
    BY <1>2, <1>8 DEF vars, records, begins, completions
<1> QED
    BY <1>1, <1>3, <1>4, <1>5, <1>6, <1>7, <1>8 DEF Next

THEOREM CapturesKeep == Spec => [](Capturing /\ PoliciesKept)
<1>1. Init => Capturing /\ PoliciesKept
    BY InitiallyCapturing
<1>2. Typed /\ Capturing /\ PoliciesKept /\ [Next]_vars => Capturing' /\ PoliciesKept'
    BY StepKeeps
<1> QED
    BY <1>1, <1>2, TypesHold, PTL DEF Spec

\* Concurrent begins do not overwrite each other: the snapshots are those of the
\* newest turns in their order, and the records, loops and answers stay well
\* formed (continuity_settings.py, lines 116-135).
THEOREM CapturesAlwaysHold == Spec => []CapturesHold
<1>1. Typed /\ Capturing => CapturesHold
  <2> SUFFICES ASSUME Typed, Capturing PROVE CapturesHold
      OBVIOUS
  <2>1. TypeOK
      BY DEF Typed, RecordTypes, BeginTypes, CompletionTypes, TypeOK, Phases, Stages, Works, Answers
  <2> DEFINE n == Newest(begun, SnapshotLimit)
  <2>2. begun \in Seq(Turns) /\ snapshots \in Seq(Captures)
      BY DEF Typed, RecordTypes
  <2>3. /\ n \in Seq(Turns) /\ Len(n) = Len(begun) - Dropped(begun, SnapshotLimit)
        /\ \A i \in 1..Len(n) : n[i] = begun[i + Dropped(begun, SnapshotLimit)]
      BY <2>2, NewestElements, BoundsAssumption
  <2> HIDE DEF n
  <2>4. Len(snapshots) = Len(n) /\ \A i \in 1..Len(n) : snapshots[i] = Captured(n[i])
      BY <2>3 DEF Capturing, Mirrors
  <2>5. DOMAIN n = 1..Len(n) /\ snapshots \in [1..Len(snapshots) -> Captures]
      BY <2>2, <2>3, LenProperties
  <2>6. snapshots = [i \in DOMAIN n |-> Captured(n[i])]
      BY <2>4, <2>5
  <2> QED
      BY <2>1, <2>6 DEF CapturesHold, CapturesKept, n
<1> QED
    BY <1>1, TypesHold, CapturesKeep, PTL

\* An edit in the middle of a turn applies to later ones: a turn that is among
\* the newest completes under the policy it began with, whichever revisions its
\* begin and its completion met (continuity_settings.py, lines 143-155).
THEOREM EditsAlwaysApplyLater == Spec => []EditsApplyLater
<1>1. Typed /\ PoliciesKept => EditsApplyLater
  <2> SUFFICES ASSUME Typed, PoliciesKept, NEW a \in Attempts, pc[a] \in {"read", "write"},
                      work[a].turn \notin BodyTurns,
                      work[a].turn \in ToSet(Newest(begun, SnapshotLimit))
               PROVE  work[a].policy = bound[work[a].turn].policy
      BY DEF EditsApplyLater
  <2> DEFINE n == Newest(begun, SnapshotLimit)
             d == Dropped(begun, SnapshotLimit)
  <2>1. begun \in Seq(Turns)
      BY DEF Typed, RecordTypes
  <2>2. /\ n \in Seq(Turns) /\ Len(n) = Len(begun) - d /\ d \in Nat
        /\ \A i \in 1..Len(n) : n[i] = begun[i + d]
      BY <2>1, NewestElements, BoundsAssumption
  <2>3. PICK i \in DOMAIN n : n[i] = work[a].turn
      BY DEF ToSet
  <2>4. i \in 1..Len(n)
      BY <2>2, <2>3, LenProperties
  <2>5. Len(begun) \in Nat /\ SnapshotLimit \in Nat
      BY <2>1, LenProperties, BoundsAssumption
  <2>6. d >= Len(begun) - SnapshotLimit
      BY <2>5 DEF Dropped
  <2> HIDE DEF n, d
  <2>7. i + d \in 1..Len(begun) /\ i + d > Len(begun) - SnapshotLimit
      BY <2>2, <2>4, <2>5, <2>6
  <2>8. ShownIn(begun, work[a].turn)
      BY <2>2, <2>3, <2>4, <2>7 DEF ShownIn
  <2> QED
      BY <2>8 DEF PoliciesKept, KeepsPolicy, UnderWay
<1> QED
    BY <1>1, TypesHold, CapturesKeep, PTL
================================================================================
